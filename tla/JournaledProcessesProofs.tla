---------------------- MODULE JournaledProcessesProofs ----------------------
(***************************************************************************)
(* Theorems about a process that keeps a journal, be it a run of a whole   *)
(* bundle or a continuation: for any bundle, quota, engine, codec and plan, *)
(* any failure of storage, codec or limit, and a crash anywhere.  The      *)
(* second part is about readers: what an inspector says of the file a      *)
(* process left is what happened, and the report that a caller is handed,  *)
(* the file and the engine tell the same story, whatever has failed.       *)
(***************************************************************************)
EXTENDS JournaledProcesses, FiniteSetTheorems, WellFoundedInduction, TLAPS

----------------------------------------------------------------------------
(* The inductive invariant.                                                *)

(* What the process is to evaluate, and the engine calls that are due.     *)
Todo == IF IsParent THEN Scenarios ELSE plan.remaining
Due(i) ==
  IF IsParent THEN IF i = 1 THEN Baseline ELSE Scenarios[i - 1] ELSE plan.remaining[i]

Calls == Len(engine)
Values == Signatures \cup EngineErrors
EngineCalls == [target : Targets, result : Values \cup {NoValue}]

Reasons == {"Cancelled", "DeadlineReached", "EvaluationLimitReached"}

(* The entry at hand: an intent, the return of a call, the terminal entry. *)
Emitting == wpc \in {"emit", "sync"}
Intent == event.event = "CallStarted"
Return == event.event \in {"CallSucceeded", "CallFailed"}

ProcessType ==
  /\ role \in {"parent", "child"} /\ (~IsParent => plan \in Plans)
  /\ wpc \in {"idle", "emit", "sync", "evaluate", "restore", "engine", "in engine", "returned",
              "answer", "blocked", "closed"}
  /\ pc \in {"admit", "clock", "token", "step", "calling", "progress", "report", "done"}
  /\ error \in {NoValue, "contract", "storage"} /\ crashed \in BOOLEAN /\ torn \in BOOLEAN
  /\ sequence \in Nat /\ previous \in {NoValue} \cup (Nat \X Events)
  /\ lines \in Seq(Entries) /\ engine \in Seq(EngineCalls)
  /\ Emitting => event \in Events
  /\ taken \in Nat /\ taken <= Len(input) /\ next \in Nat
  /\ status.kind = "Interrupted" => status.reason \in Reasons
  /\ wpc # "idle" => input = Todo /\ limit \in Limits /\ deadline \in BOOLEAN
  /\ pc = "calling" => current \in Targets
  /\ wpc = "returned" => engine # <<>> /\ engine[Calls].result \in Values

(* After a journal failure nothing is on its way to the file or the engine. *)
Latched ==
  /\ error # NoValue => wpc \in {"emit", "evaluate", "restore", "answer", "blocked", "closed"}
  /\ wpc = "idle" => ~IsParent /\ pc = "admit" /\ ~crashed /\ ~torn /\ lines = <<>> /\ engine = <<>>

Clean == ~crashed /\ error = NoValue /\ wpc # "idle"

(* Where the journal stands among the calls of the engine.                 *)
Position ==
  Clean =>
    /\ wpc # "blocked" /\ ~torn
    /\ Emitting =>
         /\ event.event = "Initialized" => sequence = 0 /\ Calls = 0 /\ pc = "admit"
         /\ Intent => sequence = 2 * Calls + 1
         /\ Return => sequence = 2 * Calls /\ Calls > 0
         /\ event.event = "Finished" => sequence = 2 * Calls + 1 /\ pc = "done"
    /\ wpc \in {"evaluate", "restore", "answer"} => sequence = 2 * Calls + 1
    /\ wpc = "engine" =>
         sequence = 2 * Calls + 2 /\ lines[sequence].event = CallStarted(current)
    /\ wpc \in {"in engine", "returned"} => sequence = 2 * Calls /\ Calls > 0
    /\ wpc = "closed" => sequence = 2 * Calls + 2

(* The evaluator's call in flight is the one that is due.                  *)
Before == wpc = "engine" \/ (Emitting /\ Intent)
Inside == wpc \in {"in engine", "returned", "answer"} \/ (Emitting /\ Return)

Behind ==
  taken + (IF IsParent /\ (baseline # NoValue \/ pc = "calling") THEN 1 ELSE 0)

InStep ==
  Clean =>
    /\ next = taken
    /\ Before => pc = "calling" /\ current = Due(Calls + 1) /\ Calls + 1 = Behind
    /\ Inside => pc = "calling" /\ current = Due(Calls) /\ Calls = Behind
    /\ Before \/ Inside => event.target = current /\ (IsParent \/ current # Baseline)
    /\ wpc = "restore" => ~IsParent /\ pc = "calling" /\ current = Baseline /\ Calls = taken
    /\ wpc = "evaluate" => pc # "calling"
    /\ pc \notin {"calling", "report", "done"} => Calls = Behind
    /\ IsParent /\ (baseline = NoValue \/ current = Baseline) => taken = 0

(* The file: what is acknowledged, and a line that may follow it.          *)
Filed ==
  /\ sequence <= Len(lines)
  /\ ~crashed /\ error = NoValue => Len(lines) = sequence + (IF wpc = "sync" THEN 1 ELSE 0)
  /\ wpc = "sync" /\ ~crashed => lines[sequence + 1].event = event
  /\ \A i \in DOMAIN engine :
       /\ 2 * i <= sequence /\ lines[2 * i].event = CallStarted(engine[i].target)
       /\ engine[i].target = Due(i) /\ (~IsParent => i <= Len(Todo))
  /\ \A k \in 1 .. sequence : lines[k].event.event = "CallStarted" =>
       \E i \in 1 .. Calls + 1 : k = 2 * i

JournalInv == ProcessType /\ Latched /\ Position /\ InStep /\ Filed
----------------------------------------------------------------------------
(* Reading a log.                                                          *)

(* A non-empty set of naturals has a least member.                         *)
LEMMA LeastMember ==
  ASSUME NEW T \in SUBSET Nat, T # {}
  PROVE  \E x \in T : \A y \in T : x <= y
<1>1. PICK x \in T : \A y \in T : ~ (<<y, x>> \in OpToRel(<, Nat))
  BY WFMin, NatLessThanWellFounded
<1>2. ASSUME NEW y \in T PROVE x <= y
  <2>1. ~ (<<y, x>> \in OpToRel(<, Nat))
    BY <1>1
  <2>2. ~ (y < x)
    BY <2>1 DEF OpToRel
  <2> QED BY <2>2
<1> QED BY <1>2

(* A set that holds 0 and the successor of each member holds every natural. *)
LEMMA Induction ==
  ASSUME NEW S, 0 \in S, \A n \in Nat : n \in S => n + 1 \in S
  PROVE  Nat \subseteq S
<1> DEFINE T == Nat \ S
<1>1. SUFFICES ASSUME T # {} PROVE FALSE
  OBVIOUS
<1>2. PICK x \in T : \A y \in T : x <= y
  BY <1>1, LeastMember
<1>3. x - 1 \in Nat /\ x - 1 \notin T
  BY <1>2
<1> QED BY <1>3

(* What the inspector knows after each of the first n lines of a log.      *)
Reading(f, log, n) ==
  f = [k \in 0 .. n |->
         IF k = 0 THEN FreshLifecycle
         ELSE LET l == f[k - 1] IN IF l = NoValue THEN NoValue ELSE ReadLine(l, log, k)]

(* Up to every length there is one reading that starts fresh and goes on   *)
(* line by line (inspect_execution_journal: the loop).                     *)
LEMMA ReadingExists ==
  ASSUME NEW log, NEW n \in Nat
  PROVE  \E f : Reading(f, log, n)
<1> DEFINE S == { m \in Nat : \E f : Reading(f, log, m) }
<1>1. 0 \in S
  <2>1. Reading([k \in 0 .. 0 |-> FreshLifecycle], log, 0)
    BY DEF Reading
  <2> QED BY <2>1
<1>2. ASSUME NEW m \in Nat, m \in S PROVE m + 1 \in S
  <2>1. PICK f : Reading(f, log, m)
    BY <1>2
  <2> DEFINE g == [k \in 0 .. m + 1 |->
                     IF k <= m THEN f[k]
                     ELSE IF f[m] = NoValue THEN NoValue ELSE ReadLine(f[m], log, m + 1)]
  <2>2. ASSUME NEW k \in 0 .. m + 1
        PROVE  g[k] = IF k = 0 THEN FreshLifecycle
                      ELSE IF g[k - 1] = NoValue THEN NoValue ELSE ReadLine(g[k - 1], log, k)
    BY <2>1 DEF Reading
  <2>3. Reading(g, log, m + 1)
    BY <2>2 DEF Reading
  <2> QED BY <2>3
<1>3. Nat \subseteq S
  BY <1>1, <1>2, Induction
<1> QED BY <1>3

(* What the inspector makes of a log is the last of such a reading.        *)
LEMMA LifecycleIsRead ==
  ASSUME NEW log, Len(log) \in Nat
  PROVE  \E f : Reading(f, log, Len(log)) /\ LifecycleOf(log) = f[Len(log)]
<1>1. PICK f : Reading(f, log, Len(log))
  BY ReadingExists
<1> DEFINE r == CHOOSE g : Reading(g, log, Len(log))
<1>2. Reading(r, log, Len(log))
  BY <1>1
<1>3. LifecycleOf(log) = r[Len(log)]
  BY DEF LifecycleOf, Reading
<1> QED BY <1>2, <1>3

(* Reading goes one way only, and what follows a line does not matter to it. *)
LEMMA ReadingAgrees ==
  ASSUME NEW log, NEW longer, NEW n \in Nat, NEW f, NEW g,
         Reading(f, log, n), Reading(g, longer, n),
         \A k \in 1 .. n : longer[k] = log[k]
  PROVE  f = g
<1> DEFINE S == { m \in Nat : m <= n => f[m] = g[m] }
<1>1. 0 \in S
  BY DEF Reading
<1>2. ASSUME NEW m \in Nat, m \in S PROVE m + 1 \in S
  <2>1. SUFFICES ASSUME m + 1 <= n PROVE f[m + 1] = g[m + 1]
    OBVIOUS
  <2>2. f[m] = g[m] /\ longer[m + 1] = log[m + 1] /\ (m # 0 => longer[m] = log[m])
    BY <1>2, <2>1
  <2>3. ReadLine(f[m], log, m + 1) = ReadLine(f[m], longer, m + 1)
    BY <2>2 DEF ReadLine
  <2>4. /\ f[m + 1] = IF f[m] = NoValue THEN NoValue ELSE ReadLine(f[m], log, m + 1)
        /\ g[m + 1] = IF g[m] = NoValue THEN NoValue ELSE ReadLine(g[m], longer, m + 1)
    BY <2>1 DEF Reading
  <2> QED BY <2>2, <2>3, <2>4
<1>3. Nat \subseteq S
  BY <1>1, <1>2, Induction
<1>4. \A m \in 0 .. n : f[m] = g[m]
  BY <1>3
<1> QED BY <1>4 DEF Reading

(* A log is read line by line.                                             *)
LEMMA ReadOn ==
  ASSUME NEW log, NEW longer, Len(log) \in Nat, Len(longer) = Len(log) + 1,
         \A k \in 1 .. Len(log) : longer[k] = log[k]
  PROVE  LifecycleOf(longer) =
           IF LifecycleOf(log) = NoValue THEN NoValue
           ELSE ReadLine(LifecycleOf(log), longer, Len(log) + 1)
<1> DEFINE n == Len(log)
<1>1. PICK f : Reading(f, log, n) /\ LifecycleOf(log) = f[n]
  BY LifecycleIsRead
<1>2. PICK g : Reading(g, longer, n + 1) /\ LifecycleOf(longer) = g[n + 1]
  BY LifecycleIsRead
<1> DEFINE h == [k \in 0 .. n |-> g[k]]
<1>3. Reading(h, longer, n)
  BY <1>2 DEF Reading
<1>4. f = h
  BY <1>1, <1>3, ReadingAgrees
<1>5. g[n] = f[n]
  BY <1>4
<1>6. g[n + 1] = IF g[n] = NoValue THEN NoValue ELSE ReadLine(g[n], longer, n + 1)
  BY <1>2 DEF Reading
<1> QED BY <1>1, <1>2, <1>5, <1>6

(* An empty log is read as a fresh lifecycle.                              *)
LEMMA NothingRead == LifecycleOf(<<>>) = FreshLifecycle
<1>1. PICK f : Reading(f, <<>>, 0) /\ LifecycleOf(<<>>) = f[0]
  BY LifecycleIsRead
<1> QED BY <1>1 DEF Reading

(* What is counted in a log that is accepted.                              *)
Counted(l) ==
  /\ l = [header |-> l.header, baseline |-> l.baseline, started |-> l.started,
          successful |-> l.successful, active |-> l.active, failed |-> l.failed,
          terminal |-> l.terminal]
  /\ l.started \in 0 .. Len(Scenarios) /\ l.successful \in Nat

(* A reading that accepts a line counts it: as many intents and answers as *)
(* it has met.                                                             *)
LEMMA ReadLineCounts ==
  ASSUME NEW l, NEW log, NEW k, Counted(l), ReadLine(l, log, k) # NoValue
  PROVE  Counted(ReadLine(l, log, k))
<1> DEFINE e == log[k].event
<1>0. Len(Scenarios) \in Nat
  BY ScenariosAssumption
<1>1. CASE k = 1
  <2>1. ReadLine(l, log, k) = [l EXCEPT !.header = e.header]
    BY <1>1 DEF ReadLine
  <2> QED BY <2>1 DEF Counted
<1>2. CASE k # 1
  <2>1. ReadLine(l, log, k) = After(l, e) /\ Accepts(l, e)
    BY <1>2 DEF ReadLine
  <2>2. CASE e.event = "CallStarted"
    <3>1. StartAllowed(l, e.target)
      BY <2>1, <2>2 DEF Accepts
    <3>2. After(l, e) = [l EXCEPT !.active = e.target,
                                  !.started = IF e.target = Baseline THEN @ ELSE @ + 1]
      BY <2>2 DEF After
    <3>3. e.target # Baseline => l.started < Len(Scenarios)
      BY <3>1 DEF StartAllowed
    <3> DEFINE s == IF e.target = Baseline THEN l.started ELSE l.started + 1
    <3>4. After(l, e) = [l EXCEPT !.active = e.target, !.started = s]
      BY <3>2, Zenon
    <3>5. s \in 0 .. Len(Scenarios)
      BY <1>0, <3>3 DEF Counted
    <3> HIDE DEF s
    <3> QED BY <2>1, <3>4, <3>5 DEF Counted
  <2>3. CASE e.event = "CallSucceeded"
    <3>1. After(l, e) = [l EXCEPT !.active = NoValue,
                                  !.baseline = @ \/ e.target = Baseline,
                                  !.successful = IF e.target = Baseline THEN @ ELSE @ + 1]
      BY <2>3 DEF After
    <3>2. PICK b, s : /\ After(l, e) = [l EXCEPT !.active = NoValue, !.baseline = b, !.successful = s]
                      /\ s \in Nat
      <4> DEFINE b == l.baseline \/ e.target = Baseline
                 s == IF e.target = Baseline THEN l.successful ELSE l.successful + 1
      <4>1. After(l, e) = [l EXCEPT !.active = NoValue, !.baseline = b, !.successful = s]
        BY <3>1, Zenon
      <4>2. s \in Nat
        BY DEF Counted
      <4> HIDE DEF b, s
      <4> QED BY <4>1, <4>2
    <3> QED BY <2>1, <3>2 DEF Counted
  <2>4. CASE e.event = "CallFailed"
    <3>1. After(l, e) = [l EXCEPT !.active = NoValue, !.failed = e.target]
      BY <2>4 DEF After
    <3> QED BY <2>1, <3>1 DEF Counted
  <2>5. CASE e.event = "Finished"
    <3>1. After(l, e) = [l EXCEPT !.terminal = e]
      BY <2>5 DEF After
    <3> QED BY <2>1, <3>1 DEF Counted
  <2> QED BY <2>1, <2>2, <2>3, <2>4, <2>5 DEF Accepts
<1> QED BY <1>1, <1>2

(* An accepted log has as many intents, and at most as many answers, as    *)
(* its lifecycle says.                                                     *)
LEMMA AcceptedIsCounted ==
  ASSUME NEW log, Len(log) \in Nat, LifecycleOf(log) # NoValue
  PROVE  Counted(LifecycleOf(log))
<1>1. PICK f : Reading(f, log, Len(log)) /\ LifecycleOf(log) = f[Len(log)]
  BY LifecycleIsRead
<1> DEFINE S == { m \in Nat : m <= Len(log) => f[m] = NoValue \/ Counted(f[m]) }
<1>2. 0 \in S
  <2>1. f[0] = FreshLifecycle
    BY <1>1 DEF Reading
  <2>2. Counted(FreshLifecycle)
    BY ScenariosAssumption DEF Counted, FreshLifecycle
  <2> QED BY <2>1, <2>2
<1>3. ASSUME NEW m \in Nat, m \in S PROVE m + 1 \in S
  <2>1. SUFFICES ASSUME m + 1 <= Len(log) PROVE f[m + 1] = NoValue \/ Counted(f[m + 1])
    OBVIOUS
  <2>2. f[m + 1] = IF f[m] = NoValue THEN NoValue ELSE ReadLine(f[m], log, m + 1)
    BY <1>1, <2>1 DEF Reading
  <2>3. f[m] = NoValue \/ Counted(f[m])
    BY <1>3, <2>1
  <2> QED BY <2>2, <2>3, ReadLineCounts
<1>4. Nat \subseteq S
  BY <1>2, <1>3, Induction
<1> QED BY <1>1, <1>4

(* What a plan that was prepared says of its log and its expectations.     *)
LEMMA PreparedPlan ==
  ASSUME NEW p, p # NoValue, p = Prepare(p.log, p.expected, p.identity), Len(p.log.lines) \in Nat
  PROVE  LET summary == Inspect(p.log.lines, p.log.torn)
             n == summary.successful
         IN  /\ n \in 0 .. Len(Scenarios) - 1
             /\ p.remaining = Suffix(n) /\ Len(p.restored) = n
             /\ p.run = p.expected.run /\ p.identity = p.expected.identity
             /\ p.log = p.expected.log /\ p.expected.semantics = "PureIndependent"
             /\ Anchored(summary, p.expected) /\ ParentAdmissible(summary)
<1> DEFINE summary == Inspect(p.log.lines, p.log.torn)
           n == summary.successful
           pre == Preflight(p.log, p.expected, p.identity)
           l == LifecycleOf(p.log.lines)
<1>1. Continuable(pre) /\ p = PlanOf(p.log, p.expected, pre.summary.successful)
  BY DEF Prepare, Prepared
<1>2. /\ p.identity = p.expected.identity /\ p.log = p.expected.log
      /\ Anchored(summary, p.expected)
      /\ pre = [summary |-> summary, blockers |-> Blockers(summary, p.expected)]
  BY <1>1 DEF Continuable, Preflight, Preflighted
<1>3. Blockers(summary, p.expected) = {} /\ summary.baseline
      /\ n + summary.neverStarted = Len(Scenarios)
  BY <1>1, <1>2 DEF Continuable
<1>4. /\ summary.state # "incomplete_tail" /\ summary.unknown = NoValue
      /\ summary.failed = NoValue /\ p.expected.semantics = "PureIndependent"
      /\ summary.neverStarted # 0
  BY <1>3 DEF Blockers
<1>5. /\ l # NoValue /\ summary.successful = l.successful
      /\ summary.neverStarted = Len(Scenarios) - l.started
  BY <1>2 DEF Anchored, Inspect, Summarize
<1>6. l.started \in 0 .. Len(Scenarios) /\ l.successful \in Nat
  BY <1>5, AcceptedIsCounted DEF Counted
<1>7. n \in 0 .. Len(Scenarios) - 1
  BY <1>3, <1>4, <1>5, <1>6, ScenariosAssumption
<1>8. p = PlanOf(p.log, p.expected, n)
  BY <1>1, <1>2
<1>9. p.run = p.expected.run /\ p.remaining = Suffix(n)
      /\ p.restored = [k \in 1 .. n |-> Restored(p.log.lines, k + 1)]
  BY <1>8 DEF PlanOf
<1>10. Len(p.restored) = n
  BY <1>7, <1>9
<1>11. ParentAdmissible(summary)
  BY <1>3, <1>4 DEF ParentAdmissible
<1> QED BY <1>2, <1>4, <1>7, <1>9, <1>10, <1>11

----------------------------------------------------------------------------
(* What a step of either kind of process does to the journal, the engine   *)
(* and the part of the evaluator they depend on.                           *)

process == <<role, plan>>
controls == <<input, limit, deadline>>
report == <<baseline, outcomes, taken, status>>
file == <<lines, torn>>
entry == <<sequence, previous>>

Interruption ==
  \E reason \in Reasons :
    /\ status' = [kind |-> "Interrupted", reason |-> reason]
    /\ reason = "DeadlineReached" => deadline
    /\ reason = "EvaluationLimitReached" => taken # Len(input) /\ Len(outcomes) >= limit

Evaluates ==
  /\ wpc = "evaluate"
  /\ \/ pc = "admit" /\ pc' = "clock" /\ UNCHANGED status
     \/ pc = "admit" /\ pc' = "report" /\ status'.kind = "DuplicateScenarioId"
     \/ pc = "clock" /\ pc' = "token" /\ UNCHANGED status
     \/ pc = "token" /\ pc' = "report" /\ Interruption
     \/ pc = "token" /\ pc' = "step" /\ UNCHANGED status
          /\ (taken = Len(input) \/ ~(Len(outcomes) >= limit))
     \/ pc = "step" /\ pc' = "report" /\ UNCHANGED status
          /\ baseline # NoValue /\ taken = Len(input)
     \/ pc = "progress" /\ pc' = "clock" /\ UNCHANGED status
     \/ pc = "report" /\ pc' = "done" /\ UNCHANGED status
  /\ UNCHANGED <<process, controls, baseline, outcomes, taken, current, run, wpc, event, file,
                 entry, error, next, engine, crashed>>

IntendsBaseline ==
  /\ IsParent /\ wpc = "evaluate" /\ pc = "step" /\ baseline = NoValue
  /\ pc' = "calling" /\ current' = Baseline
  /\ wpc' = "emit" /\ event' = CallStarted(Baseline)
  /\ UNCHANGED <<process, controls, report, run, file, entry, error, next, engine, crashed>>

IntendsScenario ==
  /\ wpc = "evaluate" /\ pc = "step" /\ baseline # NoValue /\ taken < Len(input)
  /\ pc' = "calling" /\ current' = input[taken + 1] /\ taken' = taken + 1
  /\ \/ error # NoValue /\ wpc' = "blocked" /\ UNCHANGED <<event, error, next>>
     \/ error = NoValue /\ next = Len(Todo) /\ wpc' = "blocked" /\ error' = "contract"
          /\ UNCHANGED <<event, next>>
     \/ error = NoValue /\ next # Len(Todo) /\ wpc' = "emit" /\ next' = next + 1
          /\ event' = CallStarted(Todo[next + 1]) /\ UNCHANGED error
  /\ UNCHANGED <<process, controls, baseline, outcomes, status, run, file, entry, engine, crashed>>

(* A continuation's baseline is restored.                                  *)
CallsRestored ==
  /\ ~IsParent /\ wpc = "evaluate" /\ pc = "step" /\ baseline = NoValue
  /\ pc' = "calling" /\ current' = Baseline /\ wpc' = "restore"
  /\ UNCHANGED <<process, controls, report, run, event, file, entry, error, next, engine, crashed>>

ReturnsRestored ==
  /\ ~IsParent /\ wpc = "restore" /\ pc = "calling"
  /\ pc' = "progress" /\ baseline' = plan.baseline /\ current' = NoValue /\ wpc' = "evaluate"
  /\ UNCHANGED <<process, controls, outcomes, taken, status, run, event, file, entry, error, next,
                 engine, crashed>>

Invokes ==
  /\ wpc = "engine" /\ wpc' = "in engine"
  /\ engine' = Append(engine, [target |-> current, result |-> NoValue])
  /\ UNCHANGED <<process, controls, pc, report, current, run, event, file, entry, error, next,
                 crashed>>

EngineAnswers ==
  /\ wpc = "in engine" /\ wpc' = "returned"
  /\ \E value \in Values : engine' = [engine EXCEPT ![Calls].result = value]
  /\ UNCHANGED <<process, controls, pc, report, current, run, event, file, entry, error, next,
                 crashed>>

Result == engine[Calls].result
Returned(target) ==
  IF Result \in Signatures THEN CallSucceeded(target, Encode(Result))
  ELSE CallFailed(target, Encode(Result))

Records ==
  /\ wpc = "returned"
  /\ \/ wpc' = "emit" /\ event' = Returned(event.target) /\ UNCHANGED error
     \/ wpc' = "answer" /\ error' = "contract" /\ UNCHANGED event
  /\ UNCHANGED <<process, controls, pc, report, current, run, file, entry, next, engine, crashed>>

Answers ==
  /\ wpc = "answer" /\ pc = "calling" /\ wpc' = "evaluate"
  /\ \/ /\ Result \in Signatures /\ current = Baseline /\ IsParent
        /\ pc' = "progress" /\ baseline' = Result /\ UNCHANGED <<outcomes, status>>
     \/ /\ Result \in Signatures /\ current \in ScenarioIds
        /\ pc' = "progress"
        /\ outcomes' = Append(outcomes, [scenario |-> current, signature |-> Result])
        /\ UNCHANGED <<baseline, status>>
     \/ /\ Result \notin Signatures /\ pc' = "report"
        /\ status' = [kind |-> "EngineFailed",
                      scenario |-> IF current = Baseline THEN NoValue ELSE current,
                      error |-> Result]
        /\ UNCHANGED <<baseline, outcomes>>
  /\ current' = NoValue
  /\ UNCHANGED <<process, controls, taken, run, event, file, entry, error, next, engine, crashed>>

AnswersBlocked ==
  /\ wpc = "blocked" /\ pc = "calling" /\ wpc' = "evaluate" /\ pc' = "report"
  /\ status' = [kind |-> "EngineFailed",
                scenario |-> IF current = Baseline THEN NoValue ELSE current, error |-> Blocked]
  /\ current' = NoValue
  /\ UNCHANGED <<process, controls, baseline, outcomes, taken, run, event, file, entry, error,
                 next, engine, crashed>>

Ending ==
  CASE status.kind = "Completed" -> Finished("Completed", NoValue)
    [] status.kind = "Interrupted" -> Finished("Interrupted", status.reason)
    [] status.kind = "EngineFailed" /\ status.error # Blocked -> Finished("Failed", NoValue)
    [] OTHER -> NoValue

Closes ==
  /\ wpc = "evaluate" /\ pc = "done"
  /\ \/ error # NoValue /\ wpc' = "closed" /\ UNCHANGED <<event, error>>
     \/ error = NoValue /\ Ending = NoValue /\ wpc' = "closed" /\ error' = "contract"
          /\ UNCHANGED event
     \/ error = NoValue /\ Ending # NoValue /\ wpc' = "emit" /\ event' = Ending /\ UNCHANGED error
  /\ UNCHANGED <<process, controls, pc, report, current, run, file, entry, next, engine, crashed>>

Resumed(ok) ==
  CASE event.event = "Initialized" -> "evaluate"
    [] event.event = "CallStarted" -> IF ok THEN "engine" ELSE "blocked"
    [] event.event \in {"CallSucceeded", "CallFailed"} -> "answer"
    [] event.event = "Finished" -> "closed"

EmitsNothing ==
  /\ wpc = "emit" /\ wpc' = Resumed(FALSE)
  /\ \/ error # NoValue /\ UNCHANGED <<error, torn>>
     \/ error = NoValue /\ error' \in {"contract", "storage"} /\ torn' \in {torn, TRUE}
  /\ UNCHANGED <<process, controls, pc, report, current, run, event, lines, entry, next, engine,
                 crashed>>

Writes ==
  /\ wpc = "emit" /\ error = NoValue /\ wpc' = "sync"
  /\ lines' = Append(lines, IF torn THEN Malformed ELSE Entry(sequence, previous, event))
  /\ torn' = FALSE
  /\ UNCHANGED <<process, controls, pc, report, current, run, event, entry, error, next, engine,
                 crashed>>

Syncs ==
  /\ wpc = "sync" /\ wpc' = Resumed(TRUE)
  /\ sequence' = sequence + 1
  /\ previous' = Digest(Entry(sequence, previous, event))
  /\ UNCHANGED <<process, controls, pc, report, current, run, event, file, error, next, engine,
                 crashed>>

SyncFails ==
  /\ wpc = "sync" /\ wpc' = Resumed(FALSE) /\ error' = "storage"
  /\ UNCHANGED <<process, controls, pc, report, current, run, event, file, entry, next, engine,
                 crashed>>

Dies ==
  /\ wpc # "closed" /\ (wpc = "idle" => IsParent) /\ crashed'
  /\ \/ UNCHANGED file
     \/ wpc = "emit" /\ error = NoValue /\ torn' = TRUE /\ UNCHANGED lines
     \/ wpc = "sync" /\ torn' \in BOOLEAN /\ lines' = SubSeq(lines, 1, Len(lines) - 1)
  /\ UNCHANGED <<process, controls, pc, report, current, run, wpc, event, entry, error, next,
                 engine>>

Starts ==
  /\ ~IsParent /\ wpc = "idle" /\ wpc' = "emit"
  /\ \E id \in RunIds, identity \in Identities, quota \in Limits, timed \in BOOLEAN :
       /\ id # plan.run /\ identity = plan.identity
       /\ limit' = quota /\ deadline' = timed /\ run' = id
       /\ event' = Initialized(ChildHeader(plan, id, identity, quota, timed))
  /\ input' = plan.remaining
  /\ pc' = "admit" /\ baseline' = NoValue /\ outcomes' = <<>> /\ taken' = 0
  /\ current' = NoValue /\ status' = [kind |-> "Completed"]
  /\ sequence' = 0 /\ previous' = NoValue /\ error' = NoValue /\ next' = 0 /\ crashed' = FALSE
  /\ UNCHANGED <<process, file, engine>>

Rests ==
  UNCHANGED <<process, controls, pc, report, current, run, wpc, event, file, entry, error, next,
              engine, crashed>>

Moves ==
  \/ /\ ~crashed
     /\ \/ Evaluates \/ IntendsBaseline \/ IntendsScenario \/ CallsRestored \/ ReturnsRestored
        \/ Invokes \/ EngineAnswers \/ Records \/ Answers \/ AnswersBlocked \/ Closes
        \/ EmitsNothing \/ Writes \/ Syncs \/ SyncFails \/ Dies
  \/ Starts \/ Rests

(* The evaluator between two calls, in a run and in a continuation.        *)
LEMMA EvaluatorMoves ==
  ASSUME UNCHANGED process, (IsParent /\ Parent!Evaluate) \/ (~IsParent /\ Child!Evaluate)
  PROVE  Evaluates
<1> USE DEF Evaluates, process, controls, file, entry, Interruption, Reasons,
      Parent!evaluation, Parent!journal, Parent!file, Parent!emitter, Parent!session,
      Parent!Eval!control, Parent!Eval!environment, Parent!Eval!report,
      Child!evaluation, Child!journal, Child!file, Child!emitter,
      Child!Eval!control, Child!Eval!environment, Child!Eval!report
<1>1. CASE IsParent /\ Parent!Evaluate
  <2>1. CASE Parent!Eval!Admit
    BY <1>1, <2>1 DEF Parent!Evaluate, Parent!Eval!Admit, Parent!Eval!DuplicateScenarioId
  <2>2. CASE Parent!Eval!ReadClock
    BY <1>1, <2>2 DEF Parent!Evaluate, Parent!Eval!ReadClock
  <2>3. CASE Parent!Eval!Checkpoint
    BY <1>1, <2>3, ValuesAssumption DEF Parent!Evaluate, Parent!Eval!Checkpoint, Parent!Eval!InterruptionAt,
       Parent!Eval!Interrupted
  <2>4. CASE Parent!Eval!Exhaust
    BY <1>1, <2>4 DEF Parent!Evaluate, Parent!Eval!Exhaust
  <2>5. CASE Parent!Eval!Progress
    BY <1>1, <2>5 DEF Parent!Evaluate, Parent!Eval!Progress
  <2>6. CASE Parent!Eval!Finish
    BY <1>1, <2>6 DEF Parent!Evaluate, Parent!Eval!Finish
  <2> QED BY <1>1, <2>1, <2>2, <2>3, <2>4, <2>5, <2>6 DEF Parent!Evaluate
<1>2. CASE ~IsParent /\ Child!Evaluate
  <2>1. CASE Child!Eval!Admit
    BY <1>2, <2>1 DEF Child!Evaluate, Child!Eval!Admit, Child!Eval!DuplicateScenarioId
  <2>2. CASE Child!Eval!ReadClock
    BY <1>2, <2>2 DEF Child!Evaluate, Child!Eval!ReadClock
  <2>3. CASE Child!Eval!Checkpoint
    BY <1>2, <2>3, ValuesAssumption DEF Child!Evaluate, Child!Eval!Checkpoint, Child!Eval!InterruptionAt,
       Child!Eval!Interrupted
  <2>4. CASE Child!Eval!Exhaust
    BY <1>2, <2>4 DEF Child!Evaluate, Child!Eval!Exhaust
  <2>5. CASE Child!Eval!Progress
    BY <1>2, <2>5 DEF Child!Evaluate, Child!Eval!Progress
  <2>6. CASE Child!Eval!Finish
    BY <1>2, <2>6 DEF Child!Evaluate, Child!Eval!Finish
  <2> QED BY <1>2, <2>1, <2>2, <2>3, <2>4, <2>5, <2>6 DEF Child!Evaluate
<1> QED BY <1>1, <1>2

(* Session::emit and ContinuationEmitter::append, as one of the moves.     *)
LEMMA EmitMoves ==
  ASSUME UNCHANGED process, (IsParent /\ Parent!Emit) \/ (~IsParent /\ Child!Emit)
  PROVE  EmitsNothing \/ Writes \/ Syncs \/ SyncFails
<1> USE DEF process, controls, report, file, entry, Resumed,
      Parent!evaluation, Child!evaluation, Parent!Journal!file, Parent!Journal!emitter,
      Parent!Journal!Resume, Parent!Journal!NextEntry, Parent!Journal!Appended,
      Parent!Journal!NoError, Child!Journal!NoError,
      Child!Journal!file, Child!Journal!emitter,
      Child!Journal!Resume, Child!Journal!NextEntry, Child!Journal!Appended
<1>1. CASE IsParent /\ Parent!Emit
  <2>0. UNCHANGED Parent!evaluation /\ UNCHANGED <<run, next, engine, crashed>>
    BY <1>1 DEF Parent!Emit
  <2>1. CASE Parent!Journal!EmitBlocked
    BY <2>0, <2>1 DEF Parent!Journal!EmitBlocked, EmitsNothing
  <2>2. CASE Parent!Journal!EmitOverLimit
    BY <2>0, <2>2 DEF Parent!Journal!EmitOverLimit, EmitsNothing
  <2>3. CASE Parent!Journal!WriteEntry
    BY <2>0, <2>3 DEF Parent!Journal!WriteEntry, Writes,
       Parent!Journal!Entry, Entry
  <2>4. CASE Parent!Journal!WriteFails
    BY <2>0, <2>4 DEF Parent!Journal!WriteFails, EmitsNothing
  <2>5. CASE Parent!Journal!SyncEntry
    BY <2>0, <2>5 DEF Parent!Journal!SyncEntry, Syncs,
       Parent!Journal!Entry, Parent!Journal!Digest, Entry, Digest
  <2>6. CASE Parent!Journal!SyncFails
    BY <2>0, <2>6 DEF Parent!Journal!SyncFails, SyncFails
  <2> QED BY <1>1, <2>1, <2>2, <2>3, <2>4, <2>5, <2>6 DEF Parent!Emit, Parent!Journal!Emit
<1>2. CASE ~IsParent /\ Child!Emit
  <2>0. UNCHANGED Child!evaluation /\ UNCHANGED <<plan, run, next, engine, crashed>>
    BY <1>2 DEF Child!Emit
  <2>1. CASE Child!Journal!EmitBlocked
    BY <2>0, <2>1 DEF Child!Journal!EmitBlocked, EmitsNothing
  <2>2. CASE Child!Journal!EmitOverLimit
    BY <2>0, <2>2 DEF Child!Journal!EmitOverLimit, EmitsNothing
  <2>3. CASE Child!Journal!WriteEntry
    BY <2>0, <2>3 DEF Child!Journal!WriteEntry, Writes,
       Child!Journal!Entry, Entry
  <2>4. CASE Child!Journal!WriteFails
    BY <2>0, <2>4 DEF Child!Journal!WriteFails, EmitsNothing
  <2>5. CASE Child!Journal!SyncEntry
    BY <2>0, <2>5 DEF Child!Journal!SyncEntry, Syncs,
       Child!Journal!Entry, Child!Journal!Digest, Entry, Digest
  <2>6. CASE Child!Journal!SyncFails
    BY <2>0, <2>6 DEF Child!Journal!SyncFails, SyncFails
  <2> QED BY <1>2, <2>1, <2>2, <2>3, <2>4, <2>5, <2>6 DEF Child!Emit, Child!Journal!Emit
<1> QED BY <1>1, <1>2


(* Every step of a run is one of the moves.                                *)
LEMMA RunMoves ==
  ASSUME IsParent, UNCHANGED process, Parent!Next
  PROVE  Moves
<1>a. Parent!Evaluate => Evaluates
  BY EvaluatorMoves
<1>b. Parent!Emit => EmitsNothing \/ Writes \/ Syncs \/ SyncFails
  BY EmitMoves
<1> USE DEF process, controls, report, file, entry, Parent!file, Parent!emitter, Parent!session
<1>1. UNCHANGED Parent!evaluation => UNCHANGED <<controls, pc, report, current>>
  BY DEF Parent!evaluation
<1>2. CASE Parent!Stopped /\ UNCHANGED Parent!vars
  BY <1>2 DEF Parent!vars, Parent!evaluation, Parent!journal, Moves, Rests
<1>3. CASE Parent!Request
  BY <1>3 DEF Parent!Request, Parent!Eval!Cancel, Parent!Eval!PassDeadline, Parent!journal,
     Parent!Eval!control, Parent!Eval!report, Moves, Rests
<1>4. CASE ~crashed /\ Parent!Crash
  <2>1. UNCHANGED <<controls, pc, report, current, run, next, engine>>
    BY <1>1, <1>4 DEF Parent!Crash
  <2> QED BY <2>1, <1>4 DEF Parent!Crash, Parent!Journal!Lost, Parent!Journal!file,
       Parent!Journal!emitter, Parent!Journal!NoError, Moves, Dies
<1>5. CASE ~crashed /\ Parent!Caller
  <2>1. CASE Parent!Evaluate
    BY <1>a, <1>5, <2>1 DEF Moves
  <2>2. CASE Parent!IntendBaseline
    BY <1>5, <2>2 DEF Parent!IntendBaseline, Parent!Eval!CallBaseline, Parent!Eval!Call,
       Parent!Eval!control, Parent!CallStarted, CallStarted, Moves, IntendsBaseline
  <2>3. CASE Parent!IntendScenario
    BY <1>5, <2>3 DEF Parent!IntendScenario, Parent!Eval!CallScenario, Parent!Eval!Call, Todo,
       Parent!Eval!control, Parent!CallStarted, Parent!NoError, CallStarted, Moves, IntendsScenario
  <2>4. CASE Parent!Invoke
    BY <1>1, <1>5, <2>4 DEF Parent!Invoke, Moves, Invokes
  <2>5. CASE Parent!EngineReturns
    BY <1>1, <1>5, <2>5 DEF Parent!EngineReturns, Moves, EngineAnswers, Values, Calls
  <2>6. CASE Parent!RecordReturn
    BY <1>1, <1>5, <2>6 DEF Parent!RecordReturn, Parent!Result, Parent!CallSucceeded,
       Parent!CallFailed, Parent!Encode, CallSucceeded, CallFailed, Encode, Moves, Records,
       Returned, Result, Calls
  <2>7. CASE Parent!CodecFails
    BY <1>1, <1>5, <2>7 DEF Parent!CodecFails, Moves, Records
  <2>8. CASE Parent!Answer
    BY <1>5, <2>8 DEF Parent!Answer, Parent!Result, Parent!Eval!ReturnBaseline,
       Parent!Eval!ReturnScenario, Parent!Eval!Fail, Parent!Eval!EngineFailed,
       Parent!Eval!control, Parent!ScenarioIds, ScenarioIds, Moves, Answers, Result, Calls
  <2>9. CASE Parent!AnswerBlocked
    BY <1>5, <2>9 DEF Parent!AnswerBlocked, Parent!Eval!Fail, Parent!Eval!EngineFailed,
       Parent!Eval!control, Moves, AnswersBlocked
  <2>10. CASE Parent!Close
    BY <1>1, <1>5, <2>10 DEF Parent!Close, Parent!Terminal, Parent!Finished, Parent!NoError,
       Finished, Moves, Closes, Ending
  <2>11. CASE Parent!Emit
    BY <1>b, <1>5, <2>11 DEF Moves
  <2> QED BY <1>5, <2>1, <2>2, <2>3, <2>4, <2>5, <2>6, <2>7, <2>8, <2>9, <2>10, <2>11
          DEF Parent!Caller
<1> QED BY <1>2, <1>3, <1>4, <1>5 DEF Parent!Next, Parent!Process

(* Every step of a continuation is one of the moves.                       *)
LEMMA ContinuationMoves ==
  ASSUME ~IsParent, UNCHANGED role, Child!Next
  PROVE  Moves
<1> USE DEF process, controls, report, file, entry, Child!file, Child!emitter
<1>1. UNCHANGED Child!evaluation => UNCHANGED <<controls, pc, report, current>>
  BY DEF Child!evaluation
<1>2. CASE Child!Stopped /\ UNCHANGED Child!vars
  BY <1>2 DEF Child!vars, Child!evaluation, Child!journal, Moves, Rests
<1>3. CASE Child!Request
  BY <1>3 DEF Child!Request, Child!Eval!Cancel, Child!Eval!PassDeadline, Child!journal,
     Child!Eval!control, Child!Eval!report, Moves, Rests
<1>4. CASE ~crashed /\ Child!Crash
  BY <1>1, <1>4 DEF Child!Crash, Child!Journal!Lost, Child!Journal!file, Child!Journal!emitter,
     Child!Journal!NoError, Moves, Dies
<1>5. CASE ~crashed /\ Child!Caller
  <2>1. CASE Child!Evaluate
    <3>1. UNCHANGED plan
      BY <2>1 DEF Child!Evaluate, Child!journal
    <3> QED BY <1>5, <2>1, <3>1, EvaluatorMoves DEF Moves
  <2>2. CASE Child!RestoreBaseline
    BY <1>5, <2>2 DEF Child!RestoreBaseline, Child!Eval!CallBaseline, Child!Eval!Call,
       Child!Eval!control, Moves, CallsRestored
  <2>3. CASE Child!ReturnRestored
    BY <1>5, <2>3 DEF Child!ReturnRestored, Child!Eval!ReturnBaseline,
       Child!Eval!control, Moves, ReturnsRestored
  <2>4. CASE Child!Intend
    BY <1>5, <2>4 DEF Child!Intend, Child!Eval!CallScenario, Child!Eval!Call, Todo,
       Child!Eval!control, Child!CallStarted, Child!NoError, CallStarted, Moves, IntendsScenario
  <2>5. CASE Child!Invoke
    BY <1>1, <1>5, <2>5 DEF Child!Invoke, Moves, Invokes
  <2>6. CASE Child!EngineReturns
    BY <1>1, <1>5, <2>6 DEF Child!EngineReturns, Moves, EngineAnswers, Values, Calls
  <2>7. CASE Child!RecordReturn
    BY <1>1, <1>5, <2>7 DEF Child!RecordReturn, Child!Result, Child!CallSucceeded,
       Child!CallFailed, Child!Encode, CallSucceeded, CallFailed, Encode, Moves, Records,
       Returned, Result, Calls
  <2>8. CASE Child!CodecFails
    BY <1>1, <1>5, <2>8 DEF Child!CodecFails, Moves, Records
  <2>9. CASE Child!Answer
    BY <1>5, <2>9 DEF Child!Answer, Child!Result,
       Child!Eval!ReturnScenario, Child!Eval!Fail, Child!Eval!EngineFailed,
       Child!Eval!control, Child!ScenarioIds, ScenarioIds, Moves, Answers, Result, Calls
  <2>10. CASE Child!AnswerBlocked
    BY <1>5, <2>10 DEF Child!AnswerBlocked, Child!Eval!Fail, Child!Eval!EngineFailed,
       Child!Eval!control, Moves, AnswersBlocked
  <2>11. CASE Child!Close
    BY <1>1, <1>5, <2>11 DEF Child!Close, Child!Terminal, Child!Finished, Child!NoError,
       Finished, Moves, Closes, Ending
  <2>12. CASE Child!Emit
    <3>1. UNCHANGED plan
      BY <2>12 DEF Child!Emit
    <3> QED BY <1>5, <2>12, <3>1, EmitMoves DEF Moves
  <2> QED BY <1>5, <2>1, <2>2, <2>3, <2>4, <2>5, <2>6, <2>7, <2>8, <2>9, <2>10, <2>11, <2>12
          DEF Child!Caller
<1>6. CASE Child!Start
  BY <1>6 DEF Child!Start, Child!Execute, Child!NewEvaluation, Child!Admitted, Child!ChildHeader,
     Child!Initialized, Child!Eval!Completed, Child!NoError, ChildHeader, Initialized, Moves, Starts
<1> QED BY <1>2, <1>3, <1>4, <1>5, <1>6 DEF Child!Next, Child!Process

(* Every step of a process is one of the moves.                            *)
LEMMA StepsMove == [Next]_vars => Moves
<1>1. CASE Next
  BY <1>1, RunMoves, ContinuationMoves DEF Next, process
<1>2. CASE UNCHANGED vars
  BY <1>2 DEF vars, Moves, Rests, process, controls, report, file, entry
<1> QED BY <1>1, <1>2


----------------------------------------------------------------------------
(* What is to be done, and in which order, never changes.                  *)
LEMMA TodoIsBounded ==
  ASSUME ProcessType
  PROVE  Todo \in Seq(ScenarioIds) /\ Len(Todo) \in 1 .. Len(Scenarios)
<1>0. Scenarios \in Seq(ScenarioIds) /\ Len(Scenarios) \in Nat \ {0}
  BY ScenariosAssumption
<1>1. CASE IsParent
  BY <1>0, <1>1 DEF Todo
<1>2. CASE ~IsParent
  <2>1. plan \in Plans
    BY <1>2 DEF ProcessType
  <2>2. PICK n \in 0 .. Len(Scenarios) - 1 : plan.remaining = Suffix(n)
    BY <2>1, PlansAssumption, ValuesAssumption, PreparedPlan
  <2> QED BY <1>0, <1>2, <2>2 DEF Todo, Suffix
<1> QED BY <1>1, <1>2

(* What there is to do is a matter of role, plan and input.                *)
LEMMA SameWork ==
  ASSUME UNCHANGED process
  PROVE  Todo' = Todo /\ IsParent' = IsParent /\ \A i : Due(i)' = Due(i)
BY DEF process, Todo, IsParent, Due
(* Steps of the evaluator between two calls.                               *)
LEMMA EvaluatesKeeps ==
  ASSUME JournalInv, ~crashed, Evaluates
  PROVE  JournalInv'
<1>0. UNCHANGED process /\ Todo' = Todo /\ IsParent' = IsParent /\ \A i : Due(i)' = Due(i)
  BY SameWork DEF Evaluates
<1> USE DEF Evaluates, process, controls, file, entry
<1>1. ProcessType'
  BY <1>0 DEF JournalInv, ProcessType, Emitting, Interruption, Calls
<1>2. Latched'
  BY DEF JournalInv, Latched, IsParent
<1>3. Position'
  BY DEF JournalInv, Position, Clean, Emitting, Calls
<1>4. InStep'
  BY <1>0 DEF JournalInv, Latched, Position, InStep, Clean, Before, Inside, Emitting, Calls, Behind
<1>5. Filed'
  BY <1>0 DEF JournalInv, Filed, Calls
<1> QED BY <1>1, <1>2, <1>3, <1>4, <1>5 DEF JournalInv

(* The intent of the baseline (RecordingEngine::baseline) keeps the        *)
(* invariant.                                                              *)
LEMMA IntendsBaselineKeeps ==
  ASSUME JournalInv, ~crashed, IntendsBaseline
  PROVE  JournalInv'
<1>0. UNCHANGED process /\ Todo' = Todo /\ IsParent' = IsParent /\ \A i : Due(i)' = Due(i)
  BY SameWork DEF IntendsBaseline
<1> USE DEF IntendsBaseline, process, controls, report, file, entry
<1>a. Baseline \in Targets /\ event' \in Events
  BY DEF Targets, Events, CallStarted
<1>b. Calls \in Nat
  BY DEF JournalInv, ProcessType, Calls
<1>1. ProcessType'
  BY <1>0, <1>a DEF JournalInv, ProcessType, Emitting, Calls
<1>2. Latched'
  BY DEF JournalInv, Latched, IsParent
<1>3. Position'
  BY DEF JournalInv, Position, Clean, Emitting, Calls, CallStarted, Intent, Return
<1>4. InStep'
  BY <1>0, <1>b DEF JournalInv, Latched, Position, InStep, Clean, Before, Inside, Emitting, Calls, Behind, Intent, Return, CallStarted, Due
<1>5. Filed'
  BY <1>0 DEF JournalInv, Filed, Calls
<1> QED BY <1>1, <1>2, <1>3, <1>4, <1>5 DEF JournalInv

(* The counts of a process are naturals.                                   *)
LEMMA Numbers ==
  ASSUME JournalInv
  PROVE  /\ engine \in Seq(EngineCalls) /\ Calls \in Nat /\ DOMAIN engine = 1 .. Calls
         /\ sequence \in Nat /\ taken \in Nat /\ next \in Nat /\ Behind \in Nat
<1>1. engine \in Seq(EngineCalls) /\ sequence \in Nat /\ taken \in Nat /\ next \in Nat
  BY DEF JournalInv, ProcessType
<1>2. Calls \in Nat /\ DOMAIN engine = 1 .. Calls
  BY <1>1 DEF Calls
<1> QED BY <1>1, <1>2 DEF Behind

(* While a call is on its way, nothing has failed.                         *)
LEMMA OnTheWay ==
  ASSUME JournalInv, ~crashed, wpc \in {"engine", "in engine", "returned", "sync"}
  PROVE  Clean
<1>1. error = NoValue
  BY DEF JournalInv, Latched
<1> QED BY <1>1 DEF Clean

(* The intent of a candidate keeps the invariant.                          *)
LEMMA IntendsScenarioKeeps ==
  ASSUME JournalInv, ~crashed, IntendsScenario
  PROVE  JournalInv'
<1>0. UNCHANGED process /\ Todo' = Todo /\ IsParent' = IsParent /\ \A i : Due(i)' = Due(i)
  BY SameWork DEF IntendsScenario
<1>a. Todo \in Seq(ScenarioIds) /\ Len(Todo) \in Nat /\ ScenarioIds \subseteq Targets
  BY TodoIsBounded, ScenariosAssumption DEF JournalInv, Targets
<1>b. Calls \in Nat /\ taken \in Nat /\ next \in Nat /\ input = Todo
  BY Numbers DEF JournalInv, ProcessType, IntendsScenario
<1>c. Todo[taken + 1] \in ScenarioIds /\ Todo[taken + 1] # Baseline
  BY <1>a, <1>b, ScenariosAssumption DEF IntendsScenario
<1>d. error = NoValue => next = taken
  BY DEF IntendsScenario, JournalInv, InStep, Clean
<1>e. event' # event => event' = CallStarted(Todo[taken + 1]) /\ event' \in Events
  BY <1>a, <1>c, <1>d DEF IntendsScenario, Events, CallStarted
<1>f. wpc' \in {"emit", "blocked"} /\ error' \in {error, "contract"} /\ next' \in Nat
      /\ taken' = taken + 1 /\ taken' \in Nat /\ taken' <= Len(input)
      /\ current' = Todo[taken + 1]
  BY <1>b, <1>c, <1>a DEF IntendsScenario
<1>g. wpc' = "emit" => event' = CallStarted(Todo[taken + 1]) /\ event' \in Events
      /\ error' = NoValue /\ error = NoValue /\ next' = next + 1
  BY <1>a, <1>c, <1>d DEF IntendsScenario, Events, CallStarted
<1>h. wpc' # "emit" => wpc' = "blocked" /\ error' # NoValue
  BY ValuesAssumption DEF IntendsScenario
<1>i. wpc = "evaluate" /\ pc = "step" /\ pc' = "calling" /\ baseline # NoValue
      /\ UNCHANGED <<process, controls, baseline, outcomes, status, run, file, entry, engine, crashed>>
  BY DEF IntendsScenario
<1> USE DEF process, controls, report, file, entry
<1>1. ProcessType'
  BY <1>0, <1>a, <1>b, <1>c, <1>f, <1>g, <1>i DEF JournalInv, ProcessType, Emitting, Calls
<1>2. Latched'
  BY <1>h, <1>i, <1>f, <1>g DEF JournalInv, Latched, IsParent
<1>3. Position'
  <2>1. Clean' => Clean /\ wpc' = "emit"
    BY <1>g, <1>h, <1>i DEF Clean
  <2> QED BY <2>1, <1>b, <1>g, <1>i DEF JournalInv, Position, Emitting, Calls, CallStarted, Intent, Return
<1>4. InStep'
  <2>1. Clean' => Clean /\ wpc' = "emit"
    BY <1>g, <1>h, <1>i DEF Clean
  <2>2. SUFFICES ASSUME Clean' PROVE InStep'
    BY DEF InStep
  <2>3. Calls = Behind /\ next = taken
    BY <2>1, <2>2, <1>i DEF JournalInv, InStep
  <2>4. Calls' = Calls /\ Behind' = Behind + 1
    BY <1>b, <1>f, <1>i, <1>0 DEF Calls, Behind
  <2>5. Due(Calls + 1) = Todo[taken + 1]
    <3>1. CASE IsParent
      BY <2>3, <1>i, <1>b, <3>1 DEF Due, Todo, Behind
    <3>2. CASE ~IsParent
      BY <2>3, <1>i, <1>b, <3>2 DEF Due, Todo, Behind
    <3> QED BY <3>1, <3>2
  <2> QED BY <2>1, <2>2, <2>3, <2>4, <2>5, <1>0, <1>b, <1>c, <1>f, <1>g, <1>i DEF InStep, Before, Inside, Emitting, Intent, Return, CallStarted
<1>5. Filed'
  BY <1>0, <1>i, <1>f, <1>g, <1>h DEF JournalInv, Filed, Calls
<1> QED BY <1>1, <1>2, <1>3, <1>4, <1>5 DEF JournalInv
(* The restored baseline of a continuation.                                *)
LEMMA RestoredKeeps ==
  ASSUME JournalInv, ~crashed, CallsRestored \/ ReturnsRestored
  PROVE  JournalInv'
<1>0. UNCHANGED process /\ Todo' = Todo /\ IsParent' = IsParent /\ \A i : Due(i)' = Due(i)
  BY SameWork DEF CallsRestored, ReturnsRestored
<1> USE DEF CallsRestored, ReturnsRestored, process, controls, report, file, entry
<1>1. ProcessType'
  BY <1>0 DEF JournalInv, ProcessType, Emitting, Calls, Targets
<1>2. Latched'
  BY DEF JournalInv, Latched, IsParent
<1>3. Position'
  BY DEF JournalInv, Position, Clean, Emitting, Calls
<1>4. InStep'
  <2>1. Calls' = Calls /\ Behind = taken /\ Behind' = taken
    BY <1>0, Numbers DEF Calls, Behind
  <2>2. SUFFICES ASSUME Clean' PROVE InStep'
    BY DEF InStep
  <2>3. Clean /\ next = taken /\ Calls = taken
    BY <2>1, <2>2 DEF JournalInv, InStep, Clean
  <2> HIDE DEF CallsRestored, ReturnsRestored
  <2>4. CASE CallsRestored
    BY <2>1, <2>3, <2>4, <1>0 DEF CallsRestored, InStep, Before, Inside, Emitting
  <2>5. CASE ReturnsRestored
    BY <2>1, <2>3, <2>5, <1>0 DEF ReturnsRestored, InStep, Before, Inside, Emitting
  <2> QED BY <2>4, <2>5
<1>5. Filed'
  BY <1>0 DEF JournalInv, Filed, Calls
<1> QED BY <1>1, <1>2, <1>3, <1>4, <1>5 DEF JournalInv

(* The real engine receives the call whose intent is acknowledged ...      *)
LEMMA InvokesKeeps ==
  ASSUME JournalInv, ~crashed, Invokes
  PROVE  JournalInv'
<1>0. UNCHANGED process /\ Todo' = Todo /\ IsParent' = IsParent /\ \A i : Due(i)' = Due(i)
  BY SameWork DEF Invokes
<1> DEFINE call == [target |-> current, result |-> NoValue]
<1>1. /\ Clean /\ error = NoValue /\ wpc = "engine" /\ pc = "calling" /\ current \in Targets
      /\ engine \in Seq(EngineCalls) /\ Calls \in Nat /\ sequence \in Nat /\ taken \in Nat
      /\ DOMAIN engine = 1 .. Calls
  <2>1. Clean
    BY OnTheWay DEF Invokes
  <2>2. pc = "calling"
    BY <2>1 DEF Invokes, JournalInv, InStep, Before
  <2> QED BY <2>1, <2>2, Numbers DEF Invokes, JournalInv, ProcessType, Clean
<1>2. /\ sequence = 2 * Calls + 2 /\ lines[sequence].event = CallStarted(current)
      /\ current = Due(Calls + 1) /\ Calls + 1 = Behind /\ next = taken
  BY <1>1 DEF JournalInv, Position, InStep, Clean, Before
<1>3. call \in EngineCalls /\ engine' = Append(engine, call)
  BY <1>1 DEF EngineCalls, Invokes
<1>4. /\ engine' \in Seq(EngineCalls) /\ Calls' = Calls + 1
      /\ \A i \in 1 .. Calls : engine'[i] = engine[i]
      /\ engine'[Calls + 1] = call /\ DOMAIN engine' = 1 .. Calls + 1
  BY <1>1, <1>3 DEF Calls
<1>i. /\ wpc' = "in engine"
      /\ UNCHANGED <<role, plan, input, limit, deadline, pc, baseline, outcomes, taken, status,
                     current, run, event, lines, torn, sequence, previous, error, next, crashed>>
  BY DEF Invokes, process, controls, report, file, entry
<1> HIDE DEF call
<1>5. ProcessType'
  BY <1>i, <1>0, <1>1, <1>4 DEF JournalInv, ProcessType, Emitting
<1>6. Latched'
  BY <1>i, <1>1 DEF JournalInv, Latched, IsParent
<1>7. Position'
  <2>1. sequence' = 2 * Calls' /\ Calls' > 0
    <3>1. sequence = 2 * Calls + 2 /\ Calls \in Nat
      BY <1>1, <1>2
    <3>2. Calls' = Calls + 1 /\ sequence' = sequence
      BY <1>i, <1>4
    <3> QED BY <3>1, <3>2
  <2>2. ~torn
    BY <1>1 DEF JournalInv, Position
  <2> QED BY <1>i, <2>1, <2>2 DEF Position, Emitting
<1>8. InStep'
  BY <1>i, <1>0, <1>1, <1>2, <1>4 DEF JournalInv, Latched, InStep, Clean, Before, Inside, Emitting, Behind
<1>9. Filed'
  <2>1. ~IsParent => Calls + 1 <= Len(Todo)
    <3>1. input = Todo /\ taken <= Len(input)
      BY <1>1 DEF JournalInv, ProcessType
    <3> QED BY <1>1, <1>2, <3>1 DEF Behind
  <2>2. DOMAIN engine = 1 .. Calls /\ DOMAIN engine' = 1 .. Calls + 1
    BY <1>1, <1>4
  <2>3. ASSUME NEW i \in DOMAIN engine'
        PROVE  /\ 2 * i <= sequence /\ lines[2 * i].event = CallStarted(engine'[i].target)
               /\ engine'[i].target = Due(i) /\ (~IsParent => i <= Len(Todo))
    <3>1. CASE i \in DOMAIN engine
      BY <1>4, <2>2, <3>1 DEF JournalInv, Filed
    <3>2. CASE i = Calls + 1
      BY <1>1, <1>2, <1>4, <2>1, <3>2 DEF call
    <3> QED BY <1>1, <2>2, <3>1, <3>2
  <2>4. ASSUME NEW k \in 1 .. sequence, lines[k].event.event = "CallStarted"
        PROVE  \E i \in 1 .. Calls' + 1 : k = 2 * i
    <3>1. PICK i \in 1 .. Calls + 1 : k = 2 * i
      BY <2>4 DEF JournalInv, Filed
    <3> QED BY <1>1, <1>4, <3>1
  <2> QED BY <1>i, <1>0, <1>1, <1>4, <2>3, <2>4 DEF JournalInv, Filed
<1> QED BY <1>5, <1>6, <1>7, <1>8, <1>9 DEF JournalInv

(* ... and answers it.                                                     *)
LEMMA EngineAnswersKeeps ==
  ASSUME JournalInv, ~crashed, EngineAnswers
  PROVE  JournalInv'
<1>0. UNCHANGED process /\ Todo' = Todo /\ IsParent' = IsParent /\ \A i : Due(i)' = Due(i)
  BY SameWork DEF EngineAnswers
<1>1. /\ Clean /\ error = NoValue /\ Calls \in Nat \ {0} /\ engine \in Seq(EngineCalls)
      /\ Len(engine) = Calls
  <2>1. Clean
    BY OnTheWay DEF EngineAnswers
  <2>2. Calls > 0
    BY <2>1 DEF EngineAnswers, JournalInv, Position
  <2> QED BY <2>1, <2>2, Numbers DEF Clean, Calls
<1>2. PICK value \in Values : engine' = [engine EXCEPT ![Calls].result = value]
  BY DEF EngineAnswers
<1>3. /\ engine' \in Seq(EngineCalls) /\ Calls' = Calls /\ DOMAIN engine' = DOMAIN engine
      /\ \A i \in DOMAIN engine : engine'[i].target = engine[i].target
      /\ engine' # <<>> /\ engine'[Calls].result \in Values
  <2>1. engine[Calls] \in EngineCalls
    BY <1>1
  <2>2. [engine[Calls] EXCEPT !.result = value] \in EngineCalls
    BY <2>1 DEF EngineCalls, Values
  <2>3. engine' \in Seq(EngineCalls) /\ Len(engine') = Len(engine) /\ DOMAIN engine' = DOMAIN engine
    BY <1>1, <1>2, <2>2
  <2>4. \A i \in DOMAIN engine : engine'[i].target = engine[i].target
    BY <1>1, <1>2, <2>1 DEF EngineCalls
  <2>5. engine'[Calls].result = value /\ Len(engine') # 0
    BY <1>1, <1>2, <2>1, <2>3 DEF EngineCalls
  <2> QED BY <1>1, <2>3, <2>4, <2>5 DEF Calls
<1>i. /\ wpc' = "returned" /\ wpc = "in engine"
      /\ UNCHANGED <<role, plan, input, limit, deadline, pc, baseline, outcomes, taken, status,
                     current, run, event, lines, torn, sequence, previous, error, next, crashed>>
  BY DEF EngineAnswers, process, controls, report, file, entry
<1>4. ProcessType'
  BY <1>i, <1>0, <1>1, <1>3 DEF JournalInv, ProcessType, Emitting
<1>5. Latched'
  BY <1>i, <1>1 DEF JournalInv, Latched, IsParent
<1>6. Position'
  BY <1>i, <1>3 DEF JournalInv, Position, Clean, Emitting
<1>7. InStep'
  BY <1>i, <1>0, <1>3 DEF JournalInv, Latched, InStep, Clean, Before, Inside, Emitting, Behind
<1>8. Filed'
  BY <1>i, <1>0, <1>3 DEF JournalInv, Filed
<1> QED BY <1>4, <1>5, <1>6, <1>7, <1>8 DEF JournalInv

(* A step that leaves the file, the engine and the acknowledged entries.   *)
LEMMA FileStays ==
  ASSUME JournalInv, UNCHANGED <<process, lines, sequence, engine, crashed>>,
         wpc # "sync", wpc' # "sync", error' = NoValue => error = NoValue
  PROVE  Filed'
<1>0. Todo' = Todo /\ IsParent' = IsParent /\ \A i : Due(i)' = Due(i)
  BY SameWork
<1>1. ~crashed' /\ error' = NoValue => Len(lines) = sequence + 0
  BY DEF JournalInv, Filed
<1>2. UNCHANGED <<lines, sequence, engine, crashed>> /\ Calls' = Calls
  BY DEF Calls
<1> QED BY <1>0, <1>1, <1>2 DEF JournalInv, Filed

(* Session::returned: the result goes to the journal, or its codec fails.  *)
LEMMA RecordsKeeps ==
  ASSUME JournalInv, ~crashed, Records
  PROVE  JournalInv'
<1>0. UNCHANGED process /\ Todo' = Todo /\ IsParent' = IsParent /\ \A i : Due(i)' = Due(i)
  BY SameWork DEF Records
<1>1. /\ wpc = "returned"
      /\ UNCHANGED <<role, plan, input, limit, deadline, pc, baseline, outcomes, taken, status,
                     current, run, lines, torn, sequence, previous, next, engine, crashed>>
      /\ \/ wpc' = "emit" /\ event' = Returned(event.target) /\ error' = NoValue
         \/ wpc' = "answer" /\ error' = "contract" /\ error' # NoValue /\ UNCHANGED event
  <2>1. error = NoValue
    BY OnTheWay DEF Records, Clean
  <2> QED BY <2>1, ValuesAssumption DEF Records, process, controls, report, file, entry
<1>2. /\ Clean /\ pc = "calling" /\ current \in Targets /\ Calls \in Nat /\ Calls > 0
      /\ engine \in Seq(EngineCalls) /\ Result \in Values
      /\ sequence = 2 * Calls /\ ~torn
      /\ current = Due(Calls) /\ Calls = Behind /\ next = taken /\ (IsParent \/ current # Baseline) /\ event.target = current
  <2>1. Clean
    BY <1>1, OnTheWay
  <2>2. pc = "calling" /\ current = Due(Calls) /\ Calls = Behind /\ next = taken
        /\ (IsParent \/ current # Baseline) /\ event.target = current
    BY <1>1, <2>1 DEF JournalInv, InStep, Inside
  <2>3. sequence = 2 * Calls /\ Calls > 0 /\ ~torn
    BY <1>1, <2>1 DEF JournalInv, Position
  <2>4. current \in Targets /\ Result \in Values
    BY <1>1, <2>2 DEF JournalInv, ProcessType, Result
  <2> QED BY <2>1, <2>2, <2>3, <2>4, Numbers
<1>3. wpc' = "emit" => /\ event' \in Events /\ event'.target = current
                       /\ event'.event \in {"CallSucceeded", "CallFailed"}
  BY <1>1, <1>2 DEF Returned, Events, CallSucceeded, CallFailed, Encode, Payloads, Values
<1>4. ProcessType'
  BY <1>0, <1>1, <1>2, <1>3 DEF JournalInv, ProcessType, Emitting
<1>5. Latched'
  BY <1>1 DEF JournalInv, Latched, IsParent
<1>6. Position'
  BY <1>1, <1>2, <1>3 DEF Position, Clean, Emitting, Intent, Return, Calls
<1>7. InStep'
  <2>1. Calls' = Calls /\ Behind' = Behind
    BY <1>0, <1>1 DEF Calls, Behind
  <2>2. IsParent /\ (baseline = NoValue \/ current = Baseline) => taken = 0
    BY <1>2 DEF JournalInv, InStep
  <2> QED BY <2>1, <2>2, <1>0, <1>1, <1>2, <1>3 DEF InStep, Clean, Before, Inside, Emitting, Intent, Return
<1>8. Filed'
  <2>1. wpc # "sync" /\ wpc' # "sync" /\ (error' = NoValue => error = NoValue)
    BY <1>1, <1>2 DEF Clean
  <2>2. UNCHANGED <<process, lines, sequence, engine, crashed>>
    BY <1>0, <1>1
  <2> QED BY <2>1, <2>2, FileStays
<1> QED BY <1>4, <1>5, <1>6, <1>7, <1>8 DEF JournalInv

(* The evaluator receives the engine's result, or the error of a call that *)
(* was blocked before the engine.                                          *)
LEMMA AnswersKeeps ==
  ASSUME JournalInv, ~crashed, Answers
  PROVE  JournalInv'
<1>0. UNCHANGED process /\ Todo' = Todo /\ IsParent' = IsParent /\ \A i : Due(i)' = Due(i)
  BY SameWork DEF Answers
<1>1. /\ wpc = "answer" /\ wpc' = "evaluate" /\ pc = "calling" /\ pc' \in {"progress", "report"}
      /\ current' = NoValue
      /\ UNCHANGED <<role, plan, input, limit, deadline, taken, run, event, lines, torn, sequence,
                     previous, error, next, engine, crashed>>
  BY DEF Answers, process, controls, file, entry
<1>2. status' = status \/ status'.kind = "EngineFailed"
  BY DEF Answers
<1>3. ProcessType'
  BY <1>0, <1>1, <1>2 DEF JournalInv, ProcessType, Emitting
<1>4. Latched'
  BY <1>1 DEF JournalInv, Latched, IsParent
<1>5. Position'
  BY <1>1 DEF JournalInv, Position, Clean, Emitting, Calls
<1>6. InStep'
  <2>1. SUFFICES ASSUME Clean' PROVE InStep'
    BY DEF InStep
  <2>2. Clean /\ Inside
    BY <1>1, <2>1 DEF Clean, Inside
  <2>3. /\ current = Due(Calls) /\ Calls = Behind /\ next = taken
        /\ (IsParent /\ (baseline = NoValue \/ current = Baseline) => taken = 0)
    BY <2>2 DEF JournalInv, InStep
  <2>4. IsParent /\ baseline' = NoValue => taken = 0
    BY <2>3, ValuesAssumption DEF Answers
  <2>5. pc' = "progress" /\ IsParent => baseline' # NoValue
    <3>1. SUFFICES ASSUME pc' = "progress", IsParent, baseline' = NoValue PROVE FALSE
      OBVIOUS
    <3>2. current \in ScenarioIds /\ baseline = NoValue
      BY <3>1, ValuesAssumption DEF Answers
    <3>3. Calls = 1
      BY <1>1, <2>3, <3>1, <3>2 DEF Behind
    <3>4. current = Baseline
      BY <2>3, <3>1, <3>3 DEF Due
    <3> QED BY <3>2, <3>4, ScenariosAssumption
  <2>6. pc' = "progress" => Calls' = Behind'
    <3>1. Calls' = Calls
      BY <1>1 DEF Calls
    <3>2. pc' = "progress" => Behind' = Behind
      BY <1>0, <1>1, <2>5, Numbers DEF Behind
    <3> QED BY <2>3, <3>1, <3>2
  <2>7. NoValue # Baseline
    BY ValuesAssumption
  <2> QED BY <1>0, <1>1, <2>3, <2>4, <2>6, <2>7 DEF InStep, Before, Inside, Emitting
<1>7. Filed'
  BY <1>0, <1>1, FileStays
<1> QED BY <1>3, <1>4, <1>5, <1>6, <1>7 DEF JournalInv

(* A call that is blocked before the engine keeps the invariant.           *)
LEMMA AnswersBlockedKeeps ==
  ASSUME JournalInv, ~crashed, AnswersBlocked
  PROVE  JournalInv'
<1>0. UNCHANGED process /\ Todo' = Todo /\ IsParent' = IsParent /\ \A i : Due(i)' = Due(i)
  BY SameWork DEF AnswersBlocked
<1>1. /\ wpc = "blocked" /\ wpc' = "evaluate" /\ pc = "calling" /\ pc' = "report"
      /\ status'.kind = "EngineFailed"
      /\ UNCHANGED <<role, plan, input, limit, deadline, taken, run, event, lines, torn, sequence,
                     previous, error, next, engine, crashed>>
  BY DEF AnswersBlocked, process, controls, file, entry
<1>2. error # NoValue /\ error' # NoValue /\ ~Clean'
  BY <1>1 DEF JournalInv, Position, Clean
<1>3. ProcessType'
  BY <1>0, <1>1 DEF JournalInv, ProcessType, Emitting
<1>4. Latched'
  BY <1>1 DEF JournalInv, Latched, IsParent
<1>5. Position' /\ InStep'
  BY <1>2 DEF Position, InStep
<1>6. Filed'
  BY <1>0, <1>1, <1>2, FileStays
<1> QED BY <1>3, <1>4, <1>5, <1>6 DEF JournalInv

(* The evaluation is over: the terminal entry, or nothing more.            *)
LEMMA ClosesKeeps ==
  ASSUME JournalInv, ~crashed, Closes
  PROVE  JournalInv'
<1>0. UNCHANGED process /\ Todo' = Todo /\ IsParent' = IsParent /\ \A i : Due(i)' = Due(i)
  BY SameWork DEF Closes
<1>1. /\ wpc = "evaluate" /\ pc = "done"
      /\ UNCHANGED <<role, plan, input, limit, deadline, pc, baseline, outcomes, taken, status,
                     current, run, lines, torn, sequence, previous, next, engine, crashed>>
      /\ \/ wpc' = "closed" /\ error' # NoValue /\ error' \in {error, "contract"}
         \/ wpc' = "emit" /\ event' = Ending /\ error' = NoValue /\ error = NoValue
              /\ Ending # NoValue
  BY ValuesAssumption DEF Closes, process, controls, report, file, entry
<1>2. Ending # NoValue => Ending \in Events /\ Ending.event = "Finished"
  <2>1. status.kind = "Interrupted" => status.reason \in Reasons
    BY DEF JournalInv, ProcessType
  <2> QED BY <2>1 DEF Ending, Finished, Events, Reasons
<1>3. ProcessType'
  BY <1>0, <1>1, <1>2 DEF JournalInv, ProcessType, Emitting, Calls
<1>4. Latched'
  BY <1>1 DEF JournalInv, Latched, IsParent
<1>5. Position'
  <2>1. SUFFICES ASSUME Clean' PROVE Position'
    BY DEF Position
  <2>2. Clean /\ wpc' = "emit" /\ event'.event = "Finished"
    BY <1>1, <1>2, <2>1 DEF Clean
  <2>3. sequence = 2 * Calls + 1 /\ ~torn /\ Calls' = Calls
    BY <1>1, <2>2 DEF JournalInv, Position, Calls
  <2> QED BY <1>1, <2>2, <2>3 DEF Position, Emitting, Intent, Return
<1>6. InStep'
  <2>1. SUFFICES ASSUME Clean' PROVE InStep'
    BY DEF InStep
  <2>2. Clean /\ wpc' = "emit" /\ event'.event = "Finished"
    BY <1>1, <1>2, <2>1 DEF Clean
  <2>3. next = taken /\ (IsParent /\ (baseline = NoValue \/ current = Baseline) => taken = 0)
    BY <2>2 DEF JournalInv, InStep
  <2> QED BY <1>0, <1>1, <2>2, <2>3 DEF InStep, Before, Inside, Emitting, Intent, Return
<1>7. Filed'
  BY <1>0, <1>1, FileStays
<1> QED BY <1>3, <1>4, <1>5, <1>6, <1>7 DEF JournalInv

(* A step that leaves the evaluator and the engine alone.                  *)
LEMMA TypeOfEmission ==
  ASSUME JournalInv,
         UNCHANGED <<process, controls, pc, report, current, event, next, engine>>,
         \/ wpc' = wpc
         \/ /\ wpc \in {"emit", "sync"}
            /\ wpc' \in {"sync", "evaluate", "engine", "answer", "blocked", "closed"},
         error' \in {NoValue, "contract", "storage"}, torn' \in BOOLEAN, crashed' \in BOOLEAN,
         sequence' \in Nat, previous' \in {NoValue} \cup (Nat \X Events), lines' \in Seq(Entries)
  PROVE  ProcessType'
<1>1. Todo' = Todo /\ UNCHANGED <<role, plan>> /\ IsParent' = IsParent
  BY SameWork DEF process
<1>2. UNCHANGED <<input, limit, deadline, pc, taken, status, current, event, next, engine>>
  BY DEF controls, report
<1>3. /\ wpc' \in {"idle", "emit", "sync", "evaluate", "restore", "engine", "in engine", "returned",
                   "answer", "blocked", "closed"}
      /\ wpc' = "idle" <=> wpc = "idle"
      /\ wpc' = "returned" <=> wpc = "returned"
      /\ Emitting' => event \in Events
  BY <1>2 DEF JournalInv, ProcessType, Emitting
<1>4. wpc' # "idle" => input' = Todo' /\ limit' \in Limits /\ deadline' \in BOOLEAN
  BY <1>1, <1>3 DEF JournalInv, ProcessType, controls
<1>5. wpc' = "returned" => engine' # <<>> /\ engine'[Calls'].result \in Values
  BY <1>2, <1>3 DEF JournalInv, ProcessType, Calls
<1>6. /\ taken' \in Nat /\ taken' <= Len(input') /\ next' \in Nat
      /\ status'.kind = "Interrupted" => status'.reason \in Reasons
      /\ pc' = "calling" => current' \in Targets
      /\ pc' \in {"admit", "clock", "token", "step", "calling", "progress", "report", "done"}
      /\ engine' \in Seq(EngineCalls)
      /\ role' \in {"parent", "child"} /\ (~IsParent' => plan' \in Plans)
  BY <1>1, <1>2 DEF JournalInv, ProcessType
<1> QED BY <1>2, <1>3, <1>4, <1>5, <1>6 DEF ProcessType

(* An entry is refused, or its write or its synchronization fails.         *)
LEMMA EmissionFailsKeeps ==
  ASSUME JournalInv, ~crashed, EmitsNothing \/ SyncFails
  PROVE  JournalInv'
<1>0. UNCHANGED process /\ Todo' = Todo /\ IsParent' = IsParent /\ \A i : Due(i)' = Due(i)
  BY SameWork DEF EmitsNothing, SyncFails
<1>1. /\ wpc \in {"emit", "sync"} /\ error' \in {"contract", "storage"} /\ error' # NoValue
      /\ wpc' = Resumed(FALSE) /\ torn' \in {torn, TRUE}
      /\ UNCHANGED <<role, plan, input, limit, deadline, pc, baseline, outcomes, taken, status,
                     current, run, event, lines, sequence, previous, next, engine, crashed>>
  <2>1. error \in {NoValue, "contract", "storage"}
    BY DEF JournalInv, ProcessType
  <2> QED BY <2>1, ValuesAssumption
          DEF EmitsNothing, SyncFails, process, controls, report, file, entry
<1>2. wpc' \in {"evaluate", "blocked", "answer", "closed"}
  <2>1. event \in Events
    BY <1>1 DEF JournalInv, ProcessType, Emitting
  <2> QED BY <1>1, <2>1 DEF Resumed, Events
<1>3. ~Clean'
  BY <1>1 DEF Clean
<1>4. ProcessType'
  <2>1. torn' \in BOOLEAN /\ sequence \in Nat /\ previous \in {NoValue} \cup (Nat \X Events)
        /\ lines \in Seq(Entries) /\ crashed' \in BOOLEAN
    BY <1>1 DEF JournalInv, ProcessType
  <2>2. UNCHANGED <<process, controls, pc, report, current, event, next, engine>>
    BY <1>1, <1>0 DEF controls, report
  <2> QED BY <2>1, <2>2, <1>1, <1>2, TypeOfEmission
<1>5. Latched'
  BY <1>1, <1>2 DEF JournalInv, Latched, IsParent
<1>6. Position' /\ InStep'
  BY <1>3 DEF Position, InStep
<1>7. Filed'
  BY <1>0, <1>1, <1>2 DEF JournalInv, Filed, Calls
<1> QED BY <1>4, <1>5, <1>6, <1>7 DEF JournalInv

(* The line is written ...                                                 *)
LEMMA WritesKeeps ==
  ASSUME JournalInv, ~crashed, Writes
  PROVE  JournalInv'
<1>0. UNCHANGED process /\ Todo' = Todo /\ IsParent' = IsParent /\ \A i : Due(i)' = Due(i)
  BY SameWork DEF Writes
<1>1. /\ wpc = "emit" /\ wpc' = "sync" /\ ~torn' /\ torn' = FALSE /\ error = NoValue
      /\ UNCHANGED <<role, plan, input, limit, deadline, pc, baseline, outcomes, taken, status,
                     current, run, event, sequence, previous, error, next, engine, crashed>>
  BY DEF Writes, process, controls, report, file, entry
<1>2. Clean /\ ~torn /\ event \in Events
  <2>1. Clean
    BY <1>1 DEF Clean
  <2> QED BY <1>1, <2>1 DEF JournalInv, Position, ProcessType, Emitting
<1> DEFINE line == Entry(sequence, previous, event)
<1>3. line \in Entries /\ line.event = event /\ lines' = Append(lines, line)
  BY <1>2 DEF Writes, Entry, Entries, JournalInv, ProcessType
<1>4. lines \in Seq(Entries) /\ sequence \in Nat /\ Len(lines) = sequence
  BY <1>1, <1>2, Numbers DEF JournalInv, ProcessType, Filed
<1> HIDE DEF line
<1>5. /\ lines' \in Seq(Entries) /\ Len(lines') = sequence + 1 /\ lines'[sequence + 1] = line
      /\ \A k \in 1 .. sequence : lines'[k] = lines[k]
  BY <1>3, <1>4
<1>6. ProcessType'
  BY <1>0, <1>1, <1>2, <1>5 DEF JournalInv, ProcessType, Emitting, Calls
<1>7. Latched'
  BY <1>1, <1>2 DEF JournalInv, Latched, Clean, IsParent
<1>8. Position'
  BY <1>1, <1>2 DEF JournalInv, Position, Clean, Emitting, Intent, Return, Calls
<1>9. InStep'
  <2>1. Calls' = Calls /\ Behind' = Behind
    BY <1>0, <1>1 DEF Calls, Behind
  <2> QED BY <2>1, <1>0, <1>1, <1>2
          DEF JournalInv, InStep, Clean, Before, Inside, Emitting, Intent, Return
<1>10. Filed'
  <2>1. ASSUME NEW i \in DOMAIN engine
        PROVE  /\ 2 * i <= sequence /\ lines'[2 * i].event = CallStarted(engine[i].target)
               /\ engine[i].target = Due(i) /\ (~IsParent => i <= Len(Todo))
    <3>1. /\ 2 * i <= sequence /\ lines[2 * i].event = CallStarted(engine[i].target)
          /\ engine[i].target = Due(i) /\ (~IsParent => i <= Len(Todo))
      BY DEF JournalInv, Filed
    <3>2. i \in Nat \ {0}
      BY Numbers
    <3>3. lines'[2 * i] = lines[2 * i]
      BY <1>5, <3>1, <3>2
    <3> QED BY <3>1, <3>3
  <2>2. ASSUME NEW k \in 1 .. sequence, lines'[k].event.event = "CallStarted"
        PROVE  \E i \in 1 .. Calls + 1 : k = 2 * i
    BY <1>5, <2>2 DEF JournalInv, Filed
  <2>3. Calls' = Calls /\ sequence <= sequence + 1
    BY <1>1, <1>4 DEF Calls
  <2>4. UNCHANGED <<sequence, engine>> /\ wpc' = "sync"
    BY <1>1
  <2>5. lines'[sequence + 1].event = event'
    BY <1>1, <1>3, <1>5
  <2>6. Len(lines') = sequence + 1
    BY <1>5
  <2> QED BY <1>0, <2>1, <2>2, <2>3, <2>4, <2>5, <2>6 DEF Filed
<1> QED BY <1>6, <1>7, <1>8, <1>9, <1>10 DEF JournalInv

(* ... and synchronized: the entry is acknowledged.                        *)
LEMMA SyncsKeeps ==
  ASSUME JournalInv, ~crashed, Syncs
  PROVE  JournalInv'
<1>0. UNCHANGED process /\ Todo' = Todo /\ IsParent' = IsParent /\ \A i : Due(i)' = Due(i)
  BY SameWork DEF Syncs
<1>1. /\ wpc = "sync" /\ wpc' = Resumed(TRUE) /\ sequence' = sequence + 1
      /\ previous' = Digest(Entry(sequence, previous, event))
      /\ UNCHANGED <<role, plan, input, limit, deadline, pc, baseline, outcomes, taken, status,
                     current, run, event, lines, torn, error, next, engine, crashed>>
  BY DEF Syncs, process, controls, report, file, entry
<1>2. /\ Clean /\ ~torn /\ event \in Events /\ error = NoValue
      /\ Len(lines) = sequence + 1 /\ lines[sequence + 1].event = event
  <2>1. Clean
    BY <1>1, OnTheWay
  <2> QED BY <1>1, <2>1 DEF JournalInv, Position, ProcessType, Filed, Emitting, Clean
<1>3. /\ event.event = "Initialized" => wpc' = "evaluate"
      /\ Intent => wpc' = "engine"
      /\ Return => wpc' = "answer"
      /\ event.event = "Finished" => wpc' = "closed"
      /\ event.event = "Initialized" \/ Intent \/ Return \/ event.event = "Finished"
  BY <1>1, <1>2 DEF Resumed, Events, Intent, Return
<1>4. previous' \in Nat \X Events /\ sequence' \in Nat
  BY <1>1, <1>2, Numbers DEF Digest, Entry
<1>w. wpc' \in {"evaluate", "engine", "answer", "closed"}
  BY <1>3
<1>5. ProcessType'
  <2>1. torn' \in BOOLEAN /\ error' = NoValue /\ lines' \in Seq(Entries) /\ crashed' \in BOOLEAN
    BY <1>1, <1>2 DEF JournalInv, ProcessType
  <2>2. UNCHANGED <<process, controls, pc, report, current, event, next, engine>>
    BY <1>1, <1>0 DEF controls, report
  <2> QED BY <2>1, <2>2, <1>1, <1>4, <1>w, TypeOfEmission
<1>6. Latched'
  BY <1>1, <1>2, <1>3, ValuesAssumption DEF JournalInv, Latched, IsParent
<1>7. Position'
  <2>1. /\ event.event = "Initialized" => sequence = 0 /\ Calls = 0 /\ pc = "admit"
        /\ Intent => sequence = 2 * Calls + 1
        /\ Return => sequence = 2 * Calls /\ Calls > 0
        /\ event.event = "Finished" => sequence = 2 * Calls + 1
    BY <1>1, <1>2 DEF JournalInv, Position, Emitting
  <2>2. Calls' = Calls /\ Calls \in Nat
    BY <1>1, Numbers DEF Calls
  <2>3. Intent => event = CallStarted(current)
    <3>1. Intent => event.target = current
      BY <1>1, <1>2 DEF JournalInv, InStep, Before, Emitting
    <3> QED BY <1>2, <3>1 DEF Intent, Events, CallStarted
  <2>4. UNCHANGED <<lines, current, event>> /\ ~torn' /\ sequence' = sequence + 1
    BY <1>1, <1>2
  <2>5. wpc' = "engine" => Intent
    BY <1>3, <1>w
  <2>6. wpc' = "engine" => sequence' = 2 * Calls' + 2 /\ lines'[sequence'].event = CallStarted(current')
    BY <1>2, <2>1, <2>2, <2>3, <2>4, <2>5
  <2>7. wpc' \in {"evaluate", "answer"} => sequence' = 2 * Calls' + 1
    BY <1>3, <2>1, <2>2, <2>4
  <2>8. wpc' = "closed" => sequence' = 2 * Calls' + 2
    BY <1>3, <2>1, <2>2, <2>4
  <2> QED BY <1>w, <2>4, <2>6, <2>7, <2>8 DEF Position, Emitting
<1>8. InStep'
  <2>1. Calls' = Calls /\ Behind' = Behind
    BY <1>0, <1>1 DEF Calls, Behind
  <2>2. event.event = "Initialized" => pc = "admit"
    BY <1>1, <1>2 DEF JournalInv, Position, Emitting
  <2>3. event.event = "Finished" => pc = "done"
    BY <1>1, <1>2 DEF JournalInv, Position, Emitting
  <2> QED BY <2>1, <2>2, <2>3, <1>0, <1>1, <1>2, <1>3
          DEF JournalInv, InStep, Clean, Before, Inside, Emitting
<1>9. Filed'
  <2>1. \A i \in DOMAIN engine : 2 * i <= sequence + 1
    BY Numbers DEF JournalInv, Filed
  <2>2. ASSUME NEW k \in 1 .. sequence + 1, lines[k].event.event = "CallStarted"
        PROVE  \E i \in 1 .. Calls + 1 : k = 2 * i
    <3>1. CASE k \in 1 .. sequence
      BY <2>2, <3>1 DEF JournalInv, Filed
    <3>2. CASE k = sequence + 1
      <4>1. Intent
        BY <1>2, <2>2, <3>2 DEF Intent
      <4>2. sequence = 2 * Calls + 1
        BY <4>1, <1>1, <1>2 DEF JournalInv, Position, Emitting
      <4> QED BY <3>2, <4>2, Numbers
    <3> QED BY <3>1, <3>2, Numbers
  <2>3. Calls' = Calls /\ wpc' # "sync" /\ UNCHANGED <<lines, engine>>
    BY <1>1, <1>w DEF Calls
  <2>4. sequence' = sequence + 1 /\ sequence + 1 <= Len(lines) /\ Len(lines) = sequence + 1 + 0
    BY <1>1, <1>2, Numbers
  <2> QED BY <1>0, <2>1, <2>2, <2>3, <2>4 DEF JournalInv, Filed
<1> QED BY <1>5, <1>6, <1>7, <1>8, <1>9 DEF JournalInv

(* The process dies; the line it had not synchronized may be lost.         *)
LEMMA DiesKeeps ==
  ASSUME JournalInv, ~crashed, Dies
  PROVE  JournalInv'
<1>0. UNCHANGED process /\ Todo' = Todo /\ IsParent' = IsParent /\ \A i : Due(i)' = Due(i)
  BY SameWork DEF Dies
<1>1. /\ wpc # "closed" /\ crashed' = TRUE /\ ~Clean'
      /\ UNCHANGED <<role, plan, input, limit, deadline, pc, baseline, outcomes, taken, status,
                     current, run, wpc, event, sequence, previous, error, next, engine>>
  BY DEF Dies, Clean, process, controls, report, file, entry
<1>2. wpc # "idle"
  BY DEF Dies, JournalInv, Latched
<1>3. lines \in Seq(Entries) /\ sequence \in Nat /\ sequence <= Len(lines)
  BY DEF JournalInv, ProcessType, Filed
<1>4. /\ lines' \in Seq(Entries) /\ torn' \in BOOLEAN /\ sequence <= Len(lines')
      /\ \A k \in 1 .. sequence : lines'[k] = lines[k]
  <2>1. CASE UNCHANGED file
    BY <1>3, <2>1 DEF JournalInv, ProcessType, file
  <2>2. CASE wpc = "emit" /\ torn' = TRUE /\ UNCHANGED lines
    BY <1>3, <2>2
  <2>3. CASE /\ wpc = "sync" /\ torn' \in BOOLEAN /\ lines' = SubSeq(lines, 1, Len(lines) - 1)
    <3>1. Len(lines) = sequence + 1
      <4>1. Clean
        BY <2>3, OnTheWay
      <4> QED BY <2>3, <4>1 DEF JournalInv, Filed, Clean
    <3>2. Len(lines) - 1 = sequence
      BY <1>3, <3>1
    <3> QED BY <1>3, <2>3, <3>2
  <2> QED BY <2>1, <2>2, <2>3 DEF Dies
<1>5. ProcessType'
  <2>1. /\ error \in {NoValue, "contract", "storage"} /\ sequence \in Nat
        /\ previous \in {NoValue} \cup (Nat \X Events)
    BY DEF JournalInv, ProcessType
  <2>2. UNCHANGED <<process, controls, pc, report, current, event, next, engine>>
    BY <1>0, <1>1 DEF controls, report
  <2> QED BY <2>1, <2>2, <1>1, <1>4, TypeOfEmission
<1>6. Latched'
  BY <1>1, <1>2 DEF JournalInv, Latched
<1>7. Position' /\ InStep'
  BY <1>1 DEF Position, InStep
<1>8. Filed'
  <2>1. ASSUME NEW i \in DOMAIN engine
        PROVE  /\ 2 * i <= sequence /\ lines'[2 * i].event = CallStarted(engine[i].target)
               /\ engine[i].target = Due(i) /\ (~IsParent => i <= Len(Todo))
    <3>1. /\ 2 * i <= sequence /\ lines[2 * i].event = CallStarted(engine[i].target)
          /\ engine[i].target = Due(i) /\ (~IsParent => i <= Len(Todo))
      BY DEF JournalInv, Filed
    <3>2. i \in Nat \ {0}
      BY Numbers
    <3>3. lines'[2 * i] = lines[2 * i]
      BY <1>3, <1>4, <3>1, <3>2
    <3> QED BY <3>1, <3>3
  <2>2. ASSUME NEW k \in 1 .. sequence, lines'[k].event.event = "CallStarted"
        PROVE  \E i \in 1 .. Calls + 1 : k = 2 * i
    BY <1>4, <2>2 DEF JournalInv, Filed
  <2>3. Calls' = Calls
    BY <1>1 DEF Calls
  <2> QED BY <1>0, <1>1, <1>4, <2>1, <2>2, <2>3 DEF Filed
<1> QED BY <1>5, <1>6, <1>7, <1>8 DEF JournalInv

(* A continuation starts.                                                  *)
LEMMA StartsKeeps ==
  ASSUME JournalInv, Starts
  PROVE  JournalInv'
<1>0. UNCHANGED process /\ Todo' = Todo /\ IsParent' = IsParent /\ \A i : Due(i)' = Due(i)
  BY SameWork DEF Starts
<1>1. /\ ~IsParent /\ wpc = "idle" /\ wpc' = "emit" /\ pc' = "admit" /\ baseline' = NoValue
      /\ taken' = 0 /\ current' = NoValue /\ status' = [kind |-> "Completed"]
      /\ sequence' = 0 /\ previous' = NoValue /\ error' = NoValue /\ next' = 0 /\ crashed' = FALSE
      /\ UNCHANGED <<role, plan, lines, torn, engine>>
  BY DEF Starts, process, file
<1>2. plan \in Plans /\ ~torn /\ lines = <<>> /\ engine = <<>> /\ torn \in BOOLEAN
  BY <1>1 DEF JournalInv, ProcessType, Latched
<1>3. limit' \in Limits /\ deadline' \in BOOLEAN /\ event' \in Events /\ event'.event = "Initialized"
  <2>1. PICK id \in RunIds, quota \in Limits, timed \in BOOLEAN :
          /\ plan.identity \in Identities /\ limit' = quota /\ deadline' = timed
          /\ event' = Initialized(ChildHeader(plan, id, plan.identity, quota, timed))
    BY DEF Starts
  <2>2. plan \in Preparations
    BY <1>2, PlansAssumption
  <2>3. ChildHeader(plan, id, plan.identity, quota, timed) \in ChildHeaders
    <3>1. /\ plan.run \in RunIds /\ plan.log \in Logs /\ plan.expected \in Anchors
          /\ plan.restored \in Seq(Outcomes) /\ plan.remaining \in Seq(ScenarioIds)
      BY <2>2 DEF Preparations
    <3>2. Len(plan.restored) \in Nat
      BY <3>1
    <3> QED BY <2>1, <3>1, <3>2 DEF ChildHeader, ChildHeaders
  <2> QED BY <2>1, <2>3 DEF Initialized, Events
<1>4. Todo \in Seq(ScenarioIds) /\ Len(Todo) \in Nat
  BY TodoIsBounded DEF JournalInv
<1>5. input' = Todo
  BY <1>1 DEF Starts, Todo
<1>6. Calls = 0 /\ Calls' = 0 /\ Behind' = 0
  BY <1>0, <1>1, <1>2 DEF Calls, Behind
<1>7. ProcessType'
  <2>1. role \in {"parent", "child"} /\ lines \in Seq(Entries) /\ engine \in Seq(EngineCalls)
    BY DEF JournalInv, ProcessType
  <2>2. 0 <= Len(input') /\ input' = Todo'
    BY <1>0, <1>4, <1>5
  <2> QED BY <2>1, <2>2, <1>1, <1>2, <1>3 DEF ProcessType
<1>8. Latched'
  BY <1>1 DEF Latched
<1>9. Position'
  BY <1>1, <1>2, <1>3, <1>6 DEF Position, Emitting, Intent, Return
<1>10. InStep'
  BY <1>0, <1>1, <1>3, <1>6 DEF InStep, Before, Inside, Emitting, Intent, Return
<1>11. Filed'
  BY <1>0, <1>1, <1>2, <1>6 DEF Filed
<1> QED BY <1>7, <1>8, <1>9, <1>10, <1>11 DEF JournalInv

(* A process at rest keeps the invariant.                                  *)
LEMMA RestsKeeps ==
  ASSUME JournalInv, Rests
  PROVE  JournalInv'
<1>0. UNCHANGED process /\ Todo' = Todo /\ IsParent' = IsParent /\ \A i : Due(i)' = Due(i)
  BY SameWork DEF Rests
<1>1. UNCHANGED <<role, plan, input, limit, deadline, pc, baseline, outcomes, taken, status,
                  current, run, wpc, event, lines, torn, sequence, previous, error, next, engine,
                  crashed>>
  BY DEF Rests, process, controls, report, file, entry
<1>2. ProcessType'
  <2>1. /\ error \in {NoValue, "contract", "storage"} /\ sequence \in Nat
        /\ previous \in {NoValue} \cup (Nat \X Events) /\ torn \in BOOLEAN /\ crashed \in BOOLEAN
        /\ lines \in Seq(Entries)
    BY DEF JournalInv, ProcessType
  <2>2. UNCHANGED <<process, controls, pc, report, current, event, next, engine>>
    BY <1>0, <1>1 DEF controls, report
  <2> QED BY <2>1, <2>2, <1>1, TypeOfEmission
<1>3. Latched'
  BY <1>1, <1>0 DEF JournalInv, Latched
<1>4. Position'
  BY <1>1 DEF JournalInv, Position, Clean, Emitting, Intent, Return, Calls
<1>5. InStep'
  BY <1>0, <1>1 DEF JournalInv, InStep, Clean, Before, Inside, Emitting, Intent, Return, Calls, Behind
<1>6. Filed'
  BY <1>0, <1>1 DEF JournalInv, Filed, Calls
<1> QED BY <1>2, <1>3, <1>4, <1>5, <1>6 DEF JournalInv

(* Every step keeps the invariant.                                         *)
LEMMA StepKeepsJournal ==
  ASSUME JournalInv, [Next]_vars
  PROVE  JournalInv'
<1>1. Moves
  BY StepsMove
<1> QED BY <1>1, EvaluatesKeeps, IntendsBaselineKeeps, IntendsScenarioKeeps, RestoredKeeps,
           InvokesKeeps, EngineAnswersKeeps, RecordsKeeps, AnswersKeeps, AnswersBlockedKeeps,
           ClosesKeeps, EmissionFailsKeeps, WritesKeeps, SyncsKeeps, DiesKeeps, StartsKeeps,
           RestsKeeps DEF Moves

(* Every process starts with the invariant.                                *)
LEMMA InitialJournal ==
  ASSUME Init
  PROVE  JournalInv
<1> USE DEF JournalInv, Emitting, Before, Inside, Intent, Return, Calls, Behind, Clean
<1>1. CASE role = "parent" /\ Parent!Init
  <2>1. /\ input = Scenarios /\ limit \in Limits /\ deadline \in BOOLEAN
        /\ pc = "admit" /\ baseline = NoValue /\ taken = 0 /\ current = NoValue
        /\ status = [kind |-> "Completed"] /\ run \in RunIds /\ wpc = "emit"
        /\ lines = <<>> /\ torn = FALSE /\ sequence = 0 /\ previous = NoValue /\ error = NoValue
        /\ next = 0 /\ engine = <<>> /\ crashed = FALSE
    BY <1>1 DEF Parent!Init, Parent!Eval!Init, Parent!Journal!Init, Parent!Journal!NoError,
       Parent!Eval!Completed
  <2>2. event = Initialized(Parent!Header)
    BY <1>1 DEF Parent!Init, Parent!Initialized, Initialized
  <2>3. event \in Events /\ event.event = "Initialized"
    BY <2>1, <2>2 DEF Parent!Header, Initialized, Events, Headers
  <2>4. Todo = input /\ Len(Todo) \in Nat
    BY <1>1, <2>1, ScenariosAssumption DEF Todo, IsParent
  <2>5. ProcessType
    <3>1. 0 <= Len(input) /\ input = Todo
      BY <2>4
    <3>2. role = "parent" /\ IsParent /\ lines \in Seq(Entries) /\ engine \in Seq(EngineCalls)
      BY <1>1, <2>1 DEF IsParent
    <3> QED BY <3>1, <3>2, <2>1, <2>3 DEF ProcessType
  <2>6. Latched /\ Position /\ InStep /\ Filed
    BY <1>1, <2>1, <2>3 DEF Latched, Position, InStep, Filed
  <2> QED BY <2>5, <2>6
<1>2. CASE role = "child" /\ Child!Init
  <2>1. /\ input = <<>> /\ pc = "admit" /\ baseline = NoValue /\ taken = 0 /\ current = NoValue
        /\ status = [kind |-> "Completed"] /\ plan \in Plans /\ wpc = "idle"
        /\ lines = <<>> /\ torn = FALSE /\ sequence = 0 /\ previous = NoValue /\ error = NoValue
        /\ next = 0 /\ engine = <<>> /\ crashed = FALSE
    BY <1>2 DEF Child!Init, Child!Journal!Init, Child!Journal!NoError, Child!Eval!Completed
  <2>2. ~IsParent
    BY <1>2 DEF IsParent
  <2>3. ProcessType
    <3>1. 0 <= Len(input) /\ lines \in Seq(Entries) /\ engine \in Seq(EngineCalls)
      BY <2>1
    <3> QED BY <3>1, <1>2, <2>1, <2>2 DEF ProcessType
  <2>4. Latched /\ Position /\ InStep /\ Filed
    BY <2>1, <2>2 DEF Latched, Position, InStep, Filed
  <2> QED BY <2>3, <2>4
<1> QED BY <1>1, <1>2 DEF Init

(* The inductive invariant of runs and continuations: what the evaluator,  *)
(* the emitter, the engine and the file have to do with each other at      *)
(* every step.                                                             *)
THEOREM JournalIsKept == Spec => []JournalInv
<1>1. Init => JournalInv
  BY InitialJournal
<1>2. JournalInv /\ [Next]_vars => JournalInv'
  BY StepKeepsJournal
<1> QED BY <1>1, <1>2, PTL DEF Spec

(* Write-ahead, for every kind of process, any number of candidates, and   *)
(* every failure and crash.                                                *)
THEOREM IntentsComeFirst == Spec => []WriteAhead
<1>1. ASSUME JournalInv PROVE WriteAhead
  <2>1. CASE IsParent
    <3>1. Parent!Journal!IntentsPrecede(engine)
      BY <1>1 DEF JournalInv, Filed, Parent!Journal!IntentsPrecede, Parent!Journal!CallStarted,
         CallStarted, Calls
    <3> QED BY <2>1, <3>1 DEF WriteAhead, Parent!WriteAhead
  <2>2. CASE ~IsParent
    <3>1. Child!Journal!IntentsPrecede(engine)
      BY <1>1 DEF JournalInv, Filed, Child!Journal!IntentsPrecede, Child!Journal!CallStarted,
         CallStarted, Calls
    <3>2. \A i \in DOMAIN engine : engine[i].target = plan.remaining[i] /\ i <= Len(plan.remaining)
      BY <1>1, <2>2 DEF JournalInv, Filed, Due, Todo
    <3>3. Len(engine) <= Len(plan.remaining)
      <4>1. Len(engine) \in Nat /\ Len(plan.remaining) \in Nat /\ DOMAIN engine = 1 .. Len(engine)
        BY <1>1, <2>2, Numbers, TodoIsBounded DEF JournalInv, Calls, Todo
      <4> QED BY <3>2, <4>1
    <3> QED BY <2>2, <3>1, <3>2, <3>3 DEF WriteAhead, Child!OnlyTheSuffixIsCalled
  <2> QED BY <2>1, <2>2
<1> QED BY <1>1, JournalIsKept, PTL

(* Once a codec, a limit or the storage has failed, no step passes a call  *)
(* to the engine, and none but a crash touches the file.                   *)
THEOREM FailureIsFinal == Spec => NothingAfterJournalFailure
<1>1. ASSUME JournalInv, [Next]_vars, error # NoValue
      PROVE  Len(engine') = Len(engine) /\ (~crashed' => UNCHANGED <<lines, torn>>)
  <2>1. wpc \notin {"idle", "engine", "in engine", "returned", "sync"}
    BY <1>1 DEF JournalInv, Latched, ProcessType
  <2>2. Moves
    BY <1>1, StepsMove
  <2> USE DEF file
  <2> QED BY <1>1, <2>1, <2>2
          DEF Moves, Evaluates, IntendsBaseline, IntendsScenario, CallsRestored, ReturnsRestored,
              Invokes, EngineAnswers, Records, Answers, AnswersBlocked, Closes, EmitsNothing,
              Writes, Syncs, SyncFails, Dies, Starts, Rests
<1>2. JournalInv /\ [Next]_vars =>
        [error # NoValue => Len(engine') = Len(engine)
                              /\ (~crashed' => UNCHANGED <<lines, torn>>)]_vars
  BY <1>1
<1> QED BY <1>2, JournalIsKept, PTL DEF Spec, NothingAfterJournalFailure

----------------------------------------------------------------------------
(* The invariant: what the inspector would know of the file.               *)

(* The header of the process, and its reader.                              *)
Heading ==
  IF IsParent THEN [run |-> run, bundle |-> Scenarios, identity |-> Identity,
                    limit |-> limit, deadline |-> deadline]
  ELSE ChildHeader(plan, run, plan.identity, limit, deadline)
Prior == Inspect(plan.log.lines, plan.log.torn)
Read(log) == IF IsParent THEN LifecycleOf(log) ELSE ChildLifecycleOf(log, plan.expected, Prior)

(* Entries are numbered and chained; a return is what the engine answered. *)
Chained ==
  /\ wpc # "idle" /\ ~IsParent => run # plan.run
  /\ Clean =>
       /\ previous = IF sequence = 0 THEN NoValue ELSE Digest(lines[sequence])
       /\ wpc = "sync" => lines[sequence + 1] = Entry(sequence, previous, event)
       /\ Emitting =>
            /\ event.event = "Initialized" => event = Initialized(Heading)
            /\ Return => event = Returned(current)
            /\ event.event = "Finished" => event = Ending

(* The evaluator's part of it.                                             *)
Evaluated ==
  Clean =>
    /\ outcomes \in Seq([scenario : ScenarioIds, signature : Signatures])
    /\ IsParent => baseline \in Signatures \cup {NoValue}
    /\ Len(outcomes) <= limit
    /\ pc \notin {"report", "done"} => status.kind = "Completed"
    /\ pc \notin {"calling", "report", "done"} => Len(outcomes) = taken
    /\ pc = "step" => taken = Len(input) \/ taken < limit
    /\ pc = "calling" =>
         /\ current = Baseline => Len(outcomes) = taken
         /\ current # Baseline => Len(outcomes) + 1 = taken /\ taken <= limit
         /\ IsParent => limit # 0 /\ (current = Baseline <=> baseline = NoValue)
    /\ pc \in {"report", "done"} =>
         /\ status.kind = "Completed" =>
              baseline # NoValue /\ Len(outcomes) = taken /\ taken = Len(input)
         /\ status.kind = "Interrupted" =>
              /\ Len(outcomes) = taken
              /\ status.reason = "DeadlineReached" => deadline
              /\ status.reason = "EvaluationLimitReached" =>
                   Len(outcomes) = limit /\ taken # Len(input)
         /\ status.kind \in {"Completed", "Interrupted", "EngineFailed", "DuplicateScenarioId"}
         /\ status.kind = "EngineFailed" =>
              status.scenario \in ScenarioIds \/ (status.scenario = NoValue /\ IsParent)

(* A call whose intent, or whose return, is the last word of the file.     *)
Open == wpc \in {"engine", "in engine", "returned"} \/ (wpc = "sync" /\ Intent) \/ (wpc = "emit" /\ Return)
Answered == wpc = "answer" \/ (wpc = "sync" /\ Return)

Failure ==
  IF Answered /\ Result \notin Signatures THEN current
  ELSE IF status.kind # "EngineFailed" THEN NoValue
  ELSE IF status.scenario = NoValue THEN Baseline ELSE status.scenario

(* The terminal entry is written; a success the evaluator does not know of *)
(* yet is; a candidate the evaluator has taken is not written yet.         *)
Ended == wpc = "closed" \/ (wpc = "sync" /\ event.event = "Finished")
Gained == Answered /\ Result \in Signatures
Announced == wpc = "emit" /\ Intent /\ current # Baseline

(* The file says what the evaluator knows.                                 *)
Known(l) ==
  /\ l.header = Heading
  /\ l.active = IF Open THEN current ELSE NoValue
  /\ l.failed = Failure
  /\ l.terminal = IF Ended THEN Ending ELSE NoValue
  /\ l.successful = Len(outcomes) + (IF Gained /\ current # Baseline THEN 1 ELSE 0)
  /\ IsParent =>
       /\ l.baseline <=> baseline # NoValue \/ Gained
       /\ l.started = taken - (IF Announced THEN 1 ELSE 0)

Agreement == Clean /\ lines # <<>> => Read(lines) # NoValue /\ Known(Read(lines))

(* A recorded return is that of its call.                                  *)
Recorded ==
  \A k \in 1 .. Len(lines) : lines[k].event.event \in {"CallSucceeded", "CallFailed"} =>
    \E i \in 1 .. Calls :
      /\ k = 2 * i + 1
      /\ engine[i].target = lines[k].event.target
      /\ engine[i].result = Decode(lines[k].event.payload)
      /\ engine[i].result \in Values
      /\ lines[k].event.event = "CallSucceeded" <=> engine[i].result \in Signatures

(* Whatever fails and wherever it ends, the file is accepted.              *)
Accepted ==
  /\ lines # <<>> => Read(lines) # NoValue
  /\ lines # <<>> /\ torn => Read(lines).terminal = NoValue

InspectionInv == Chained /\ Evaluated /\ Agreement /\ Recorded /\ Accepted
----------------------------------------------------------------------------
(* What any accepted log of a run says.                                    *)
Called(l) ==
  l.started + (IF l.baseline \/ l.active = Baseline \/ l.failed = Baseline THEN 1 ELSE 0)

(* After k lines: an intent for each call, a return for each but the one   *)
(* that is active, in that order; at most one of them failed, the last.    *)
Lawful(l, log, k) ==
  /\ l \in Lifecycles
  /\ k = 0 => l = FreshLifecycle
  /\ k > 0 =>
       /\ l.header \in Headers \cup ChildHeaders
       /\ k + (IF l.active # NoValue THEN 1 ELSE 0) =
            2 * Called(l) + 1 + (IF l.terminal # NoValue THEN 1 ELSE 0)
       /\ l.terminal # NoValue =>
            l.terminal = log[k].event /\ log[k].event.event = "Finished" /\ l.active = NoValue
  /\ l.active = NoValue \/ l.failed = NoValue
  /\ l.baseline => l.active # Baseline /\ l.failed # Baseline
  /\ ~l.baseline => l.started = 0 /\ l.active \in {NoValue, Baseline} /\ l.failed \in {NoValue, Baseline}
  /\ l.started = l.successful +
       (IF l.active \notin {NoValue, Baseline} \/ l.failed \notin {NoValue, Baseline} THEN 1 ELSE 0)
  /\ l.started <= Len(Scenarios)

(* What an accepted line changes of a lifecycle (Lifecycle::accept).       *)
LEMMA AfterALine ==
  ASSUME NEW l \in Lifecycles, NEW e \in Events
  PROVE  /\ e.event = "CallStarted" =>
              /\ After(l, e) \in Lifecycles
              /\ After(l, e).header = l.header /\ After(l, e).baseline = l.baseline
              /\ After(l, e).started = l.started + (IF e.target = Baseline THEN 0 ELSE 1)
              /\ After(l, e).successful = l.successful /\ After(l, e).active = e.target
              /\ After(l, e).failed = l.failed /\ After(l, e).terminal = l.terminal
         /\ e.event = "CallSucceeded" =>
              /\ After(l, e) \in Lifecycles
              /\ After(l, e).header = l.header
              /\ (After(l, e).baseline <=> l.baseline \/ e.target = Baseline)
              /\ After(l, e).started = l.started
              /\ After(l, e).successful = l.successful + (IF e.target = Baseline THEN 0 ELSE 1)
              /\ After(l, e).active = NoValue
              /\ After(l, e).failed = l.failed /\ After(l, e).terminal = l.terminal
         /\ e.event = "CallFailed" =>
              /\ After(l, e) \in Lifecycles
              /\ After(l, e).header = l.header /\ After(l, e).baseline = l.baseline
              /\ After(l, e).started = l.started /\ After(l, e).successful = l.successful
              /\ After(l, e).active = NoValue
              /\ After(l, e).failed = e.target /\ After(l, e).terminal = l.terminal
         /\ e.event = "Finished" =>
              /\ After(l, e) \in Lifecycles
              /\ After(l, e).header = l.header /\ After(l, e).baseline = l.baseline
              /\ After(l, e).started = l.started /\ After(l, e).successful = l.successful
              /\ After(l, e).active = l.active /\ After(l, e).failed = l.failed
              /\ After(l, e).terminal = e
<1> USE DEF Lifecycles
<1>1. CASE e.event = "CallStarted"
  <2> DEFINE s == IF e.target = Baseline THEN l.started ELSE l.started + 1
  <2>1. After(l, e) = [l EXCEPT !.active = e.target, !.started = s]
    BY <1>1, Zenon DEF After
  <2>2. s \in Nat /\ e.target \in Targets /\ s = l.started + (IF e.target = Baseline THEN 0 ELSE 1)
    BY <1>1 DEF Events
  <2> HIDE DEF s
  <2> QED BY <1>1, <2>1, <2>2
<1>2. CASE e.event = "CallSucceeded"
  <2> DEFINE b == l.baseline \/ e.target = Baseline
             s == IF e.target = Baseline THEN l.successful ELSE l.successful + 1
  <2>1. After(l, e) = [l EXCEPT !.active = NoValue, !.baseline = b, !.successful = s]
    BY <1>2, Zenon DEF After
  <2>2. s \in Nat /\ b \in BOOLEAN /\ s = l.successful + (IF e.target = Baseline THEN 0 ELSE 1)
        /\ (b <=> l.baseline \/ e.target = Baseline)
    OBVIOUS
  <2> HIDE DEF s, b
  <2> QED BY <1>2, <2>1, <2>2
<1>3. CASE e.event = "CallFailed"
  <2>1. After(l, e) = [l EXCEPT !.active = NoValue, !.failed = e.target]
    BY <1>3 DEF After
  <2>2. e.target \in Targets
    BY <1>3 DEF Events
  <2> QED BY <1>3, <2>1, <2>2
<1>4. CASE e.event = "Finished"
  <2>1. After(l, e) = [l EXCEPT !.terminal = e]
    BY <1>4 DEF After
  <2> QED BY <1>4, <2>1
<1> QED BY <1>1, <1>2, <1>3, <1>4

(* A reading that accepts a line stays lawful.                             *)
LEMMA ReadLineIsLawful ==
  ASSUME NEW log \in Seq(Entries), NEW k \in 1 .. Len(log), NEW l, Lawful(l, log, k - 1),
         ReadLine(l, log, k) # NoValue
  PROVE  Lawful(ReadLine(l, log, k), log, k)
<1>a. log[k] \in Entries /\ k \in Nat
  OBVIOUS
<1>0. SUFFICES ASSUME NEW r, r = ReadLine(l, log, k), NEW e, e = log[k].event
               PROVE  Lawful(r, log, k)
  OBVIOUS
<1>1. e \in Events
  BY <1>0, <1>a DEF Entries
<1>2. l \in Lifecycles /\ l.terminal = NoValue
  BY DEF Lawful, ReadLine
<1>3. Len(Scenarios) \in Nat /\ NoValue # Baseline /\ NoValue \notin Targets
  BY ScenariosAssumption, ValuesAssumption DEF Targets
<1>4. CASE k = 1
  <2>1. r = [l EXCEPT !.header = e.header] /\ e.event = "Initialized"
    BY <1>0, <1>4 DEF ReadLine
  <2>2. e.header \in Headers \cup ChildHeaders
    BY <1>1, <2>1 DEF Events
  <2>3. l = FreshLifecycle
    BY <1>4 DEF Lawful
  <2>4. r = [header |-> e.header, baseline |-> FALSE, started |-> 0, successful |-> 0,
             active |-> NoValue, failed |-> NoValue, terminal |-> NoValue]
    BY <2>1, <2>3 DEF FreshLifecycle
  <2>5. r \in Lifecycles
    BY <2>2, <2>4 DEF Lifecycles
  <2> QED BY <1>3, <1>4, <2>2, <2>4, <2>5 DEF Lawful, Called
<1>5. CASE k # 1
  <2>1. r = After(l, e) /\ Accepts(l, e)
    BY <1>0, <1>5 DEF ReadLine
  <2>2. /\ l.header \in Headers \cup ChildHeaders
        /\ k - 1 + (IF l.active # NoValue THEN 1 ELSE 0) = 2 * Called(l) + 1 + 0
        /\ l.active = NoValue \/ l.failed = NoValue
        /\ l.baseline => l.active # Baseline /\ l.failed # Baseline
        /\ ~l.baseline => l.started = 0 /\ l.active \in {NoValue, Baseline} /\ l.failed \in {NoValue, Baseline}
        /\ l.started = l.successful +
             (IF l.active \notin {NoValue, Baseline} \/ l.failed \notin {NoValue, Baseline} THEN 1 ELSE 0)
        /\ l.started <= Len(Scenarios)
    <3>1. k - 1 > 0
      BY <1>a, <1>5
    <3> QED BY <1>2, <3>1 DEF Lawful
  <2>3. /\ l.started \in Nat /\ l.successful \in Nat /\ l.baseline \in BOOLEAN
        /\ l.active \in {NoValue} \cup Targets /\ l.failed \in {NoValue} \cup Targets
    BY <1>2 DEF Lifecycles
  <2>4. CASE e.event = "CallStarted"
    <3>1. StartAllowed(l, e.target) /\ e.target \in Targets
      BY <1>1, <2>1, <2>4 DEF Accepts, Events
    <3>2. /\ r \in Lifecycles /\ r.header = l.header /\ r.baseline = l.baseline
          /\ r.started = l.started + (IF e.target = Baseline THEN 0 ELSE 1)
          /\ r.successful = l.successful /\ r.active = e.target
          /\ r.failed = l.failed /\ r.terminal = l.terminal
      BY <1>1, <1>2, <2>1, <2>4, AfterALine
    <3>3. /\ l.active = NoValue /\ l.failed = NoValue
          /\ e.target = Baseline => ~l.baseline /\ l.started = 0
          /\ e.target # Baseline => l.baseline /\ l.started < Len(Scenarios)
      BY <3>1 DEF StartAllowed
    <3>4. r.active # NoValue /\ l.terminal = NoValue
      BY <1>2, <1>3, <3>1, <3>2
    <3>5. CASE e.target = Baseline
      <4>1. /\ r.active = Baseline /\ r.started = 0 /\ l.started = 0 /\ ~r.baseline
            /\ l.failed # Baseline /\ l.active # Baseline
        BY <1>3, <3>2, <3>3, <3>5
      <4>2. Called(l) = 0 /\ Called(r) = 1
        BY <4>1, <3>3, <3>5 DEF Called
      <4>3. k + 1 = 2 * Called(r) + 1 + 0
        BY <1>a, <2>2, <3>3, <4>2
      <4>4. l.successful = 0
        BY <1>3, <2>2, <2>3, <3>3, <4>1
      <4> QED BY <1>a, <1>3, <2>2, <3>2, <3>3, <3>4, <4>1, <4>3, <4>4 DEF Lawful
    <3>6. CASE e.target # Baseline
      <4>1. r.started = l.started + 1 /\ r.baseline /\ l.baseline /\ r.started <= Len(Scenarios)
        BY <1>3, <2>3, <3>2, <3>3, <3>6
      <4>2. Called(l) = l.started + 1 /\ Called(r) = l.started + 2
        BY <2>3, <4>1 DEF Called
      <4>3. k + 1 = 2 * Called(r) + 1 + 0
        <5>1. k - 1 + 0 = 2 * Called(l) + 1 + 0 /\ l.started \in Nat
          BY <2>2, <2>3, <3>3
        <5> QED BY <1>a, <5>1, <4>2
      <4>4. l.successful = l.started
        BY <1>3, <2>2, <2>3, <3>3, <4>1
      <4>5. r.failed = NoValue /\ r.active \notin {NoValue, Baseline}
        BY <1>3, <3>1, <3>2, <3>3, <3>6
      <4>6. r.started = r.successful + 1
        BY <3>2, <4>1, <4>4
      <4> QED BY <1>a, <1>3, <2>2, <3>2, <3>4, <4>1, <4>3, <4>5, <4>6 DEF Lawful
    <3> QED BY <3>5, <3>6
  <2>5. CASE e.event = "CallSucceeded"
    <3>1. l.active = e.target /\ e.target \in Targets
      BY <1>1, <2>1, <2>5 DEF Accepts, Events
    <3>2. /\ r \in Lifecycles /\ r.header = l.header /\ (r.baseline <=> l.baseline \/ e.target = Baseline)
          /\ r.started = l.started
          /\ r.successful = l.successful + (IF e.target = Baseline THEN 0 ELSE 1)
          /\ r.active = NoValue /\ r.failed = l.failed /\ r.terminal = l.terminal
      BY <1>1, <1>2, <2>1, <2>5, AfterALine
    <3>3. Called(r) = Called(l) /\ Called(l) \in Nat
      BY <1>3, <2>2, <2>3, <3>1, <3>2 DEF Called
    <3> QED BY <1>2, <1>3, <1>5, <2>2, <2>3, <3>1, <3>2, <3>3 DEF Lawful
  <2>6. CASE e.event = "CallFailed"
    <3>1. l.active = e.target /\ e.target \in Targets
      BY <1>1, <2>1, <2>6 DEF Accepts, Events
    <3>2. /\ r \in Lifecycles /\ r.header = l.header /\ r.baseline = l.baseline
          /\ r.started = l.started /\ r.successful = l.successful
          /\ r.active = NoValue /\ r.failed = e.target /\ r.terminal = l.terminal
      BY <1>1, <1>2, <2>1, <2>6, AfterALine
    <3>3. Called(r) = Called(l) /\ Called(l) \in Nat
      BY <1>3, <2>2, <2>3, <3>1, <3>2 DEF Called
    <3> QED BY <1>2, <1>3, <1>5, <2>2, <2>3, <3>1, <3>2, <3>3 DEF Lawful
  <2>7. CASE e.event = "Finished"
    <3>1. l.active = NoValue
      BY <2>1, <2>7 DEF Accepts, FinishAllowed
    <3>2. /\ r \in Lifecycles /\ r.header = l.header /\ r.baseline = l.baseline
          /\ r.started = l.started /\ r.successful = l.successful
          /\ r.active = l.active /\ r.failed = l.failed /\ r.terminal = e
      BY <1>1, <1>2, <2>1, <2>7, AfterALine
    <3>3. Called(r) = Called(l) /\ Called(l) \in Nat
      BY <1>3, <2>2, <2>3, <3>1, <3>2 DEF Called
    <3>4. e # NoValue
      BY <1>1, ValuesAssumption
    <3> QED BY <1>2, <1>3, <1>5, <2>2, <2>3, <2>7, <3>1, <3>2, <3>3, <3>4, <1>0 DEF Lawful
  <2> QED BY <2>1, <2>4, <2>5, <2>6, <2>7 DEF Accepts
<1> QED BY <1>4, <1>5

(* What inspect_execution_journal accepts is lawful: intents in the order  *)
(* of the bundle, every answer to the intent before it, nothing after the  *)
(* terminal.                                                               *)
LEMMA AcceptedIsLawful ==
  ASSUME NEW log \in Seq(Entries), LifecycleOf(log) # NoValue
  PROVE  Lawful(LifecycleOf(log), log, Len(log))
<1>1. PICK f : Reading(f, log, Len(log)) /\ LifecycleOf(log) = f[Len(log)]
  BY LifecycleIsRead
<1> DEFINE S == { m \in Nat : m <= Len(log) => f[m] = NoValue \/ Lawful(f[m], log, m) }
<1>2. 0 \in S
  <2>1. f[0] = FreshLifecycle
    BY <1>1 DEF Reading
  <2>2. Lawful(FreshLifecycle, log, 0)
    BY ScenariosAssumption, ValuesAssumption DEF Lawful, FreshLifecycle, Lifecycles
  <2> QED BY <2>1, <2>2
<1>3. ASSUME NEW m \in Nat, m \in S PROVE m + 1 \in S
  <2>1. SUFFICES ASSUME m + 1 <= Len(log) PROVE f[m + 1] = NoValue \/ Lawful(f[m + 1], log, m + 1)
    OBVIOUS
  <2>2. f[m + 1] = IF f[m] = NoValue THEN NoValue ELSE ReadLine(f[m], log, m + 1)
    BY <1>1, <2>1 DEF Reading
  <2>3. f[m] = NoValue \/ Lawful(f[m], log, (m + 1) - 1)
    BY <1>3, <2>1
  <2>4. m + 1 \in 1 .. Len(log)
    BY <2>1
  <2> QED BY <2>2, <2>3, <2>4, ReadLineIsLawful
<1>4. Nat \subseteq S
  BY <1>2, <1>3, Induction
<1> QED BY <1>1, <1>4

----------------------------------------------------------------------------
(* The same for the log of a continuation.                                 *)
ChildReading(f, log, expected, parent, n) ==
  f = [k \in 0 .. n |->
         IF k = 0 THEN FreshChild
         ELSE LET c == f[k - 1]
              IN IF c = NoValue THEN NoValue ELSE ChildReadLine(c, log, k, expected, parent)]

(* Up to every length there is one reading of a child's log.               *)
LEMMA ChildReadingExists ==
  ASSUME NEW log, NEW expected, NEW parent, NEW n \in Nat
  PROVE  \E f : ChildReading(f, log, expected, parent, n)
<1> DEFINE Is(f, m) == ChildReading(f, log, expected, parent, m)
           S == { m \in Nat : \E f : Is(f, m) }
<1>1. 0 \in S
  <2>1. Is([k \in 0 .. 0 |-> FreshChild], 0)
    BY DEF ChildReading
  <2> QED BY <2>1
<1>2. ASSUME NEW m \in Nat, m \in S PROVE m + 1 \in S
  <2>1. PICK f : Is(f, m)
    BY <1>2
  <2> DEFINE last == IF f[m] = NoValue THEN NoValue
                     ELSE ChildReadLine(f[m], log, m + 1, expected, parent)
             g == [k \in 0 .. m + 1 |-> IF k <= m THEN f[k] ELSE last]
  <2>2. ASSUME NEW k \in 0 .. m + 1
        PROVE  g[k] = IF k = 0 THEN FreshChild
                      ELSE IF g[k - 1] = NoValue THEN NoValue
                      ELSE ChildReadLine(g[k - 1], log, k, expected, parent)
    BY <2>1 DEF ChildReading
  <2>3. Is(g, m + 1)
    BY <2>2 DEF ChildReading
  <2> QED BY <2>3
<1>3. Nat \subseteq S
  BY <1>1, <1>2, Induction
<1> QED BY <1>3

(* What the inspector makes of a child's log is the last of such a         *)
(* reading.                                                                *)
LEMMA ChildLifecycleIsRead ==
  ASSUME NEW log, NEW expected, NEW parent, Len(log) \in Nat
  PROVE  \E f : /\ ChildReading(f, log, expected, parent, Len(log))
                /\ ChildLifecycleOf(log, expected, parent) = f[Len(log)]
<1>1. PICK f : ChildReading(f, log, expected, parent, Len(log))
  BY ChildReadingExists
<1> DEFINE r == CHOOSE g : ChildReading(g, log, expected, parent, Len(log))
<1>2. ChildReading(r, log, expected, parent, Len(log))
  BY <1>1
<1>3. ChildLifecycleOf(log, expected, parent) = r[Len(log)]
  BY DEF ChildLifecycleOf, ChildReading
<1> QED BY <1>2, <1>3

(* Two logs that agree up to a line are read alike up to that line.        *)
LEMMA ChildReadingAgrees ==
  ASSUME NEW log, NEW longer, NEW expected, NEW parent, NEW n \in Nat, NEW f, NEW g,
         ChildReading(f, log, expected, parent, n), ChildReading(g, longer, expected, parent, n),
         \A k \in 1 .. n : longer[k] = log[k]
  PROVE  f = g
<1> DEFINE S == { m \in Nat : m <= n => f[m] = g[m] }
<1>1. 0 \in S
  BY DEF ChildReading
<1>2. ASSUME NEW m \in Nat, m \in S PROVE m + 1 \in S
  <2>1. SUFFICES ASSUME m + 1 <= n PROVE f[m + 1] = g[m + 1]
    OBVIOUS
  <2>2. f[m] = g[m] /\ longer[m + 1] = log[m + 1] /\ (m # 0 => longer[m] = log[m])
    BY <1>2, <2>1
  <2>3. ChildReadLine(f[m], log, m + 1, expected, parent)
          = ChildReadLine(f[m], longer, m + 1, expected, parent)
    BY <2>2 DEF ChildReadLine
  <2>4. /\ f[m + 1] = IF f[m] = NoValue THEN NoValue
                      ELSE ChildReadLine(f[m], log, m + 1, expected, parent)
        /\ g[m + 1] = IF g[m] = NoValue THEN NoValue
                      ELSE ChildReadLine(g[m], longer, m + 1, expected, parent)
    BY <2>1 DEF ChildReading
  <2> QED BY <2>2, <2>3, <2>4
<1>3. Nat \subseteq S
  BY <1>1, <1>2, Induction
<1>4. \A m \in 0 .. n : f[m] = g[m]
  BY <1>3
<1> QED BY <1>4 DEF ChildReading

(* A log with one more line is read by reading that line after the others. *)
LEMMA ChildReadOn ==
  ASSUME NEW log, NEW longer, NEW expected, NEW parent,
         Len(log) \in Nat, Len(longer) = Len(log) + 1,
         \A k \in 1 .. Len(log) : longer[k] = log[k]
  PROVE  ChildLifecycleOf(longer, expected, parent) =
           IF ChildLifecycleOf(log, expected, parent) = NoValue THEN NoValue
           ELSE ChildReadLine(ChildLifecycleOf(log, expected, parent), longer, Len(log) + 1,
                              expected, parent)
<1> DEFINE n == Len(log)
<1>1. PICK f : /\ ChildReading(f, log, expected, parent, n)
               /\ ChildLifecycleOf(log, expected, parent) = f[n]
  BY ChildLifecycleIsRead
<1>2. PICK g : /\ ChildReading(g, longer, expected, parent, n + 1)
               /\ ChildLifecycleOf(longer, expected, parent) = g[n + 1]
  BY ChildLifecycleIsRead
<1> DEFINE h == [k \in 0 .. n |-> g[k]]
<1>3. ChildReading(h, longer, expected, parent, n)
  BY <1>2 DEF ChildReading
<1>4. f = h
  BY <1>1, <1>3, ChildReadingAgrees
<1>5. g[n] = f[n]
  BY <1>4
<1>6. g[n + 1] = IF g[n] = NoValue THEN NoValue
                 ELSE ChildReadLine(g[n], longer, n + 1, expected, parent)
  BY <1>2 DEF ChildReading
<1> QED BY <1>1, <1>2, <1>5, <1>6

(* An empty log is read as a fresh lifecycle.                              *)
LEMMA NoChildLineRead ==
  ASSUME NEW expected, NEW parent
  PROVE  ChildLifecycleOf(<<>>, expected, parent) = FreshChild
<1>1. PICK f : /\ ChildReading(f, <<>>, expected, parent, 0)
               /\ ChildLifecycleOf(<<>>, expected, parent) = f[0]
  BY ChildLifecycleIsRead
<1> QED BY <1>1 DEF ChildReading

ChildLawful(c, log, k, expected, parent) ==
  /\ c \in ChildLifecycles
  /\ k = 0 => c = FreshChild
  /\ k > 0 =>
       /\ c.header \in Headers \cup ChildHeaders /\ HeaderMatches(c.header, expected, parent)
       /\ k = 2 * c.successful + 1 + (IF c.active # NoValue THEN 1 ELSE 0)
                + (IF c.failed # NoValue THEN 2 ELSE 0) + (IF c.terminal # NoValue THEN 1 ELSE 0)
       /\ c.terminal # NoValue =>
            c.terminal = log[k].event /\ log[k].event.event = "Finished" /\ c.active = NoValue
       /\ c.successful + (IF c.active # NoValue \/ c.failed # NoValue THEN 1 ELSE 0)
            <= Len(c.header.remaining)
  /\ c.active = NoValue \/ c.failed = NoValue
  /\ \A i \in 1 .. c.successful : log[2 * i + 1].event.event = "CallSucceeded"
  /\ c.failed # NoValue => log[2 * c.successful + 3].event.event = "CallFailed"
  /\ \A j \in 1 .. k : log[j].event.event = "CallSucceeded" =>
       \E i \in 1 .. c.successful : j = 2 * i + 1

(* A reading of a child's log that accepts a line stays lawful.            *)
LEMMA ChildReadLineIsLawful ==
  ASSUME NEW log \in Seq(Entries), NEW k \in 1 .. Len(log), NEW c, NEW expected, NEW parent,
         parent.successful \in 0 .. Len(Scenarios),
         ChildLawful(c, log, k - 1, expected, parent),
         ChildReadLine(c, log, k, expected, parent) # NoValue
  PROVE  ChildLawful(ChildReadLine(c, log, k, expected, parent), log, k, expected, parent)
<1>a. log[k] \in Entries /\ k \in Nat /\ k > 0
  OBVIOUS
<1>0. SUFFICES ASSUME NEW r, r = ChildReadLine(c, log, k, expected, parent),
                      NEW e, e = log[k].event
               PROVE  ChildLawful(r, log, k, expected, parent)
  OBVIOUS
<1>1. e \in Events
  BY <1>0, <1>a DEF Entries
<1>2. /\ c \in ChildLifecycles /\ c.terminal = NoValue
      /\ ChildAccepts(c, e, expected, parent) /\ r = ChildAfter(c, e)
  BY <1>0 DEF ChildLawful, ChildReadLine
<1>3. NoValue \notin Targets /\ NoValue \notin Headers \cup ChildHeaders /\ e # NoValue
  BY <1>1, ScenariosAssumption, ValuesAssumption DEF Targets
<1>4. /\ c.successful \in Nat /\ c.active \in {NoValue} \cup Targets
      /\ c.failed \in {NoValue} \cup Targets
      /\ c.header \in {NoValue} \cup Headers \cup ChildHeaders
  BY <1>2 DEF ChildLifecycles
<1>5. CASE e.event = "Initialized"
  <2>1. /\ c.header = NoValue /\ HeaderMatches(e.header, expected, parent)
        /\ r = [c EXCEPT !.header = e.header]
    BY <1>2, <1>5 DEF ChildAccepts, ChildAfter
  <2>2. k = 1
    BY <1>a, <1>3, <2>1 DEF ChildLawful
  <2>3. c = FreshChild
    BY <2>2 DEF ChildLawful
  <2>4. e.header \in Headers \cup ChildHeaders
    BY <1>1, <1>5 DEF Events
  <2>5. r = [header |-> e.header, active |-> NoValue, successful |-> 0, failed |-> NoValue,
             terminal |-> NoValue]
    BY <2>1, <2>3 DEF FreshChild
  <2>6. r \in ChildLifecycles
    BY <2>4, <2>5 DEF ChildLifecycles
  <2>7. e.header.remaining = Suffix(parent.successful) /\ Len(Suffix(parent.successful)) \in Nat
    BY <2>1, ScenariosAssumption, SMTT(30) DEF HeaderMatches, Suffix
  <2> QED BY <1>0, <1>5, <2>1, <2>2, <2>4, <2>5, <2>6, <2>7 DEF ChildLawful
<1>6. CASE e.event # "Initialized"
  <2>1. c.header # NoValue
    BY <1>2, <1>6 DEF ChildAccepts
  <2>2. k - 1 > 0
    <3>1. k - 1 = 0 => c = FreshChild
      BY DEF ChildLawful
    <3> QED BY <1>a, <2>1, <3>1 DEF FreshChild
  <2>3. /\ c.header \in Headers \cup ChildHeaders /\ HeaderMatches(c.header, expected, parent)
        /\ k - 1 = 2 * c.successful + 1 + (IF c.active # NoValue THEN 1 ELSE 0)
                     + (IF c.failed # NoValue THEN 2 ELSE 0) + 0
        /\ c.successful + (IF c.active # NoValue \/ c.failed # NoValue THEN 1 ELSE 0)
             <= Len(c.header.remaining)
    BY <1>2, <2>2 DEF ChildLawful
  <2>4. /\ c.active = NoValue \/ c.failed = NoValue
        /\ \A i \in 1 .. c.successful : log[2 * i + 1].event.event = "CallSucceeded"
        /\ c.failed # NoValue => log[2 * c.successful + 3].event.event = "CallFailed"
        /\ \A j \in 1 .. k - 1 : log[j].event.event = "CallSucceeded" =>
             \E i \in 1 .. c.successful : j = 2 * i + 1
    BY DEF ChildLawful
  <2>5. Len(c.header.remaining) \in Nat
    BY <2>3, ScenariosAssumption DEF HeaderMatches, Suffix
  <2>6. CASE e.event = "CallStarted"
    <3>1. /\ e.target \in Targets /\ c.active = NoValue /\ c.failed = NoValue
          /\ c.successful < Len(c.header.remaining)
          /\ r = [c EXCEPT !.active = e.target]
      BY <1>1, <1>2, <2>1, <2>6 DEF ChildAccepts, ChildAfter, Events
    <3>2. /\ r \in ChildLifecycles /\ r.header = c.header /\ r.active = e.target
          /\ r.successful = c.successful /\ r.failed = NoValue /\ r.terminal = NoValue
      BY <1>2, <3>1 DEF ChildLifecycles
    <3>3. k = 2 * r.successful + 1 + 1 + 0 + 0 /\ r.active # NoValue
      BY <1>a, <1>3, <1>4, <2>3, <3>1, <3>2
    <3>4. r.successful + 1 <= Len(r.header.remaining)
      BY <1>4, <2>5, <3>1, <3>2
    <3>5. \A j \in 1 .. k : log[j].event.event = "CallSucceeded" =>
            \E i \in 1 .. r.successful : j = 2 * i + 1
      BY <1>0, <1>a, <2>4, <2>6, <3>2
    <3> QED BY <1>a, <2>3, <2>4, <3>2, <3>3, <3>4, <3>5 DEF ChildLawful
  <2>7. CASE e.event = "CallSucceeded"
    <3>1. /\ e.target \in Targets /\ c.active = e.target /\ c.failed = NoValue
          /\ r = [c EXCEPT !.active = NoValue, !.successful = c.successful + 1]
      BY <1>1, <1>2, <1>3, <2>1, <2>4, <2>7 DEF ChildAccepts, ChildAfter, Events
    <3>2. /\ r \in ChildLifecycles /\ r.header = c.header /\ r.active = NoValue
          /\ r.successful = c.successful + 1 /\ r.failed = NoValue /\ r.terminal = NoValue
      <4> DEFINE s == c.successful + 1
      <4>1. r = [c EXCEPT !.active = NoValue, !.successful = s] /\ s = c.successful + 1
        BY <3>1, Zenon
      <4>2. s \in Nat
        BY <1>4
      <4> HIDE DEF s
      <4> QED BY <1>2, <3>1, <4>1, <4>2 DEF ChildLifecycles
    <3>3. k = 2 * c.successful + 3
      BY <1>a, <1>3, <1>4, <2>3, <3>1
    <3>4. k = 2 * r.successful + 1 + 0 + 0 + 0
      BY <1>4, <3>2, <3>3
    <3>5. r.successful <= Len(r.header.remaining)
      BY <1>3, <1>4, <2>3, <2>5, <3>1, <3>2
    <3>6. ASSUME NEW i \in 1 .. r.successful PROVE log[2 * i + 1].event.event = "CallSucceeded"
      <4>1. CASE i = c.successful + 1
        <5>1. 2 * i + 1 = k
          BY <1>4, <3>3, <4>1, SMTT(30)
        <5> QED BY <1>0, <2>7, <5>1
      <4>2. CASE i # c.successful + 1
        <5>1. i \in 1 .. c.successful
          BY <1>4, <3>2, <4>2
        <5> QED BY <2>4, <5>1
      <4> QED BY <4>1, <4>2
    <3>7. ASSUME NEW j \in 1 .. k, log[j].event.event = "CallSucceeded"
          PROVE  \E i \in 1 .. r.successful : j = 2 * i + 1
      <4>1. CASE j = k
        <5>1. r.successful \in Nat /\ r.successful >= 1
          BY <1>4, <3>2
        <5>2. r.successful \in 1 .. r.successful /\ k = 2 * r.successful + 1
          BY <3>4, <5>1
        <5> QED BY <4>1, <5>2
      <4>2. CASE j # k
        <5>1. j \in 1 .. k - 1
          BY <1>a, <4>2
        <5>2. PICK i \in 1 .. c.successful : j = 2 * i + 1
          BY <2>4, <3>7, <5>1
        <5>3. i \in 1 .. r.successful
          BY <1>4, <3>2
        <5> QED BY <5>2, <5>3
      <4> QED BY <4>1, <4>2
    <3>8. r.successful + 0 <= Len(r.header.remaining) /\ r.successful \in Nat
      BY <1>4, <3>2, <3>5
    <3> QED BY <1>a, <2>3, <3>2, <3>4, <3>6, <3>7, <3>8 DEF ChildLawful
  <2>8. CASE e.event = "CallFailed"
    <3>1. /\ e.target \in Targets /\ c.active = e.target /\ c.failed = NoValue
          /\ r = [c EXCEPT !.active = NoValue, !.failed = e.target]
      BY <1>1, <1>2, <1>3, <2>1, <2>4, <2>8 DEF ChildAccepts, ChildAfter, Events
    <3>2. /\ r \in ChildLifecycles /\ r.header = c.header /\ r.active = NoValue
          /\ r.successful = c.successful /\ r.failed = e.target /\ r.terminal = NoValue
      BY <1>2, <3>1 DEF ChildLifecycles
    <3>3. k = 2 * r.successful + 3 /\ r.failed # NoValue
      <4>1. k - 1 = 2 * c.successful + 1 + 1 + 0 + 0
        BY <1>3, <2>3, <3>1
      <4> QED BY <1>a, <1>3, <1>4, <3>1, <3>2, <4>1
    <3>4. k = 2 * r.successful + 1 + 0 + 2 + 0
      BY <1>4, <3>2, <3>3
    <3>5. r.successful + 1 <= Len(r.header.remaining)
      BY <1>3, <1>4, <2>3, <2>5, <3>1, <3>2
    <3>6. \A j \in 1 .. k : log[j].event.event = "CallSucceeded" =>
            \E i \in 1 .. r.successful : j = 2 * i + 1
      BY <1>0, <1>a, <2>4, <2>8, <3>2
    <3> QED BY <1>0, <1>a, <2>3, <2>4, <2>8, <3>2, <3>3, <3>4, <3>5, <3>6 DEF ChildLawful
  <2>9. CASE e.event = "Finished"
    <3>1. c.active = NoValue /\ r = [c EXCEPT !.terminal = e]
      BY <1>2, <2>1, <2>9 DEF ChildAccepts, ChildAfter
    <3>2. /\ r \in ChildLifecycles /\ r.header = c.header /\ r.active = NoValue
          /\ r.successful = c.successful /\ r.failed = c.failed /\ r.terminal = e
      BY <1>1, <1>2, <3>1 DEF ChildLifecycles
    <3>3. k = 2 * r.successful + 1 + 0 + (IF r.failed # NoValue THEN 2 ELSE 0) + 1
      BY <1>a, <1>4, <2>3, <3>1, <3>2
    <3>4. \A j \in 1 .. k : log[j].event.event = "CallSucceeded" =>
            \E i \in 1 .. r.successful : j = 2 * i + 1
      BY <1>0, <1>a, <2>4, <2>9, <3>2
    <3> QED BY <1>0, <1>a, <1>3, <2>3, <2>4, <2>9, <3>1, <3>2, <3>3, <3>4 DEF ChildLawful
  <2> QED BY <1>1, <1>6, <2>6, <2>7, <2>8, <2>9 DEF Events
<1> QED BY <1>5, <1>6

(* What inspect_continuation_journal accepts is lawful: intents in the     *)
(* order of the suffix, every answer to the intent before it, nothing      *)
(* after the terminal.                                                     *)
LEMMA ChildAcceptedIsLawful ==
  ASSUME NEW log \in Seq(Entries), NEW expected, NEW parent,
         parent.successful \in 0 .. Len(Scenarios),
         ChildLifecycleOf(log, expected, parent) # NoValue
  PROVE  ChildLawful(ChildLifecycleOf(log, expected, parent), log, Len(log), expected, parent)
<1>1. PICK f : /\ ChildReading(f, log, expected, parent, Len(log))
               /\ ChildLifecycleOf(log, expected, parent) = f[Len(log)]
  BY ChildLifecycleIsRead
<1> DEFINE S == { m \in Nat : m <= Len(log) =>
                    f[m] = NoValue \/ ChildLawful(f[m], log, m, expected, parent) }
<1>2. 0 \in S
  <2>1. f[0] = FreshChild
    BY <1>1 DEF ChildReading
  <2>2. ChildLawful(FreshChild, log, 0, expected, parent)
    BY DEF ChildLawful, FreshChild, ChildLifecycles
  <2> QED BY <2>1, <2>2
<1>3. ASSUME NEW m \in Nat, m \in S PROVE m + 1 \in S
  <2>1. SUFFICES ASSUME m + 1 <= Len(log)
                 PROVE f[m + 1] = NoValue \/ ChildLawful(f[m + 1], log, m + 1, expected, parent)
    OBVIOUS
  <2>2. f[m + 1] = IF f[m] = NoValue THEN NoValue
                   ELSE ChildReadLine(f[m], log, m + 1, expected, parent)
    BY <1>1, <2>1 DEF ChildReading
  <2>3. f[m] = NoValue \/ ChildLawful(f[m], log, (m + 1) - 1, expected, parent)
    BY <1>3, <2>1
  <2>4. m + 1 \in 1 .. Len(log)
    BY <2>1
  <2> QED BY <2>2, <2>3, <2>4, ChildReadLineIsLawful
<1>4. Nat \subseteq S
  BY <1>2, <1>3, Induction
<1> QED BY <1>1, <1>4
----------------------------------------------------------------------------
(* A process that nothing has failed yet, in the terms of its invariant.   *)
LEMMA Standing ==
  ASSUME JournalInv, Clean
  PROVE  /\ wpc \notin {"blocked", "idle"} /\ ~torn /\ error = NoValue /\ ~crashed
         /\ input = Todo /\ limit \in Limits /\ limit \in Nat /\ deadline \in BOOLEAN
         /\ Len(input) \in Nat /\ Len(input) > 0 /\ input \in Seq(ScenarioIds)
         /\ taken \in Nat /\ taken <= Len(input) /\ next = taken
         /\ sequence \in Nat /\ Calls \in Nat
         /\ Len(lines) = sequence + (IF wpc = "sync" THEN 1 ELSE 0)
         /\ Before \/ Inside => pc = "calling" /\ event.target = current
                                  /\ (IsParent \/ current # Baseline)
         /\ wpc = "restore" => ~IsParent /\ pc = "calling" /\ current = Baseline
         /\ wpc = "evaluate" => pc # "calling"
         /\ IsParent /\ (baseline = NoValue \/ current = Baseline) => taken = 0
         /\ pc = "calling" => current \in ScenarioIds \cup {Baseline}
         /\ pc \in {"admit", "clock", "token", "step", "calling", "progress", "report", "done"}
<1>1. wpc # "blocked" /\ ~torn /\ error = NoValue /\ ~crashed /\ wpc # "idle"
  BY DEF JournalInv, Position, Clean
<1>2. /\ input = Todo /\ limit \in Limits /\ deadline \in BOOLEAN
      /\ taken \in Nat /\ taken <= Len(input) /\ sequence \in Nat
      /\ pc = "calling" => current \in ScenarioIds \cup {Baseline}
      /\ pc \in {"admit", "clock", "token", "step", "calling", "progress", "report", "done"}
  BY <1>1 DEF JournalInv, ProcessType, Targets
<1>3. Todo \in Seq(ScenarioIds) /\ Len(Todo) \in Nat /\ Len(Todo) > 0
  <2>1. Len(Todo) \in 1 .. Len(Scenarios) /\ Len(Scenarios) \in Nat /\ Todo \in Seq(ScenarioIds)
    BY TodoIsBounded, ScenariosAssumption DEF JournalInv
  <2> QED BY <2>1
<1>4. /\ next = taken
      /\ Before \/ Inside => pc = "calling" /\ event.target = current
                               /\ (IsParent \/ current # Baseline)
      /\ wpc = "restore" => ~IsParent /\ pc = "calling" /\ current = Baseline
      /\ wpc = "evaluate" => pc # "calling"
      /\ IsParent /\ (baseline = NoValue \/ current = Baseline) => taken = 0
  BY DEF JournalInv, InStep
<1>5. Len(lines) = sequence + (IF wpc = "sync" THEN 1 ELSE 0)
  BY <1>1 DEF JournalInv, Filed
<1>6. limit \in Nat
  BY <1>2, ValuesAssumption
<1>7. Calls \in Nat
  BY Numbers
<1> QED BY <1>1, <1>2, <1>3, <1>4, <1>5, <1>6, <1>7

(* Nothing is mended: only a continuation that starts had not begun well.  *)
LEMMA CleanBefore ==
  ASSUME [Next]_vars, Clean'
  PROVE  Starts \/ (Clean /\ Moves)
<1>1. Moves
  BY StepsMove
<1>2. ~crashed' /\ error' = NoValue /\ wpc' # "idle"
  BY DEF Clean
<1>3. CASE Rests
  BY <1>1, <1>2, <1>3 DEF Rests, Clean
<1>4. CASE ~Starts /\ ~Rests
  <2>1. ~crashed
    BY <1>1, <1>4 DEF Moves
  <2>2. wpc # "idle"
    BY <1>1, <1>2, <1>4 DEF Moves, Evaluates, IntendsBaseline, IntendsScenario, CallsRestored,
       ReturnsRestored, Invokes, EngineAnswers, Records, Answers, AnswersBlocked, Closes,
       EmitsNothing, Writes, Syncs, SyncFails, Dies
  <2>3. error = NoValue
    BY <1>1, <1>2, <1>4, ValuesAssumption DEF Moves, Evaluates, IntendsBaseline, IntendsScenario, CallsRestored,
       ReturnsRestored, Invokes, EngineAnswers, Records, Answers, AnswersBlocked, Closes,
       EmitsNothing, Writes, Syncs, SyncFails, Dies
  <2> QED BY <1>1, <2>1, <2>2, <2>3 DEF Clean
<1> QED BY <1>1, <1>3, <1>4

(* Every step keeps what the evaluator holds in line with its position.    *)
LEMMA EvaluatedKept ==
  ASSUME JournalInv, Evaluated, [Next]_vars
  PROVE  Evaluated'
<1>0. NoValue \notin {"contract", "storage"} /\ NoValue # Baseline /\ NoValue \notin Signatures
      /\ Baseline \notin ScenarioIds
  BY ValuesAssumption, ScenariosAssumption
<1> USE DEF process, controls, report
<1>1. CASE Starts
  <2>1. /\ outcomes' = <<>> /\ baseline' = NoValue /\ taken' = 0 /\ pc' = "admit"
        /\ status' = [kind |-> "Completed"] /\ limit' \in Nat /\ ~IsParent'
    BY <1>1, ValuesAssumption DEF Starts, IsParent
  <2> QED BY <2>1 DEF Evaluated
<1>2. SUFFICES ASSUME Clean, Clean', ~Starts PROVE Evaluated'
  BY <1>1, CleanBefore DEF Evaluated
<1>3. /\ outcomes \in Seq([scenario : ScenarioIds, signature : Signatures])
      /\ IsParent => baseline \in Signatures \cup {NoValue}
      /\ Len(outcomes) \in Nat /\ Len(outcomes) <= limit
      /\ pc \notin {"report", "done"} => status.kind = "Completed"
      /\ pc \notin {"calling", "report", "done"} => Len(outcomes) = taken
      /\ pc = "step" => taken = Len(input) \/ taken < limit
  BY <1>2 DEF Evaluated
<1>4. pc = "calling" =>
         /\ current = Baseline => Len(outcomes) = taken
         /\ current # Baseline => Len(outcomes) + 1 = taken /\ taken <= limit
         /\ IsParent => limit # 0 /\ (current = Baseline <=> baseline = NoValue)
  BY <1>2 DEF Evaluated
<1>5. pc \in {"report", "done"} =>
         /\ status.kind = "Completed" =>
              baseline # NoValue /\ Len(outcomes) = taken /\ taken = Len(input)
         /\ status.kind = "Interrupted" =>
              /\ Len(outcomes) = taken
              /\ status.reason = "DeadlineReached" => deadline
              /\ status.reason = "EvaluationLimitReached" =>
                   Len(outcomes) = limit /\ taken # Len(input)
         /\ status.kind \in {"Completed", "Interrupted", "EngineFailed", "DuplicateScenarioId"}
         /\ status.kind = "EngineFailed" =>
              status.scenario \in ScenarioIds \/ (status.scenario = NoValue /\ IsParent)
  BY <1>2 DEF Evaluated
<1>6. /\ wpc \notin {"blocked", "idle"} /\ error = NoValue
      /\ limit \in Nat /\ Len(input) \in Nat /\ Len(input) > 0 /\ taken \in Nat /\ taken <= Len(input)
      /\ input \in Seq(ScenarioIds)
      /\ wpc = "answer" => pc = "calling" /\ (IsParent \/ current # Baseline)
      /\ wpc = "restore" => ~IsParent /\ pc = "calling" /\ current = Baseline
      /\ IsParent /\ (baseline = NoValue \/ current = Baseline) => taken = 0
      /\ pc = "calling" => current \in ScenarioIds \cup {Baseline}
  BY <1>2, Standing DEF Inside
<1>7. Moves
  BY <1>2, CleanBefore
<1>8. CASE UNCHANGED <<role, input, limit, deadline, pc, baseline, outcomes, taken, status, current>>
  BY <1>8, <1>3, <1>4, <1>5 DEF Evaluated, IsParent
<1>9. CASE Evaluates
  <2>0. UNCHANGED <<role, input, limit, deadline, baseline, outcomes, taken, current>>
    BY <1>9 DEF Evaluates
  <2>1. CASE pc = "token" /\ pc' = "report" /\ Interruption
    <3>1. PICK reason \in Reasons :
            /\ status' = [kind |-> "Interrupted", reason |-> reason]
            /\ reason = "DeadlineReached" => deadline
            /\ reason = "EvaluationLimitReached" => taken # Len(input) /\ Len(outcomes) >= limit
      BY <2>1 DEF Interruption
    <3>2. reason = "EvaluationLimitReached" => Len(outcomes) = limit
      BY <1>3, <1>6, <3>1
    <3>3. Len(outcomes) = taken
      BY <1>3, <2>1
    <3> QED BY <1>3, <2>0, <2>1, <3>1, <3>2, <3>3 DEF Evaluated, IsParent
  <2>2. CASE pc = "token" /\ pc' = "step" /\ UNCHANGED status
             /\ (taken = Len(input) \/ ~(Len(outcomes) >= limit))
    <3>1. taken = Len(input) \/ taken < limit
      BY <1>3, <1>6, <2>2
    <3> QED BY <1>3, <2>0, <2>2, <3>1 DEF Evaluated, IsParent
  <2>3. CASE pc = "admit" /\ pc' = "report" /\ status'.kind = "DuplicateScenarioId"
    BY <1>3, <2>0, <2>3 DEF Evaluated, IsParent
  <2>4. CASE UNCHANGED status /\ pc = "report" /\ pc' = "done"
    BY <1>3, <1>5, <2>0, <2>4 DEF Evaluated, IsParent
  <2>5. CASE UNCHANGED status /\ pc = "step" /\ pc' = "report" /\ baseline # NoValue /\ taken = Len(input)
    BY <1>3, <2>0, <2>5 DEF Evaluated, IsParent
  <2>6. CASE UNCHANGED status /\ pc \in {"admit", "clock", "progress"} /\ pc' \in {"clock", "token"}
    BY <1>3, <2>0, <2>6 DEF Evaluated, IsParent
  <2> QED BY <1>9, <2>1, <2>2, <2>3, <2>4, <2>5, <2>6 DEF Evaluates
<1>10. CASE IntendsBaseline
  <2>1. /\ IsParent /\ pc = "step" /\ baseline = NoValue /\ pc' = "calling" /\ current' = Baseline
        /\ UNCHANGED <<role, input, limit, deadline, baseline, outcomes, taken, status>>
    BY <1>10 DEF IntendsBaseline
  <2>2. limit # 0 /\ Len(outcomes) = taken
    BY <1>3, <1>6, <2>1
  <2> QED BY <1>3, <2>1, <2>2 DEF Evaluated, IsParent
<1>11. CASE IntendsScenario
  <2>1. /\ pc = "step" /\ baseline # NoValue /\ taken < Len(input) /\ taken' = taken + 1
        /\ pc' = "calling" /\ current' = input[taken + 1]
        /\ UNCHANGED <<role, input, limit, deadline, baseline, outcomes, status>>
    BY <1>11 DEF IntendsScenario
  <2>2. current' \in ScenarioIds /\ current' # Baseline
    BY <1>0, <1>6, <2>1
  <2>3. Len(outcomes) + 1 = taken' /\ taken' <= limit /\ limit # 0
    BY <1>3, <1>6, <2>1
  <2> QED BY <1>3, <2>1, <2>2, <2>3 DEF Evaluated, IsParent
<1>12. CASE CallsRestored
  <2>1. /\ ~IsParent /\ pc = "step" /\ pc' = "calling" /\ current' = Baseline
        /\ UNCHANGED <<role, input, limit, deadline, baseline, outcomes, taken, status>>
    BY <1>12 DEF CallsRestored
  <2> QED BY <1>3, <2>1 DEF Evaluated, IsParent
<1>13. CASE ReturnsRestored
  <2>1. /\ ~IsParent /\ wpc = "restore" /\ pc' = "progress" /\ current' = NoValue
        /\ UNCHANGED <<role, input, limit, deadline, outcomes, taken, status>>
    BY <1>13 DEF ReturnsRestored
  <2>2. Len(outcomes) = taken /\ status.kind = "Completed"
    BY <1>3, <1>4, <1>6, <2>1
  <2> QED BY <1>3, <2>1, <2>2 DEF Evaluated, IsParent
<1>14. CASE Answers
  <2>0. /\ pc = "calling" /\ wpc = "answer" /\ UNCHANGED <<role, input, limit, deadline, taken>>
    BY <1>14 DEF Answers
  <2>1. CASE /\ Result \in Signatures /\ current = Baseline /\ IsParent
             /\ pc' = "progress" /\ baseline' = Result /\ UNCHANGED <<outcomes, status>>
    <3>1. Len(outcomes) = taken
      BY <1>4, <2>0, <2>1
    <3> QED BY <1>3, <2>0, <2>1, <3>1 DEF Evaluated, IsParent
  <2>2. CASE /\ Result \in Signatures /\ current \in ScenarioIds
             /\ pc' = "progress"
             /\ outcomes' = Append(outcomes, [scenario |-> current, signature |-> Result])
             /\ UNCHANGED <<baseline, status>>
    <3>1. Len(outcomes) + 1 = taken /\ taken <= limit
      BY <1>0, <1>4, <2>0, <2>2
    <3>2. /\ outcomes' \in Seq([scenario : ScenarioIds, signature : Signatures])
          /\ Len(outcomes') = Len(outcomes) + 1
      BY <1>3, <2>2
    <3>3. Len(outcomes') = taken /\ Len(outcomes') <= limit
      BY <1>3, <1>6, <3>1, <3>2
    <3> QED BY <1>3, <2>0, <2>2, <3>2, <3>3 DEF Evaluated, IsParent
  <2>3. CASE /\ Result \notin Signatures /\ pc' = "report"
             /\ status' = [kind |-> "EngineFailed",
                           scenario |-> IF current = Baseline THEN NoValue ELSE current,
                           error |-> Result]
             /\ UNCHANGED <<baseline, outcomes>>
    <3>1. /\ status'.kind = "EngineFailed"
          /\ status'.scenario = IF current = Baseline THEN NoValue ELSE current
      BY <2>3
    <3>2. status'.scenario \in ScenarioIds \/ (status'.scenario = NoValue /\ IsParent)
      BY <1>6, <2>0, <3>1
    <3> QED BY <1>3, <2>0, <2>3, <3>1, <3>2 DEF Evaluated, IsParent
  <2> QED BY <1>14, <2>1, <2>2, <2>3 DEF Answers
<1>15. Evaluates \/ IntendsBaseline \/ IntendsScenario \/ CallsRestored \/ ReturnsRestored \/ Answers
       \/ UNCHANGED <<role, input, limit, deadline, pc, baseline, outcomes, taken, status, current>>
  BY <1>2, <1>6, <1>7 DEF Moves, AnswersBlocked, Invokes, EngineAnswers, Records, Closes, EmitsNothing,
     Writes, Syncs, SyncFails, Dies, Rests
<1> QED BY <1>8, <1>9, <1>10, <1>11, <1>12, <1>13, <1>14, <1>15
(* Entries are numbered and chained, and what is emitted is what is meant. *)
LEMMA ChainedKept ==
  ASSUME JournalInv, Chained, [Next]_vars
  PROVE  Chained'
<1> USE DEF process, controls, report, entry, file
<1>1. CASE Starts
  <2>1. JournalInv' /\ ~IsParent /\ ~IsParent' /\ wpc = "idle" /\ UNCHANGED plan
    BY <1>1, StartsKeeps DEF Starts, IsParent
  <2>2. PICK id \in RunIds, identity \in Identities, quota \in Limits, timed \in BOOLEAN :
          /\ id # plan.run /\ identity = plan.identity
          /\ limit' = quota /\ deadline' = timed /\ run' = id
          /\ event' = Initialized(ChildHeader(plan, id, identity, quota, timed))
    BY <1>1 DEF Starts
  <2>3. event' = Initialized(Heading)' /\ run' # plan'.run
    BY <2>1, <2>2 DEF Heading
  <2>4. event'.event = "Initialized" /\ wpc' = "emit" /\ sequence' = 0 /\ previous' = NoValue
    BY <1>1, <2>2 DEF Starts, Initialized
  <2> QED BY <2>3, <2>4 DEF Chained, Return, Emitting
<1>2. CASE ~Starts
  <2>1. UNCHANGED <<role, plan, run, limit, deadline>> /\ IsParent' = IsParent /\ (wpc' # "idle" => wpc # "idle")
    BY <1>2, StepsMove DEF Moves, Evaluates, IntendsBaseline, IntendsScenario, CallsRestored,
       ReturnsRestored, Invokes, EngineAnswers, Records, Answers, AnswersBlocked, Closes,
       EmitsNothing, Writes, Syncs, SyncFails, Dies, Rests, IsParent
  <2>2. wpc' # "idle" /\ ~IsParent' => run' # plan'.run
    BY <2>1 DEF Chained
  <2>3. SUFFICES ASSUME Clean'
                 PROVE  /\ previous' = IF sequence' = 0 THEN NoValue ELSE Digest(lines'[sequence'])
                        /\ wpc' = "sync" => lines'[sequence' + 1] = Entry(sequence', previous', event')
                        /\ Emitting' =>
                             /\ event'.event = "Initialized" => event' = Initialized(Heading)'
                             /\ Return' => event' = Returned(current)'
                             /\ event'.event = "Finished" => event' = Ending'
    BY <2>2 DEF Chained
  <2>4. Clean /\ Moves
    BY <1>2, <2>3, CleanBefore
  <2>5. /\ previous = IF sequence = 0 THEN NoValue ELSE Digest(lines[sequence])
        /\ wpc = "sync" => lines[sequence + 1] = Entry(sequence, previous, event)
        /\ Emitting =>
             /\ event.event = "Initialized" => event = Initialized(Heading)
             /\ Return => event = Returned(current)
             /\ event.event = "Finished" => event = Ending
    BY <2>4 DEF Chained
  <2>6. /\ wpc \notin {"blocked", "idle"} /\ ~torn /\ error = NoValue /\ ~crashed /\ sequence \in Nat
        /\ Len(lines) = sequence + (IF wpc = "sync" THEN 1 ELSE 0)
        /\ wpc = "returned" => event.target = current
    BY <2>4, Standing DEF Inside
  <2>7. Heading' = Heading
    BY <2>1 DEF Heading
  <2>8. lines \in Seq(Entries)
    BY DEF JournalInv, ProcessType
  <2>9. CASE wpc' \notin {"emit", "sync"} /\ UNCHANGED <<lines, sequence, previous>>
    BY <2>5, <2>9 DEF Emitting
  <2>10. CASE IntendsBaseline \/ IntendsScenario
    <3>1. event'.event = "CallStarted" \/ wpc' # "emit"
      BY <2>10 DEF IntendsBaseline, IntendsScenario, CallStarted
    <3>2. UNCHANGED <<lines, sequence, previous>> /\ wpc' # "sync"
      BY <2>10 DEF IntendsBaseline, IntendsScenario
    <3> QED BY <2>5, <3>1, <3>2 DEF Emitting, Return
  <2>11. CASE Records /\ wpc' = "emit"
    <3>1. event' = Returned(event.target) /\ UNCHANGED <<lines, sequence, previous, engine, current>>
      BY <2>6, <2>11 DEF Records
    <3>2. Returned(event.target)' = Returned(event'.target) /\ Returned(current)' = Returned(current)
      BY <3>1 DEF Returned, Result, Calls
    <3>3. event'.event \in {"CallSucceeded", "CallFailed"} /\ event' = Returned(current)
      BY <2>6, <2>11, <3>1 DEF Returned, CallSucceeded, CallFailed, Records
    <3> QED BY <2>5, <2>11, <3>1, <3>2, <3>3 DEF Emitting
  <2>12. CASE Closes
    <3>1. wpc' = "emit" => event' = Ending /\ Ending # NoValue
      BY <2>12 DEF Closes
    <3>2. UNCHANGED <<lines, sequence, previous, status>> /\ wpc' \in {"emit", "closed"}
      BY <2>12 DEF Closes
    <3>3. Ending' = Ending
      BY <3>2 DEF Ending
    <3>4. wpc' = "emit" => event'.event = "Finished"
      BY <3>1 DEF Ending, Finished
    <3> QED BY <2>5, <3>1, <3>2, <3>3, <3>4 DEF Emitting, Return
  <2>13. CASE Writes
    <3>1. /\ wpc = "emit" /\ UNCHANGED <<sequence, previous, event, engine, current, status>>
          /\ lines' = Append(lines, Entry(sequence, previous, event))
      BY <2>6, <2>13 DEF Writes
    <3>2. Len(lines) = sequence
      BY <2>6, <3>1
    <3>3. lines'[sequence + 1] = Entry(sequence, previous, event)
      BY <2>6, <2>8, <3>1, <3>2
    <3>4. sequence # 0 => lines'[sequence] = lines[sequence]
      BY <2>6, <2>8, <3>1, <3>2
    <3>5. Ending' = Ending /\ Returned(current)' = Returned(current) /\ Return' = Return
      BY <3>1 DEF Ending, Returned, Result, Calls, Return
    <3> QED BY <2>5, <2>7, <3>1, <3>3, <3>4, <3>5 DEF Emitting
  <2>14. CASE Syncs
    <3>1. /\ wpc = "sync" /\ sequence' = sequence + 1 /\ UNCHANGED <<lines, event>>
          /\ previous' = Digest(Entry(sequence, previous, event))
      BY <2>14 DEF Syncs
    <3>2. wpc' \notin {"emit", "sync"}
      <4>1. event \in Events
        BY <3>1 DEF JournalInv, ProcessType, Emitting
      <4> QED BY <2>14, <4>1 DEF Syncs, Resumed, Events
    <3> QED BY <2>5, <2>6, <3>1, <3>2 DEF Emitting
  <2>15. CASE Rests
    <3>1. UNCHANGED <<wpc, lines, sequence, previous, event, engine, current, status>>
      BY <2>15 DEF Rests
    <3>2. Ending' = Ending /\ Returned(current)' = Returned(current) /\ Return' = Return
      BY <3>1 DEF Ending, Returned, Result, Calls, Return
    <3> QED BY <2>5, <2>7, <3>1, <3>2 DEF Emitting
  <2> QED BY <1>2, <2>3, <2>4, <2>6, <2>9, <2>10, <2>11, <2>12, <2>13, <2>14, <2>15, ValuesAssumption
          DEF Moves, Evaluates, CallsRestored, ReturnsRestored, Invokes, EngineAnswers, Records,
              Answers, AnswersBlocked, EmitsNothing, SyncFails, Dies, Clean
<1> QED BY <1>1, <1>2
(* Every recorded return is that of its call.                              *)
LEMMA RecordedKept ==
  ASSUME JournalInv, Chained, Recorded, [Next]_vars
  PROVE  Recorded'
<1> USE DEF process, file, entry, controls, report
<1>0. /\ lines \in Seq(Entries) /\ engine \in Seq(EngineCalls) /\ Calls \in Nat /\ sequence \in Nat
      /\ Malformed \notin Entries
  BY Numbers, ValuesAssumption DEF JournalInv, ProcessType
<1>1. Moves
  BY StepsMove
<1>2. CASE UNCHANGED <<lines, engine>>
  BY <1>2 DEF Recorded, Calls
<1>3. CASE Invokes \/ EngineAnswers
  <2>1. ~crashed
    BY <1>1, <1>3 DEF Moves, Invokes, EngineAnswers, Starts, Rests, Evaluates, IntendsBaseline,
       IntendsScenario, CallsRestored, ReturnsRestored, Records, Answers, AnswersBlocked, Closes,
       EmitsNothing, Writes, Syncs, SyncFails, Dies
  <2>2. Clean
    BY <1>3, <2>1, OnTheWay DEF Invokes, EngineAnswers
  <2>3. SUFFICES ASSUME NEW k \in 1 .. Len(lines),
                        lines[k].event.event \in {"CallSucceeded", "CallFailed"}
                 PROVE  \E i \in 1 .. Calls' :
                          /\ k = 2 * i + 1
                          /\ engine'[i].target = lines[k].event.target
                          /\ engine'[i].result = Decode(lines[k].event.payload)
                          /\ engine'[i].result \in Values
                          /\ lines[k].event.event = "CallSucceeded" <=> engine'[i].result \in Signatures
    <3>1. UNCHANGED lines
      BY <1>3 DEF Invokes, EngineAnswers
    <3> QED BY <3>1 DEF Recorded, Values
  <2>4. PICK i \in 1 .. Calls :
          /\ k = 2 * i + 1
          /\ engine[i].target = lines[k].event.target
          /\ engine[i].result = Decode(lines[k].event.payload)
          /\ engine[i].result \in Values
          /\ lines[k].event.event = "CallSucceeded" <=> engine[i].result \in Signatures
    BY <2>3 DEF Recorded
  <2>5. CASE Invokes
    <3>1. engine' = Append(engine, [target |-> current, result |-> NoValue])
      BY <2>5 DEF Invokes
    <3>2. Calls' = Calls + 1 /\ engine'[i] = engine[i]
      BY <1>0, <3>1 DEF Calls
    <3>3. i \in 1 .. Calls'
      BY <1>0, <3>2
    <3> QED BY <2>4, <3>2, <3>3
  <2>6. CASE EngineAnswers
    <3>1. PICK value : engine' = [engine EXCEPT ![Calls].result = value]
      BY <2>6 DEF EngineAnswers
    <3>2. Len(lines) = 2 * Calls
      <4>1. sequence = 2 * Calls /\ wpc = "in engine"
        BY <2>2, <2>6 DEF JournalInv, Position, EngineAnswers
      <4>2. Len(lines) = sequence + 0
        BY <2>2, <4>1, Standing
      <4>3. sequence \in Nat
        BY <1>0
      <4>4. Len(lines) = sequence
        BY <4>2, <4>3
      <4> QED BY <4>1, <4>4
    <3>3. i # Calls
      BY <1>0, <2>4, <3>2
    <3>4. Calls' = Calls /\ engine'[i] = engine[i]
      BY <1>0, <3>1, <3>3 DEF Calls
    <3> QED BY <2>4, <3>4
  <2> QED BY <1>3, <2>5, <2>6
<1>4. CASE Writes
  <2>1. /\ wpc = "emit" /\ error = NoValue /\ UNCHANGED <<engine, event, current>>
        /\ lines' = Append(lines, IF torn THEN Malformed ELSE Entry(sequence, previous, event))
    BY <1>4 DEF Writes
  <2>2. ~crashed
    BY <1>1, <2>1, <1>4 DEF Moves, Writes, Starts, Rests
  <2>3. Clean
    BY <2>1, <2>2 DEF Clean
  <2>4. ~torn /\ Len(lines) = sequence + 0
    BY <2>1, <2>3, Standing
  <2>5. lines' = Append(lines, Entry(sequence, previous, event))
    BY <2>1, <2>4
  <2>6. /\ Len(lines') = sequence + 1 /\ lines'[sequence + 1] = Entry(sequence, previous, event)
        /\ \A k \in 1 .. sequence : lines'[k] = lines[k]
    BY <1>0, <2>4, <2>5
  <2>7. SUFFICES ASSUME NEW k \in 1 .. sequence + 1,
                        lines'[k].event.event \in {"CallSucceeded", "CallFailed"}
                 PROVE  \E i \in 1 .. Calls :
                          /\ k = 2 * i + 1
                          /\ engine[i].target = lines'[k].event.target
                          /\ engine[i].result = Decode(lines'[k].event.payload)
                          /\ engine[i].result \in Values
                          /\ lines'[k].event.event = "CallSucceeded" <=> engine[i].result \in Signatures
    <3>1. Calls' = Calls /\ engine' = engine /\ Len(lines') = sequence + 1
      BY <2>1, <2>6 DEF Calls
    <3> QED BY <3>1 DEF Recorded, Values
  <2>8. CASE k \in 1 .. sequence
    <3>1. lines'[k] = lines[k] /\ k \in 1 .. Len(lines)
      BY <1>0, <2>4, <2>6, <2>8
    <3> QED BY <2>7, <3>1 DEF Recorded
  <2>9. CASE k = sequence + 1
    <3>1. lines'[k].event = event /\ Return
      BY <2>6, <2>7, <2>9 DEF Entry, Return
    <3>2. sequence = 2 * Calls /\ Calls > 0 /\ Inside /\ event \in Events
      BY <2>1, <2>3, <3>1 DEF JournalInv, Position, Emitting, Inside, ProcessType
    <3>3. event = Returned(current)
      BY <2>1, <2>3, <3>1 DEF Chained, Emitting
    <3>4. /\ current = Due(Calls)
          /\ \A i \in DOMAIN engine : engine[i].target = Due(i)
      BY <2>3, <3>2 DEF JournalInv, InStep, Filed
    <3>5. Calls \in 1 .. Calls /\ Calls \in DOMAIN engine
      BY <1>0, <3>2 DEF Calls
    <3>6. event.target = current /\ event.payload = [encoded |-> Result]
          /\ (event.event = "CallSucceeded" <=> Result \in Signatures)
      BY <3>3 DEF Returned, CallSucceeded, CallFailed, Encode
    <3>7. Result \in Values
      <4>1. event.payload \in Payloads
        BY <3>1, <3>2 DEF Return, Events
      <4> QED BY <3>6, <4>1 DEF Payloads, Values
    <3>8. k = 2 * Calls + 1
      BY <1>0, <2>9, <3>2
    <3> QED BY <3>1, <3>4, <3>5, <3>6, <3>7, <3>8 DEF Result, Decode
  <2>10. k \in 1 .. sequence \/ k = sequence + 1
    BY <1>0
  <2> QED BY <2>8, <2>9, <2>10, Zenon
<1>5. CASE lines' = SubSeq(lines, 1, Len(lines) - 1) /\ UNCHANGED engine /\ Len(lines) > 0
  <2>0. PICK n \in Nat : Len(lines) = n + 1
    <3>1. Len(lines) \in Nat /\ Len(lines) - 1 \in Nat /\ Len(lines) = (Len(lines) - 1) + 1
      BY <1>0, <1>5
    <3> QED BY <3>1
  <2>1. /\ Len(lines') = Len(lines) - 1 /\ \A k \in 1 .. Len(lines) - 1 : lines'[k] = lines[k]
        /\ Len(lines) \in Nat
    <3>1. n <= Len(lines) /\ Len(lines) - 1 = n /\ lines' = SubSeq(lines, 1, n)
      BY <1>5, <2>0
    <3> QED BY <1>0, <2>0, <3>1
  <2>2. \A k \in 1 .. Len(lines) - 1 : k \in 1 .. Len(lines)
    BY <2>1
  <2> QED BY <1>5, <2>1, <2>2, SMTT(30) DEF Recorded, Calls
<1>6. wpc = "sync" /\ ~crashed => Len(lines) > 0
  <2>1. wpc = "sync" /\ ~crashed => Clean
    BY OnTheWay
  <2>2. wpc = "sync" /\ ~crashed => Len(lines) = sequence + 1
    BY <2>1, Standing
  <2> QED BY <1>0, <2>2
<1> QED BY <1>1, <1>2, <1>3, <1>4, <1>5, <1>6 DEF Moves, Evaluates, IntendsBaseline, IntendsScenario,
   CallsRestored, ReturnsRestored, Records, Answers, AnswersBlocked, Closes, EmitsNothing, Syncs,
   SyncFails, Dies, Starts, Rests
(* What a step that writes nothing does not change in what the file says.  *)
LEMMA KnownKept ==
  ASSUME JournalInv, Evaluated, Clean, Clean', Moves, ~Writes, ~Starts, NEW l, Known(l)
  PROVE  Known(l)'
<1> USE DEF process, controls, report, file, entry
<1>0. /\ NoValue \notin {"contract", "storage"} /\ NoValue # Baseline /\ NoValue \notin Signatures
      /\ Baseline \notin ScenarioIds /\ NoValue \notin ScenarioIds
  BY ValuesAssumption, ScenariosAssumption
<1>1. /\ wpc \notin {"blocked", "idle"} /\ error = NoValue /\ ~crashed /\ ~crashed' /\ error' = NoValue
      /\ next = taken /\ taken \in Nat /\ input \in Seq(ScenarioIds) /\ taken <= Len(input)
      /\ pc = "calling" => current \in ScenarioIds \cup {Baseline}
      /\ IsParent /\ (baseline = NoValue \/ current = Baseline) => taken = 0
      /\ wpc \in {"answer", "engine", "in engine", "returned"} => pc = "calling"
      /\ wpc = "answer" => IsParent \/ current # Baseline
  BY Standing DEF Clean, Inside, Before
<1>n. taken \in Nat /\ Len(input) \in Nat
  BY Standing
<1>2. /\ pc \notin {"report", "done"} => status.kind = "Completed"
      /\ Len(outcomes) \in Nat
      /\ outcomes \in Seq([scenario : ScenarioIds, signature : Signatures])
      /\ pc = "calling" /\ IsParent => (current = Baseline <=> baseline = NoValue)
      /\ IsParent => baseline \in Signatures \cup {NoValue}
  BY DEF Evaluated
<1>3. UNCHANGED <<role, plan, run, limit, deadline, lines>> /\ IsParent' = IsParent
  BY <1>1 DEF Moves, Evaluates, IntendsBaseline, IntendsScenario, CallsRestored,
     ReturnsRestored, Invokes, EngineAnswers, Records, Answers, AnswersBlocked, Closes,
     EmitsNothing, Syncs, SyncFails, Dies, Rests, IsParent
<1>4. Heading' = Heading
  BY <1>3 DEF Heading
<1>5. /\ l.header = Heading
      /\ l.active = IF Open THEN current ELSE NoValue
      /\ l.failed = Failure
      /\ l.terminal = IF Ended THEN Ending ELSE NoValue
      /\ l.successful = Len(outcomes) + (IF Gained /\ current # Baseline THEN 1 ELSE 0)
      /\ IsParent =>
           /\ l.baseline <=> baseline # NoValue \/ Gained
           /\ l.started = taken - (IF Announced THEN 1 ELSE 0)
  BY DEF Known
<1>6. CASE Evaluates
  <2>1. /\ wpc = "evaluate" /\ wpc' = "evaluate" /\ UNCHANGED <<outcomes, baseline, taken>>
    BY <1>6 DEF Evaluates
  <2>2. /\ ~Open /\ ~Open' /\ ~Answered /\ ~Answered' /\ ~Ended /\ ~Ended' /\ ~Announced /\ ~Announced'
    BY <2>1 DEF Open, Answered, Ended, Announced
  <2>3. UNCHANGED status \/ (status.kind = "Completed" /\ status'.kind # "EngineFailed")
    BY <1>2, <1>6 DEF Evaluates, Interruption
  <2>4. Failure' = Failure
    BY <2>2, <2>3 DEF Failure
  <2>5. ~Gained /\ ~Gained'
    BY <2>2 DEF Gained
  <2> QED BY <1>3, <1>4, <1>5, <2>1, <2>2, <2>4, <2>5 DEF Known
<1>7. CASE IntendsBaseline \/ IntendsScenario \/ CallsRestored \/ ReturnsRestored
  <2>1. /\ wpc \in {"evaluate", "restore"} /\ wpc' \in {"emit", "restore", "evaluate"}
        /\ UNCHANGED <<outcomes, status>> /\ (IsParent => UNCHANGED baseline)
        /\ wpc' = "emit" => event'.event = "CallStarted"
    <3>1. CASE IntendsBaseline
      BY <3>1 DEF IntendsBaseline, CallStarted
    <3>2. CASE IntendsScenario
      BY <1>0, <1>1, <3>2 DEF IntendsScenario, CallStarted
    <3>3. CASE CallsRestored \/ ReturnsRestored
      BY <3>3 DEF CallsRestored, ReturnsRestored
    <3> QED BY <1>7, <3>1, <3>2, <3>3
  <2>2. /\ ~Open /\ ~Open' /\ ~Answered /\ ~Answered' /\ ~Ended /\ ~Ended' /\ ~Announced
    BY <2>1 DEF Open, Answered, Ended, Announced, Return
  <2>3. Failure' = Failure
    BY <2>1, <2>2 DEF Failure
  <2>4. ~Gained /\ ~Gained'
    BY <2>2 DEF Gained
  <2>5. IsParent => taken' - (IF Announced' THEN 1 ELSE 0) = taken
    <3>1. CASE IntendsBaseline
      <4>1. ~Announced' /\ taken' = taken
        BY <3>1 DEF IntendsBaseline, Announced
      <4>2. taken' - 0 = taken
        <5>1. taken' = taken
          BY <4>1
        <5> QED BY <1>n, <5>1
      <4> QED BY <4>1, <4>2
    <3>2. CASE IntendsScenario
      <4>1. wpc' = "emit" /\ taken' = taken + 1 /\ current' = input[taken + 1] /\ taken < Len(input)
        BY <1>0, <1>1, <3>2 DEF IntendsScenario
      <4>2. current' \in ScenarioIds
        <5>1. taken < Len(input)
          BY <4>1
        <5>2. taken + 1 \in 1 .. Len(input)
          BY <1>n, <5>1
        <5>3. input[taken + 1] \in ScenarioIds
          <6>1. input \in Seq(ScenarioIds)
            BY <1>1
          <6> QED BY <5>2, <6>1
        <5> QED BY <4>1, <5>3
      <4>3. Announced'
        BY <1>0, <2>1, <4>1, <4>2 DEF Announced, Intent
      <4>4. taken' - 1 = taken
        <5>1. taken' = taken + 1
          BY <4>1
        <5> QED BY <1>n, <5>1
      <4> QED BY <4>3, <4>4
    <3> QED BY <1>7, <3>1, <3>2 DEF CallsRestored, ReturnsRestored
  <2>6. IsParent => l.started = taken
    <3>1. taken - 0 = taken
      BY <1>n
    <3>2. IsParent => l.started = taken - 0
      BY <1>5, <2>2
    <3> QED BY <3>1, <3>2
  <2> QED BY <1>3, <1>4, <1>5, <2>1, <2>2, <2>3, <2>4, <2>5, <2>6 DEF Known
<1>8. CASE Invokes \/ EngineAnswers \/ (Records /\ wpc' = "emit")
  <2>1. /\ wpc \in {"engine", "in engine", "returned"}
        /\ wpc' \in {"in engine", "returned"} \/ (wpc' = "emit" /\ Return')
        /\ UNCHANGED <<outcomes, status, baseline, taken, current>>
    <3>1. CASE Invokes \/ EngineAnswers
      BY <3>1 DEF Invokes, EngineAnswers
    <3>2. CASE Records /\ wpc' = "emit"
      <4>1. event' = Returned(event.target) /\ wpc = "returned"
        BY <3>2 DEF Records
      <4>2. Return'
        BY <4>1 DEF Returned, CallSucceeded, CallFailed, Return
      <4> QED BY <3>2, <4>1, <4>2 DEF Records
    <3> QED BY <1>8, <3>1, <3>2
  <2>2. /\ Open /\ Open' /\ ~Answered /\ ~Answered' /\ ~Ended /\ ~Ended' /\ ~Announced /\ ~Announced'
    BY <2>1 DEF Open, Answered, Ended, Announced, Return, Intent
  <2>3. Failure' = Failure
    BY <2>1, <2>2 DEF Failure
  <2>4. ~Gained /\ ~Gained'
    BY <2>2 DEF Gained
  <2> QED BY <1>3, <1>4, <1>5, <2>1, <2>2, <2>3, <2>4 DEF Known
<1>9. CASE Answers
  <2>1. /\ wpc = "answer" /\ pc = "calling" /\ wpc' = "evaluate" /\ UNCHANGED taken
        /\ \/ /\ Result \in Signatures /\ current = Baseline /\ IsParent
              /\ baseline' = Result /\ UNCHANGED <<outcomes, status>>
           \/ /\ Result \in Signatures /\ current \in ScenarioIds
              /\ outcomes' = Append(outcomes, [scenario |-> current, signature |-> Result])
              /\ UNCHANGED <<baseline, status>>
           \/ /\ Result \notin Signatures
              /\ status' = [kind |-> "EngineFailed",
                            scenario |-> IF current = Baseline THEN NoValue ELSE current,
                            error |-> Result]
              /\ UNCHANGED <<baseline, outcomes>>
    BY <1>9 DEF Answers
  <2>2. /\ ~Open /\ ~Open' /\ Answered /\ ~Answered' /\ ~Ended /\ ~Ended' /\ ~Announced /\ ~Announced'
    BY <2>1 DEF Open, Answered, Ended, Announced
  <2>3. (Gained <=> Result \in Signatures) /\ ~Gained'
    BY <2>2 DEF Gained
  <2>4. /\ status.kind = "Completed" /\ current \in ScenarioIds \cup {Baseline}
        /\ IsParent => (current = Baseline <=> baseline = NoValue)
        /\ IsParent \/ current # Baseline
    BY <1>1, <1>2, <2>1
  <2>5. Failure' = Failure
    BY <1>0, <2>1, <2>2, <2>4 DEF Failure
  <2>6. Len(outcomes') = Len(outcomes) + (IF Gained /\ current # Baseline THEN 1 ELSE 0)
    BY <1>0, <1>2, <2>1, <2>3
  <2>7. IsParent => ((baseline' # NoValue) <=> (baseline # NoValue \/ Gained))
    BY <1>0, <2>1, <2>3, <2>4
  <2>8. l.successful = Len(outcomes') + 0
    BY <1>2, <1>5, <2>6
  <2> QED BY <1>3, <1>4, <1>5, <2>1, <2>2, <2>3, <2>5, <2>7, <2>8 DEF Known
<1>10. CASE Closes
  <2>1. /\ wpc = "evaluate" /\ wpc' = "emit" /\ UNCHANGED <<outcomes, status, baseline, taken, current>>
        /\ event' = Ending /\ Ending # NoValue
    BY <1>0, <1>1, <1>10 DEF Closes
  <2>2. event'.event = "Finished"
    BY <2>1 DEF Ending, Finished
  <2>3. /\ ~Open /\ ~Open' /\ ~Answered /\ ~Answered' /\ ~Ended /\ ~Ended' /\ ~Announced /\ ~Announced'
    BY <2>1, <2>2 DEF Open, Answered, Ended, Announced, Return, Intent
  <2>4. Failure' = Failure
    BY <2>1, <2>3 DEF Failure
  <2>5. ~Gained /\ ~Gained'
    BY <2>3 DEF Gained
  <2> QED BY <1>3, <1>4, <1>5, <2>1, <2>3, <2>4, <2>5 DEF Known
<1>11. CASE Syncs
  <2>1. /\ wpc = "sync" /\ UNCHANGED <<outcomes, status, baseline, taken, current, event, engine>>
        /\ wpc' = Resumed(TRUE)
    BY <1>11 DEF Syncs
  <2>2. event \in Events
    BY <2>1 DEF JournalInv, ProcessType, Emitting
  <2>3. /\ event.event = "Initialized" => wpc' = "evaluate"
        /\ Intent => wpc' = "engine"
        /\ Return => wpc' = "answer"
        /\ event.event = "Finished" => wpc' = "closed"
        /\ event.event = "Initialized" \/ Intent \/ Return \/ event.event = "Finished"
    BY <2>1, <2>2 DEF Resumed, Events, Intent, Return
  <2>4. /\ (Open' <=> Open) /\ (Answered' <=> Answered) /\ (Ended' <=> Ended)
        /\ ~Announced /\ ~Announced' /\ Result' = Result
    BY <2>1, <2>3 DEF Open, Answered, Ended, Announced, Return, Intent, Result, Calls
  <2>5. Failure' = Failure /\ (Gained' <=> Gained) /\ Ending' = Ending
    BY <2>1, <2>4 DEF Failure, Gained, Ending
  <2> QED BY <1>3, <1>4, <1>5, <2>1, <2>4, <2>5 DEF Known
<1>12. CASE Rests
  <2>1. UNCHANGED <<wpc, outcomes, status, baseline, taken, current, event, engine>>
    BY <1>12 DEF Rests
  <2>2. /\ (Open' <=> Open) /\ (Answered' <=> Answered) /\ (Ended' <=> Ended)
        /\ (Announced <=> Announced') /\ Result' = Result
    BY <2>1 DEF Open, Answered, Ended, Announced, Return, Intent, Result, Calls
  <2>3. Failure' = Failure /\ (Gained' <=> Gained) /\ Ending' = Ending
    BY <2>1, <2>2 DEF Failure, Gained, Ending
  <2> QED BY <1>3, <1>4, <1>5, <2>1, <2>2, <2>3 DEF Known
<1> QED BY <1>0, <1>1, <1>6, <1>7, <1>8, <1>9, <1>10, <1>11, <1>12 DEF Moves, AnswersBlocked, Records,
   EmitsNothing, SyncFails, Dies
----------------------------------------------------------------------------
(* The next line of a run's file is one its inspector accepts.             *)

(* The longest lifecycle leaves room for a terminal entry.                 *)
LEMMA RoomInRun ==
  ASSUME NEW l, NEW log, NEW k \in Nat, k > 0, Lawful(l, log, k), l.terminal = NoValue
  PROVE  k + 1 <= MaxEntries
<1>1. /\ k + (IF l.active # NoValue THEN 1 ELSE 0) = 2 * Called(l) + 1 + 0
      /\ l.started \in Nat /\ l.started <= Len(Scenarios)
  BY DEF Lawful, Lifecycles
<1>2. Called(l) \in Nat /\ Called(l) <= l.started + 1
  BY <1>1 DEF Called
<1>3. k <= 2 * Called(l) + 1
  BY <1>1, <1>2
<1>4. Len(Scenarios) \in Nat /\ Len(Scenarios) <= MaxScenarios /\ MaxScenarios \in Nat
  BY ScenariosAssumption
<1> QED BY <1>1, <1>2, <1>3, <1>4 DEF MaxEntries

(* There is room in the journal of a continuation for every line it may    *)
(* write.                                                                  *)
LEMMA RoomInContinuation ==
  ASSUME NEW c, NEW log, NEW k \in Nat, k > 0, NEW expected, NEW parent,
         ChildLawful(c, log, k, expected, parent), c.terminal = NoValue,
         parent.successful \in 0 .. Len(Scenarios)
  PROVE  k + 1 <= MaxContinuationEntries
<1>1. /\ k = 2 * c.successful + 1 + (IF c.active # NoValue THEN 1 ELSE 0)
               + (IF c.failed # NoValue THEN 2 ELSE 0) + 0
      /\ c.successful + (IF c.active # NoValue \/ c.failed # NoValue THEN 1 ELSE 0)
            <= Len(c.header.remaining)
      /\ c.active = NoValue \/ c.failed = NoValue
      /\ c.successful \in Nat /\ HeaderMatches(c.header, expected, parent)
  BY DEF ChildLawful, ChildLifecycles
<1>2. Len(Scenarios) \in Nat /\ Len(Scenarios) <= MaxScenarios /\ MaxScenarios \in Nat
  BY ScenariosAssumption
<1>3. Len(c.header.remaining) \in Nat /\ Len(c.header.remaining) <= MaxScenarios
  <2>1. c.header.remaining = Suffix(parent.successful) /\ Scenarios \in Seq(ScenarioIds)
    BY <1>1, ScenariosAssumption DEF HeaderMatches
  <2>2. Len(Suffix(parent.successful)) = Len(Scenarios) - parent.successful
    BY <1>2, <2>1 DEF Suffix
  <2> QED BY <1>2, <2>1, <2>2
<1>4. k <= 2 * Len(c.header.remaining) + 1
  <2>1. CASE c.active # NoValue
    BY <1>1, <1>3, <2>1
  <2>2. CASE c.failed # NoValue
    BY <1>1, <1>3, <2>2
  <2>3. CASE c.active = NoValue /\ c.failed = NoValue
    BY <1>1, <1>3, <2>3
  <2> QED BY <2>1, <2>2, <2>3
<1> QED BY <1>2, <1>3, <1>4 DEF MaxContinuationEntries
(* What a written line is.                                                 *)
LEMMA LineIsWritten ==
  ASSUME JournalInv, Chained, ~crashed, Writes
  PROVE  /\ Clean /\ wpc = "emit" /\ wpc' = "sync" /\ event \in Events
         /\ UNCHANGED <<role, plan, input, limit, deadline, pc, baseline, outcomes, taken, status,
                        current, run, event, sequence, previous, error, next, engine, crashed>>
         /\ IsParent' = IsParent /\ sequence \in Nat /\ lines \in Seq(Entries)
         /\ Len(lines) = sequence /\ Len(lines') = sequence + 1
         /\ \A k \in 1 .. sequence : lines'[k] = lines[k]
         /\ lines' \in Seq(Entries)
         /\ LET line == lines'[sequence + 1]
            IN  /\ line # Malformed /\ line.sequence = sequence /\ line.event = event
                /\ line.previous = IF sequence = 0 THEN NoValue ELSE Digest(lines'[sequence])
         /\ event.event = "Initialized" => event = Initialized(Heading)
         /\ Intent => event = CallStarted(current)
         /\ Return => event = Returned(current)
         /\ event.event = "Finished" => event = Ending
<1>1. /\ wpc = "emit" /\ error = NoValue /\ wpc' = "sync"
      /\ UNCHANGED <<role, plan, input, limit, deadline, pc, baseline, outcomes, taken, status,
                     current, run, event, sequence, previous, error, next, engine, crashed>>
      /\ lines' = Append(lines, IF torn THEN Malformed ELSE Entry(sequence, previous, event))
  BY DEF Writes, process, controls, report, file, entry
<1>2. Clean
  BY <1>1 DEF Clean
<1>3. /\ event \in Events /\ sequence \in Nat /\ lines \in Seq(Entries)
      /\ previous \in {NoValue} \cup (Nat \X Events)
  BY <1>1 DEF JournalInv, ProcessType, Emitting
<1>4. ~torn /\ Len(lines) = sequence + 0
  BY <1>1, <1>2, Standing
<1>5. Entry(sequence, previous, event) \in Entries
  BY <1>3 DEF Entry, Entries
<1>6. lines' = Append(lines, Entry(sequence, previous, event)) /\ Len(lines) = sequence
  BY <1>1, <1>3, <1>4
<1>7. /\ Len(lines') = sequence + 1 /\ lines'[sequence + 1] = Entry(sequence, previous, event)
      /\ \A k \in 1 .. sequence : lines'[k] = lines[k]
      /\ lines' \in Seq(Entries)
  BY <1>3, <1>5, <1>6
<1>8. /\ previous = IF sequence = 0 THEN NoValue ELSE Digest(lines[sequence])
      /\ event.event = "Initialized" => event = Initialized(Heading)
      /\ Return => event = Returned(current)
      /\ event.event = "Finished" => event = Ending
  BY <1>1, <1>2 DEF Chained, Emitting
<1>9. Intent => event = CallStarted(current)
  <2>1. Intent => event.target = current
    BY <1>1, <1>2, Standing DEF Before, Emitting
  <2> QED BY <1>3, <2>1 DEF Intent, Events, CallStarted
<1>10. previous = IF sequence = 0 THEN NoValue ELSE Digest(lines'[sequence])
  <2>1. sequence # 0 => sequence \in 1 .. sequence
    BY <1>3
  <2> QED BY <1>7, <1>8, <2>1
<1>11. Entry(sequence, previous, event) # Malformed
  BY <1>5, ValuesAssumption
<1> QED BY <1>1, <1>2, <1>3, <1>6, <1>7, <1>8, <1>9, <1>10, <1>11 DEF Entry, IsParent

(* What is not in the file yet does not change while the file is written.  *)
LEMMA WritingChangesLittle ==
  ASSUME JournalInv, Chained, ~crashed, Writes
  PROVE  /\ Heading' = Heading /\ Ending' = Ending /\ Result' = Result
         /\ ~Answered /\ ~Ended /\ ~Gained /\ (Open <=> Return) /\ (Announced <=> Intent /\ current # Baseline)
         /\ (Open' <=> Intent) /\ (Answered' <=> Return) /\ (Ended' <=> event.event = "Finished")
         /\ ~Announced' /\ (Gained' <=> Return /\ Result \in Signatures)
<1>1. /\ wpc = "emit" /\ wpc' = "sync"
      /\ UNCHANGED <<role, plan, limit, deadline, status, current, run, event, engine>>
  BY LineIsWritten
<1>2. /\ Heading' = Heading /\ Ending' = Ending /\ Result' = Result /\ (Intent' <=> Intent)
      /\ (Return' <=> Return)
  BY <1>1 DEF Heading, IsParent, Ending, Result, Calls, Intent, Return
<1>3. ~Answered /\ ~Ended /\ (Open <=> Return) /\ (Announced <=> Intent /\ current # Baseline)
  BY <1>1 DEF Answered, Ended, Open, Announced
<1>4. /\ (Open' <=> Intent) /\ (Answered' <=> Return) /\ (Ended' <=> event.event = "Finished")
      /\ ~Announced'
  BY <1>1, <1>2 DEF Answered, Ended, Open, Announced
<1> QED BY <1>2, <1>3, <1>4 DEF Gained

(* A header is read as a lifecycle that has one.                           *)
LEMMA HeaderRead ==
  ASSUME NEW log, NEW header, log[1] # Malformed, log[1].sequence = 0, log[1].previous = NoValue,
         log[1].event.event = "Initialized", log[1].event.header = header,
         header.bundle = Scenarios
  PROVE  ReadLine(FreshLifecycle, log, 1) =
           [header |-> header, baseline |-> FALSE, started |-> 0, successful |-> 0,
            active |-> NoValue, failed |-> NoValue, terminal |-> NoValue]
<1>1. SUFFICES ASSUME NEW l, l = FreshLifecycle, NEW r, r = ReadLine(l, log, 1)
               PROVE  r = [header |-> header, baseline |-> FALSE, started |-> 0, successful |-> 0,
                           active |-> NoValue, failed |-> NoValue, terminal |-> NoValue]
  OBVIOUS
<1>2. 1 <= MaxEntries
  BY ScenariosAssumption DEF MaxEntries
<1>3. l.terminal = NoValue
  BY <1>1 DEF FreshLifecycle
<1>4. r = [l EXCEPT !.header = header]
  <2>1. log[1].sequence = 1 - 1 /\ ~(1 > MaxEntries)
    BY <1>2, ScenariosAssumption DEF MaxEntries
  <2> QED BY <1>1, <1>3, <2>1 DEF ReadLine
<1> QED BY <1>1, <1>4 DEF FreshLifecycle

(* The header of a run.                                                    *)
LEMMA HeaderOfRun ==
  ASSUME JournalInv, Chained, Evaluated, ~crashed, Writes, IsParent, event.event = "Initialized"
  PROVE  \E r : Read(lines)' = r /\ r # NoValue /\ Known(r)'
<1>1. /\ Clean /\ event = Initialized(Heading) /\ IsParent' /\ sequence \in Nat
      /\ Len(lines) = sequence /\ Len(lines') = sequence + 1
      /\ LET line == lines'[sequence + 1]
         IN  /\ line # Malformed /\ line.sequence = sequence /\ line.event = event
             /\ line.previous = IF sequence = 0 THEN NoValue ELSE Digest(lines'[sequence])
      /\ UNCHANGED <<baseline, taken, status, outcomes, current>> /\ wpc = "emit" /\ lines \in Seq(Entries)
  BY LineIsWritten
<1>2. sequence = 0 /\ Calls = 0 /\ pc = "admit"
  BY <1>1 DEF JournalInv, Position, Emitting
<1>3. lines = <<>> /\ Len(lines') = Len(lines) + 1
  BY <1>1, <1>2
<1>4. Calls = Behind
  BY <1>1, <1>2 DEF JournalInv, InStep
<1>5. taken = 0 /\ baseline = NoValue
  <2>1. taken \in Nat
    BY Numbers
  <2>2. 0 = taken + (IF IsParent /\ (baseline # NoValue \/ pc = "calling") THEN 1 ELSE 0)
    BY <1>2, <1>4 DEF Behind
  <2> QED BY <2>1, <2>2
<1>6. status.kind = "Completed" /\ Len(outcomes) = 0
  BY <1>1, <1>2, <1>5 DEF Evaluated
<1>7. LifecycleOf(lines') =
        IF LifecycleOf(lines) = NoValue THEN NoValue
        ELSE ReadLine(LifecycleOf(lines), lines', 0 + 1)
  <2>1. Len(lines) = 0
    BY <1>3
  <2>2. \A k \in 1 .. Len(lines) : lines'[k] = lines[k]
    BY <2>1
  <2> QED BY <1>3, <2>1, <2>2, ReadOn
<1>8. LifecycleOf(lines) = FreshLifecycle /\ FreshLifecycle # NoValue
  <2>1. FreshLifecycle \in Lifecycles
    BY DEF FreshLifecycle, Lifecycles
  <2> QED BY <1>3, <2>1, NothingRead, ValuesAssumption
<1>9. event.event = "Initialized" /\ event.header = Heading /\ Heading.bundle = Scenarios
  BY <1>1 DEF Initialized, Heading
<1>10. ReadLine(FreshLifecycle, lines', 1) =
         [header |-> Heading, baseline |-> FALSE, started |-> 0, successful |-> 0,
          active |-> NoValue, failed |-> NoValue, terminal |-> NoValue]
  <2>1. /\ lines'[1] # Malformed /\ lines'[1].sequence = 0 /\ lines'[1].previous = NoValue
        /\ lines'[1].event = event
    BY <1>1, <1>2
  <2> QED BY <1>9, <2>1, HeaderRead
<1>11. PICK r : r = [header |-> Heading, baseline |-> FALSE, started |-> 0, successful |-> 0,
                     active |-> NoValue, failed |-> NoValue, terminal |-> NoValue]
  OBVIOUS
<1>12. Read(lines)' = r
  <2>1. LifecycleOf(lines') = r
    BY <1>7, <1>8, <1>10, <1>11
  <2> QED BY <1>1, <2>1 DEF Read
<1>13. r # NoValue
  <2>1. Heading \in Headers \cup ChildHeaders
    <3>1. event \in Events
      BY LineIsWritten
    <3> QED BY <1>1, <3>1 DEF Events, Initialized
  <2>2. r \in Lifecycles
    BY <1>11, <2>1 DEF Lifecycles
  <2> QED BY <2>2, ValuesAssumption
<1>14. /\ Heading' = Heading /\ ~Open' /\ ~Answered' /\ ~Ended' /\ ~Announced' /\ ~Gained'
  BY WritingChangesLittle DEF Intent, Return
<1>15. Failure' = NoValue
  BY <1>1, <1>6, <1>14 DEF Failure
<1>16. /\ r.header = Heading /\ ~r.baseline /\ r.started = 0 /\ r.successful = 0
       /\ r.active = NoValue /\ r.failed = NoValue /\ r.terminal = NoValue
  BY <1>11
<1>17. taken' - 0 = 0 /\ Len(outcomes') + 0 = 0 /\ baseline' = NoValue
  BY <1>1, <1>5, <1>6
<1>18. Known(r)'
  BY <1>1, <1>14, <1>15, <1>16, <1>17 DEF Known
<1> QED BY <1>12, <1>13, <1>18
(* A later line of a run.                                                  *)
LEMMA LineOfRun ==
  ASSUME JournalInv, Chained, Evaluated, Agreement, ~crashed, Writes, IsParent,
         event.event # "Initialized"
  PROVE  \E r : Read(lines)' = r /\ r # NoValue /\ Known(r)'
<1>1. /\ Clean /\ IsParent' /\ sequence \in Nat /\ event \in Events /\ lines \in Seq(Entries)
      /\ Len(lines) = sequence /\ Len(lines') = sequence + 1 /\ wpc = "emit"
      /\ lines' \in Seq(Entries)
      /\ \A k \in 1 .. sequence : lines'[k] = lines[k]
      /\ LET line == lines'[sequence + 1]
         IN  /\ line # Malformed /\ line.sequence = sequence /\ line.event = event
             /\ line.previous = IF sequence = 0 THEN NoValue ELSE Digest(lines'[sequence])
      /\ UNCHANGED <<limit, deadline, baseline, taken, status, outcomes, current>>
  BY LineIsWritten
<1>2. /\ Intent => event = CallStarted(current)
      /\ Return => event = Returned(current)
      /\ event.event = "Finished" => event = Ending
      /\ Intent \/ Return \/ event.event = "Finished"
  BY <1>1, LineIsWritten DEF Events, Intent, Return
<1>3. sequence > 0 /\ (Intent => sequence = 2 * Calls + 1)
  <2>1. /\ Intent => sequence = 2 * Calls + 1
        /\ Return => sequence = 2 * Calls /\ Calls > 0
        /\ event.event = "Finished" => sequence = 2 * Calls + 1
    BY <1>1 DEF JournalInv, Position, Emitting
  <2>2. Calls \in Nat
    BY Numbers
  <2> QED BY <1>2, <2>1, <2>2
<1>4. lines # <<>>
  BY <1>1, <1>3
<1>5. PICK l : l = LifecycleOf(lines) /\ l # NoValue /\ Known(l)
  BY <1>1, <1>4 DEF Agreement, Read
<1>6. Lawful(l, lines, sequence)
  BY <1>1, <1>5, AcceptedIsLawful
<1>7. l \in Lifecycles
  BY <1>6 DEF Lawful
<1>8. /\ Heading' = Heading /\ Ending' = Ending /\ Result' = Result
      /\ ~Answered /\ ~Ended /\ ~Gained /\ (Open <=> Return) /\ (Announced <=> Intent /\ current # Baseline)
      /\ (Open' <=> Intent) /\ (Answered' <=> Return) /\ (Ended' <=> event.event = "Finished")
      /\ ~Announced' /\ (Gained' <=> Return /\ Result \in Signatures)
  BY WritingChangesLittle
<1>9. /\ l.header = Heading
      /\ l.active = IF Return THEN current ELSE NoValue
      /\ l.failed = Failure
      /\ l.terminal = NoValue
      /\ l.successful = Len(outcomes) + 0
      /\ l.baseline <=> baseline # NoValue
      /\ l.started = taken - (IF Intent /\ current # Baseline THEN 1 ELSE 0)
  BY <1>5, <1>8 DEF Known
<1>10. sequence + 1 <= MaxEntries
  BY <1>1, <1>3, <1>6, <1>9, RoomInRun
<1>11. /\ NoValue # Baseline /\ NoValue \notin ScenarioIds /\ Baseline \notin ScenarioIds
       /\ NoValue \notin Signatures
  BY ValuesAssumption, ScenariosAssumption
<1>12. /\ limit \in Nat /\ Len(input) \in Nat /\ taken \in Nat /\ taken <= Len(input)
       /\ input = Scenarios /\ (pc = "calling" => current \in ScenarioIds \cup {Baseline})
       /\ (baseline = NoValue \/ current = Baseline) => taken = 0
       /\ Intent \/ Return => pc = "calling"
  BY <1>1, Standing DEF Todo, Before, Inside, Emitting
<1>13. /\ Len(outcomes) \in Nat /\ Len(outcomes) <= limit
       /\ pc \notin {"report", "done"} => status.kind = "Completed"
       /\ pc = "calling" =>
            /\ current = Baseline => Len(outcomes) = taken
            /\ current # Baseline => Len(outcomes) + 1 = taken /\ taken <= limit
            /\ limit # 0 /\ (current = Baseline <=> baseline = NoValue)
  BY <1>1 DEF Evaluated
<1>14. PICK r : r = After(l, event)
  OBVIOUS
<1>15. ASSUME Accepts(l, event) PROVE Read(lines)' = r
  <2>1. LifecycleOf(lines') = ReadLine(l, lines', sequence + 1)
    BY <1>1, <1>5, ReadOn
  <2>2. /\ (sequence + 1) - 1 = sequence /\ sequence + 1 # 1 /\ ~(sequence + 1 > MaxEntries)
    BY <1>1, <1>3, <1>10, ScenariosAssumption DEF MaxEntries
  <2>3. /\ lines'[sequence + 1] # Malformed /\ lines'[sequence + 1].sequence = sequence
        /\ lines'[sequence + 1].event = event
        /\ lines'[sequence + 1].previous = Digest(lines'[sequence])
    BY <1>1, <1>3
  <2>4. ReadLine(l, lines', sequence + 1) = After(l, event)
    BY <1>9, <1>15, <2>2, <2>3 DEF ReadLine
  <2> QED BY <1>1, <1>14, <2>1, <2>4 DEF Read
<1>16. CASE Intent
  <2>1. /\ event.event = "CallStarted" /\ event.target = current /\ pc = "calling"
        /\ status.kind = "Completed" /\ ~Return
    BY <1>2, <1>12, <1>13, <1>16 DEF CallStarted, Intent, Return
  <2>2. Failure = NoValue
    BY <1>8, <2>1 DEF Failure
  <2>3. l.header.limit = limit
    BY <1>1, <1>9 DEF Heading
  <2>4. l.started = taken - (IF current # Baseline THEN 1 ELSE 0)
    BY <1>9, <1>16
  <2>5. CASE current = Baseline
    <3>1. taken = 0 /\ baseline = NoValue
      BY <1>12, <1>13, <2>1, <2>5
    <3>2. l.started = 0 /\ ~l.baseline
      BY <1>9, <2>4, <2>5, <3>1
    <3>3. Accepts(l, event)
      BY <1>9, <1>13, <2>1, <2>2, <2>3, <2>5, <3>2 DEF Accepts, StartAllowed
    <3>4. /\ r \in Lifecycles /\ r.header = l.header /\ r.baseline = l.baseline
          /\ r.started = l.started + 0 /\ r.successful = l.successful /\ r.active = current
          /\ r.failed = l.failed /\ r.terminal = l.terminal
      BY <1>1, <1>7, <1>14, <2>1, <2>5, AfterALine
    <3>5. taken' - 0 = r.started
      BY <1>1, <3>1, <3>2, <3>4
    <3>6. Failure' = NoValue
      BY <1>1, <1>8, <2>1 DEF Failure
    <3>7. Known(r)'
      BY <1>1, <1>8, <1>9, <1>16, <2>1, <2>2, <3>4, <3>5, <3>6 DEF Known
    <3> QED BY <1>15, <3>3, <3>4, <3>7, ValuesAssumption
  <2>6. CASE current # Baseline
    <3>1. baseline # NoValue /\ taken <= limit /\ taken > 0
      BY <1>12, <1>13, <2>1, <2>6
    <3>2. l.started + 1 = taken /\ l.baseline
      BY <1>9, <1>12, <2>4, <2>6, <3>1
    <3>3. l.started < limit /\ l.started < Len(Scenarios)
      BY <1>7, <1>12, <3>1, <3>2 DEF Lifecycles
    <3>4. Scenarios[l.started + 1] = current
      <4>1. current = Due(Calls + 1) /\ Calls + 1 = Behind /\ Calls \in Nat
        BY <1>1, <1>16, Numbers DEF JournalInv, InStep, Before, Emitting
      <4>2. Behind = taken + 1
        BY <3>1 DEF Behind
      <4>3. Calls = taken
        BY <1>12, <4>1, <4>2
      <4> QED BY <1>12, <3>1, <3>2, <4>1, <4>3 DEF Due
    <3>5. Accepts(l, event)
      BY <1>9, <1>13, <2>1, <2>2, <2>3, <2>6, <3>2, <3>3, <3>4 DEF Accepts, StartAllowed
    <3>6. /\ r \in Lifecycles /\ r.header = l.header /\ r.baseline = l.baseline
          /\ r.started = l.started + 1 /\ r.successful = l.successful /\ r.active = current
          /\ r.failed = l.failed /\ r.terminal = l.terminal
      BY <1>1, <1>7, <1>14, <2>1, <2>6, AfterALine
    <3>7. taken' - 0 = r.started
      BY <1>1, <1>12, <3>2, <3>6
    <3>8. Failure' = NoValue
      BY <1>1, <1>8, <2>1 DEF Failure
    <3>9. Known(r)'
      BY <1>1, <1>8, <1>9, <1>16, <2>1, <2>2, <3>6, <3>7, <3>8 DEF Known
    <3> QED BY <1>15, <3>5, <3>6, <3>9, ValuesAssumption
  <2> QED BY <2>5, <2>6
<1>17. CASE Return
  <2>1. /\ event = Returned(current) /\ pc = "calling" /\ status.kind = "Completed" /\ ~Intent
        /\ l.active = current /\ event.target = current
    BY <1>2, <1>9, <1>12, <1>13, <1>17 DEF Return, Intent, Returned, CallSucceeded, CallFailed
  <2>2. l.failed = NoValue
    BY <1>8, <1>9, <2>1 DEF Failure
  <2>3. Accepts(l, event)
    BY <1>17, <2>1 DEF Accepts, Return
  <2>4. taken' - 0 = l.started
    BY <1>1, <1>9, <1>12, <2>1
  <2>5. CASE Result \in Signatures
    <3>1. event.event = "CallSucceeded"
      BY <2>1, <2>5 DEF Returned, CallSucceeded
    <3>2. /\ r \in Lifecycles /\ r.header = l.header
          /\ (r.baseline <=> l.baseline \/ current = Baseline)
          /\ r.started = l.started
          /\ r.successful = l.successful + (IF current = Baseline THEN 0 ELSE 1)
          /\ r.active = NoValue /\ r.failed = l.failed /\ r.terminal = l.terminal
      BY <1>1, <1>7, <1>14, <2>1, <3>1, AfterALine
    <3>3. Failure' = NoValue
      BY <1>1, <1>8, <2>1, <2>5 DEF Failure
    <3>4. r.successful = Len(outcomes') + (IF current # Baseline THEN 1 ELSE 0)
      BY <1>1, <1>9, <1>13, <3>2
    <3>5. r.baseline
      BY <1>9, <1>13, <2>1, <3>2
    <3>6. Known(r)'
      BY <1>1, <1>8, <1>9, <1>17, <2>1, <2>2, <2>4, <2>5, <3>1, <3>2, <3>3, <3>4, <3>5 DEF Known
    <3> QED BY <1>15, <2>3, <3>2, <3>6, ValuesAssumption
  <2>6. CASE Result \notin Signatures
    <3>1. event.event = "CallFailed"
      BY <2>1, <2>6 DEF Returned, CallFailed
    <3>2. /\ r \in Lifecycles /\ r.header = l.header /\ r.baseline = l.baseline
          /\ r.started = l.started /\ r.successful = l.successful
          /\ r.active = NoValue /\ r.failed = current /\ r.terminal = l.terminal
      BY <1>1, <1>7, <1>14, <2>1, <3>1, AfterALine
    <3>3. Failure' = current
      BY <1>1, <1>8, <1>17, <2>6 DEF Failure
    <3>4. Known(r)'
      BY <1>1, <1>8, <1>9, <1>17, <2>1, <2>4, <2>6, <3>1, <3>2, <3>3 DEF Known
    <3> QED BY <1>15, <2>3, <3>2, <3>4, ValuesAssumption
  <2> QED BY <2>5, <2>6
<1>18. CASE event.event = "Finished"
  <2>1. event = Ending /\ pc = "done" /\ ~Intent /\ ~Return /\ event # NoValue
    BY <1>1, <1>2, <1>18, ValuesAssumption DEF JournalInv, Position, Emitting, Intent, Return
  <2>2. /\ l.active = NoValue /\ l.started = taken - 0 /\ l.successful = Len(outcomes)
        /\ l.failed = IF status.kind # "EngineFailed" THEN NoValue
                      ELSE IF status.scenario = NoValue THEN Baseline ELSE status.scenario
    BY <1>8, <1>9, <1>13, <2>1 DEF Failure
  <2>3. /\ status.kind = "Completed" =>
             baseline # NoValue /\ Len(outcomes) = taken /\ taken = Len(input)
        /\ status.kind = "Interrupted" =>
             /\ Len(outcomes) = taken
             /\ status.reason = "DeadlineReached" => deadline
             /\ status.reason = "EvaluationLimitReached" => Len(outcomes) = limit /\ taken # Len(input)
        /\ status.kind = "EngineFailed" => status.scenario \in ScenarioIds \/ status.scenario = NoValue
    BY <1>1, <2>1 DEF Evaluated
  <2>4. l.header.limit = limit /\ l.header.deadline = deadline /\ l.started = taken
    BY <1>1, <1>9, <1>12, <2>2 DEF Heading
  <2>5. FinishAllowed(l, event.terminal, event.reason)
    <3>1. CASE status.kind = "Completed"
      <4>1. event.terminal = "Completed"
        BY <2>1, <3>1 DEF Ending, Finished
      <4> QED BY <1>9, <1>12, <2>2, <2>3, <3>1, <4>1 DEF FinishAllowed
    <3>2. CASE status.kind = "Interrupted"
      <4>1. event.terminal = "Interrupted" /\ event.reason = status.reason
        BY <2>1, <3>2 DEF Ending, Finished
      <4> QED BY <1>9, <1>12, <2>2, <2>3, <2>4, <3>2, <4>1 DEF FinishAllowed
    <3>3. CASE status.kind = "EngineFailed"
      <4>1. event.terminal = "Failed"
        BY <2>1, <3>3 DEF Ending, Finished
      <4> QED BY <1>11, <2>2, <2>3, <3>3, <4>1 DEF FinishAllowed
    <3> QED BY <2>1, <3>1, <3>2, <3>3 DEF Ending
  <2>6. Accepts(l, event)
    BY <1>18, <2>5 DEF Accepts
  <2>7. /\ r \in Lifecycles /\ r.header = l.header /\ r.baseline = l.baseline
        /\ r.started = l.started /\ r.successful = l.successful /\ r.active = l.active
        /\ r.failed = l.failed /\ r.terminal = event
    BY <1>1, <1>7, <1>14, <1>18, AfterALine
  <2>8. Failure' = Failure /\ taken' - 0 = r.started
    BY <1>1, <1>8, <2>1, <2>2, <2>7 DEF Failure
  <2>9. Known(r)'
    BY <1>1, <1>8, <1>9, <1>18, <2>1, <2>2, <2>7, <2>8 DEF Known
  <2> QED BY <1>15, <2>6, <2>7, <2>9, ValuesAssumption
<1> QED BY <1>2, <1>16, <1>17, <1>18
----------------------------------------------------------------------------
(* The next line of a continuation's file is one its inspector accepts.    *)

(* What a continuation's reader knows of its parent.                       *)
LEMMA ParentIsKnown ==
  ASSUME plan \in Plans
  PROVE  /\ Prior.successful \in 0 .. Len(Scenarios) - 1
         /\ Prior.successful \in 0 .. Len(Scenarios)
         /\ plan.remaining = Suffix(Prior.successful) /\ Len(plan.restored) = Prior.successful
         /\ plan.run = plan.expected.run /\ plan.identity = plan.expected.identity
         /\ plan.log = plan.expected.log /\ plan.expected.semantics = "PureIndependent"
         /\ Anchored(Prior, plan.expected) /\ ParentAdmissible(Prior)
<1>1. /\ plan # NoValue /\ plan = Prepare(plan.log, plan.expected, plan.identity)
      /\ Len(plan.log.lines) \in Nat
  BY PlansAssumption, ValuesAssumption
<1>2. /\ Prior.successful \in 0 .. Len(Scenarios) - 1
      /\ plan.remaining = Suffix(Prior.successful) /\ Len(plan.restored) = Prior.successful
      /\ plan.run = plan.expected.run /\ plan.identity = plan.expected.identity
      /\ plan.log = plan.expected.log /\ plan.expected.semantics = "PureIndependent"
      /\ Anchored(Prior, plan.expected) /\ ParentAdmissible(Prior)
  BY <1>1, PreparedPlan DEF Prior
<1>3. Prior.successful \in 0 .. Len(Scenarios)
  BY <1>2, ScenariosAssumption
<1> QED BY <1>2, <1>3

(* The header a continuation writes is the one its inspector expects.      *)
LEMMA ChildHeaderMatches ==
  ASSUME plan \in Plans, run # plan.run, ~IsParent
  PROVE  /\ HeaderMatches(Heading, plan.expected, Prior) /\ Heading.remaining = plan.remaining
         /\ Heading.limit = limit /\ Heading.deadline = deadline
<1>1. /\ Heading.run = run /\ Heading.identity = plan.identity /\ Heading.restored = Len(plan.restored)
      /\ Heading.remaining = plan.remaining /\ Heading.limit = limit /\ Heading.deadline = deadline
      /\ Heading.parent = [run |-> plan.run, log |-> plan.log, expected |-> plan.expected]
  BY DEF Heading, ChildHeader
<1> QED BY <1>1, ParentIsKnown DEF HeaderMatches

(* The header of a continuation is accepted.                               *)
LEMMA HeaderOfContinuation ==
  ASSUME JournalInv, Chained, Evaluated, ~crashed, Writes, ~IsParent, event.event = "Initialized"
  PROVE  \E r : Read(lines)' = r /\ r # NoValue /\ Known(r)'
<1>1. /\ Clean /\ event = Initialized(Heading) /\ ~IsParent' /\ sequence \in Nat /\ event \in Events
      /\ Len(lines) = sequence /\ Len(lines') = sequence + 1 /\ lines \in Seq(Entries)
      /\ LET line == lines'[sequence + 1]
         IN  /\ line # Malformed /\ line.sequence = sequence /\ line.event = event
             /\ line.previous = IF sequence = 0 THEN NoValue ELSE Digest(lines'[sequence])
      /\ UNCHANGED <<plan, baseline, taken, status, outcomes, current>> /\ wpc = "emit"
  BY LineIsWritten
<1>2. sequence = 0 /\ Calls = 0 /\ pc = "admit" /\ plan \in Plans
  BY <1>1 DEF JournalInv, Position, Emitting, ProcessType
<1>3. lines = <<>> /\ Len(lines') = Len(lines) + 1
  BY <1>1, <1>2
<1>4. taken = 0 /\ status.kind = "Completed" /\ Len(outcomes) = 0
  <2>1. Calls = Behind /\ taken \in Nat
    BY <1>1, <1>2, Numbers DEF JournalInv, InStep
  <2>2. 0 = taken + 0
    BY <1>2, <2>1 DEF Behind
  <2> QED BY <1>1, <1>2, <2>1, <2>2 DEF Evaluated
<1>5. HeaderMatches(Heading, plan.expected, Prior)
  BY <1>1, <1>2, ChildHeaderMatches DEF Chained, Clean
<1>6. event.event = "Initialized" /\ event.header = Heading
  BY <1>1 DEF Initialized
<1>7. PICK c : c = FreshChild /\ c = ChildLifecycleOf(lines, plan.expected, Prior)
  BY <1>3, NoChildLineRead
<1>8. c = [header |-> NoValue, active |-> NoValue, successful |-> 0, failed |-> NoValue,
           terminal |-> NoValue]
  BY <1>7 DEF FreshChild
<1>9. c # NoValue
  <2>1. c \in ChildLifecycles
    BY <1>8 DEF ChildLifecycles
  <2> QED BY <2>1, ValuesAssumption
<1>10. ChildLifecycleOf(lines', plan.expected, Prior) = ChildReadLine(c, lines', 0 + 1, plan.expected, Prior)
  <2>1. Len(lines) = 0
    BY <1>3
  <2>2. \A k \in 1 .. Len(lines) : lines'[k] = lines[k]
    BY <2>1
  <2>3. ChildLifecycleOf(lines', plan.expected, Prior) =
          IF ChildLifecycleOf(lines, plan.expected, Prior) = NoValue THEN NoValue
          ELSE ChildReadLine(ChildLifecycleOf(lines, plan.expected, Prior), lines', Len(lines) + 1,
                             plan.expected, Prior)
    <3>1. Len(lines) \in Nat /\ Len(lines') = Len(lines) + 1
      BY <1>3, <2>1
    <3> QED BY <2>2, <3>1, ChildReadOn
  <2>4. /\ ChildLifecycleOf(lines, plan.expected, Prior) = c
        /\ Len(lines) + 1 = 0 + 1
    BY <1>7, <2>1
  <2> QED BY <1>9, <2>3, <2>4
<1>11. PICK r : r = [c EXCEPT !.header = Heading]
  OBVIOUS
<1>12. Read(lines)' = r
  <2>1. /\ lines'[1] # Malformed /\ lines'[1].sequence = 1 - 1 /\ lines'[1].previous = NoValue
        /\ lines'[1].event = event
    BY <1>1, <1>2
  <2>2. ~(1 > MaxContinuationEntries)
    BY ScenariosAssumption DEF MaxContinuationEntries
  <2>3. ChildAccepts(c, event, plan.expected, Prior) /\ ChildAfter(c, event) = r /\ c.terminal = NoValue
    BY <1>5, <1>6, <1>8, <1>11 DEF ChildAccepts, ChildAfter
  <2>4. ChildReadLine(c, lines', 1, plan.expected, Prior) = r
    BY <2>1, <2>2, <2>3 DEF ChildReadLine
  <2>5. Prior' = Prior
    BY <1>1 DEF Prior
  <2>6. Read(lines)' = ChildLifecycleOf(lines', plan.expected, Prior)
    BY <1>1, <2>5 DEF Read
  <2> QED BY <1>10, <2>4, <2>6
<1>13. r = [header |-> Heading, active |-> NoValue, successful |-> 0, failed |-> NoValue,
            terminal |-> NoValue]
  BY <1>8, <1>11
<1>14. r # NoValue
  <2>1. Heading \in Headers \cup ChildHeaders
    BY <1>1, <1>6 DEF Events
  <2>2. r \in ChildLifecycles
    BY <1>13, <2>1 DEF ChildLifecycles
  <2> QED BY <2>2, ValuesAssumption
<1>15. /\ Heading' = Heading /\ ~Open' /\ ~Answered' /\ ~Ended' /\ ~Announced' /\ ~Gained'
  BY <1>6, WritingChangesLittle DEF Intent, Return
<1>16. Failure' = NoValue
  BY <1>1, <1>4, <1>15 DEF Failure
<1>17. /\ r.header = Heading /\ r.successful = 0
       /\ r.active = NoValue /\ r.failed = NoValue /\ r.terminal = NoValue
  BY <1>13
<1>18. Len(outcomes') + 0 = 0
  BY <1>1, <1>4
<1>19. Known(r)'
  BY <1>1, <1>15, <1>16, <1>17, <1>18 DEF Known
<1> QED BY <1>12, <1>14, <1>19

(* What a line changes in what is known of a continuation.                 *)
LEMMA ChildAfterALine ==
  ASSUME NEW c \in ChildLifecycles, NEW e \in Events
  PROVE  /\ e.event = "CallStarted" =>
              /\ ChildAfter(c, e) \in ChildLifecycles
              /\ ChildAfter(c, e).header = c.header /\ ChildAfter(c, e).active = e.target
              /\ ChildAfter(c, e).successful = c.successful
              /\ ChildAfter(c, e).failed = c.failed /\ ChildAfter(c, e).terminal = c.terminal
         /\ e.event = "CallSucceeded" =>
              /\ ChildAfter(c, e) \in ChildLifecycles
              /\ ChildAfter(c, e).header = c.header /\ ChildAfter(c, e).active = NoValue
              /\ ChildAfter(c, e).successful = c.successful + 1
              /\ ChildAfter(c, e).failed = c.failed /\ ChildAfter(c, e).terminal = c.terminal
         /\ e.event = "CallFailed" =>
              /\ ChildAfter(c, e) \in ChildLifecycles
              /\ ChildAfter(c, e).header = c.header /\ ChildAfter(c, e).active = NoValue
              /\ ChildAfter(c, e).successful = c.successful
              /\ ChildAfter(c, e).failed = e.target /\ ChildAfter(c, e).terminal = c.terminal
         /\ e.event = "Finished" =>
              /\ ChildAfter(c, e) \in ChildLifecycles
              /\ ChildAfter(c, e).header = c.header /\ ChildAfter(c, e).active = c.active
              /\ ChildAfter(c, e).successful = c.successful
              /\ ChildAfter(c, e).failed = c.failed /\ ChildAfter(c, e).terminal = e
<1> USE DEF ChildLifecycles
<1>1. CASE e.event = "CallStarted"
  <2>1. ChildAfter(c, e) = [c EXCEPT !.active = e.target] /\ e.target \in Targets
    BY <1>1 DEF ChildAfter, Events
  <2> QED BY <1>1, <2>1
<1>2. CASE e.event = "CallSucceeded"
  <2> DEFINE s == c.successful + 1
  <2>1. ChildAfter(c, e) = [c EXCEPT !.active = NoValue, !.successful = s]
    BY <1>2, Zenon DEF ChildAfter
  <2>2. s \in Nat /\ s = c.successful + 1
    OBVIOUS
  <2> HIDE DEF s
  <2> QED BY <1>2, <2>1, <2>2
<1>3. CASE e.event = "CallFailed"
  <2>1. ChildAfter(c, e) = [c EXCEPT !.active = NoValue, !.failed = e.target] /\ e.target \in Targets
    BY <1>3 DEF ChildAfter, Events
  <2> QED BY <1>3, <2>1
<1>4. CASE e.event = "Finished"
  <2>1. ChildAfter(c, e) = [c EXCEPT !.terminal = e]
    BY <1>4 DEF ChildAfter
  <2> QED BY <1>4, <2>1
<1> QED BY <1>1, <1>2, <1>3, <1>4
(* A later line of a continuation.                                         *)
LEMMA LineOfContinuation ==
  ASSUME JournalInv, Chained, Evaluated, Agreement, ~crashed, Writes, ~IsParent,
         event.event # "Initialized"
  PROVE  \E r : Read(lines)' = r /\ r # NoValue /\ Known(r)'
<1>1. /\ Clean /\ ~IsParent' /\ sequence \in Nat /\ event \in Events /\ lines \in Seq(Entries)
      /\ Len(lines) = sequence /\ Len(lines') = sequence + 1 /\ wpc = "emit"
      /\ \A k \in 1 .. sequence : lines'[k] = lines[k]
      /\ LET line == lines'[sequence + 1]
         IN  /\ line # Malformed /\ line.sequence = sequence /\ line.event = event
             /\ line.previous = IF sequence = 0 THEN NoValue ELSE Digest(lines'[sequence])
      /\ UNCHANGED <<plan, limit, deadline, baseline, taken, status, outcomes, current>>
  BY LineIsWritten
<1>2. /\ Intent => event = CallStarted(current)
      /\ Return => event = Returned(current)
      /\ event.event = "Finished" => event = Ending
      /\ Intent \/ Return \/ event.event = "Finished"
  BY <1>1, LineIsWritten DEF Events, Intent, Return
<1>3. sequence > 0 /\ plan \in Plans /\ run # plan.run
  <2>1. /\ Intent => sequence = 2 * Calls + 1
        /\ Return => sequence = 2 * Calls /\ Calls > 0
        /\ event.event = "Finished" => sequence = 2 * Calls + 1
    BY <1>1 DEF JournalInv, Position, Emitting
  <2>2. Calls \in Nat
    BY Numbers
  <2>3. plan \in Plans /\ run # plan.run
    BY <1>1 DEF JournalInv, ProcessType, Chained, Clean
  <2> QED BY <1>2, <2>1, <2>2, <2>3
<1>4. lines # <<>>
  BY <1>1, <1>3
<1>5. PICK c : c = ChildLifecycleOf(lines, plan.expected, Prior) /\ c # NoValue /\ Known(c)
  BY <1>1, <1>4 DEF Agreement, Read
<1>6. ChildLawful(c, lines, sequence, plan.expected, Prior)
  <2>1. Prior.successful \in 0 .. Len(Scenarios)
    BY <1>3, ParentIsKnown
  <2> QED BY <1>1, <1>5, <2>1, ChildAcceptedIsLawful
<1>7. c \in ChildLifecycles
  BY <1>6 DEF ChildLawful
<1>8. /\ Heading' = Heading /\ Ending' = Ending /\ Result' = Result
      /\ ~Answered /\ ~Ended /\ ~Gained /\ (Open <=> Return)
      /\ (Open' <=> Intent) /\ (Answered' <=> Return) /\ (Ended' <=> event.event = "Finished")
      /\ (Gained' <=> Return /\ Result \in Signatures)
  BY WritingChangesLittle
<1>9. /\ c.header = Heading
      /\ c.active = IF Return THEN current ELSE NoValue
      /\ c.failed = Failure
      /\ c.terminal = NoValue
      /\ c.successful = Len(outcomes) + 0
  BY <1>5, <1>8 DEF Known
<1>10. sequence + 1 <= MaxContinuationEntries
  <2>1. Prior.successful \in 0 .. Len(Scenarios)
    BY <1>3, ParentIsKnown
  <2> QED BY <1>1, <1>3, <1>6, <1>9, <2>1, RoomInContinuation
<1>11. NoValue # Baseline /\ NoValue \notin ScenarioIds /\ Baseline \notin ScenarioIds
  BY ValuesAssumption, ScenariosAssumption
<1>12. /\ limit \in Nat /\ Len(input) \in Nat /\ taken \in Nat /\ taken <= Len(input)
       /\ input = plan.remaining /\ (pc = "calling" => current \in ScenarioIds \cup {Baseline})
       /\ Intent \/ Return => pc = "calling" /\ current # Baseline
  BY <1>1, Standing DEF Todo, Before, Inside, Emitting
<1>13. /\ Len(outcomes) \in Nat /\ Len(outcomes) <= limit
       /\ pc \notin {"report", "done"} => status.kind = "Completed"
       /\ pc = "calling" /\ current # Baseline => Len(outcomes) + 1 = taken /\ taken <= limit
  BY <1>1 DEF Evaluated
<1>14. PICK r : r = ChildAfter(c, event)
  OBVIOUS
<1>15. ASSUME ChildAccepts(c, event, plan.expected, Prior) PROVE Read(lines)' = r
  <2>1. ChildLifecycleOf(lines', plan.expected, Prior) =
          IF ChildLifecycleOf(lines, plan.expected, Prior) = NoValue THEN NoValue
          ELSE ChildReadLine(ChildLifecycleOf(lines, plan.expected, Prior), lines', Len(lines) + 1,
                             plan.expected, Prior)
    BY <1>1, ChildReadOn
  <2>2. /\ (sequence + 1) - 1 = sequence /\ sequence + 1 # 1
        /\ ~(sequence + 1 > MaxContinuationEntries)
    BY <1>1, <1>3, <1>10, ScenariosAssumption DEF MaxContinuationEntries
  <2>3. /\ lines'[sequence + 1] # Malformed /\ lines'[sequence + 1].sequence = sequence
        /\ lines'[sequence + 1].event = event
        /\ lines'[sequence + 1].previous = Digest(lines'[sequence])
    BY <1>1, <1>3
  <2>4. ChildReadLine(c, lines', sequence + 1, plan.expected, Prior) = ChildAfter(c, event)
    BY <1>9, <1>15, <2>2, <2>3 DEF ChildReadLine
  <2>5. Prior' = Prior
    BY <1>1 DEF Prior
  <2>6. Read(lines)' = ChildLifecycleOf(lines', plan.expected, Prior)
    BY <1>1, <2>5 DEF Read
  <2> QED BY <1>1, <1>5, <1>14, <2>1, <2>4, <2>6
<1>16. /\ c.header.limit = limit /\ c.header.deadline = deadline /\ c.header.remaining = input
       /\ c.header # NoValue
  <2>1. /\ Heading.limit = limit /\ Heading.deadline = deadline /\ Heading.remaining = plan.remaining
    BY <1>1, <1>3, ChildHeaderMatches
  <2>2. c.header \in Headers \cup ChildHeaders
    BY <1>3, <1>6 DEF ChildLawful
  <2> QED BY <1>9, <1>12, <2>1, <2>2, ValuesAssumption
<1>17. CASE Intent
  <2>1. /\ event.event = "CallStarted" /\ event.target = current /\ pc = "calling"
        /\ status.kind = "Completed" /\ ~Return
    BY <1>2, <1>12, <1>13, <1>17 DEF CallStarted, Intent, Return
  <2>2. Failure = NoValue
    BY <1>8, <2>1 DEF Failure
  <2>3. Len(outcomes) + 1 = taken /\ taken <= limit
    BY <1>12, <1>13, <1>17, <2>1
  <2>4. c.successful + 1 = taken /\ c.successful < limit /\ c.successful < Len(input)
    BY <1>9, <1>12, <1>13, <2>3
  <2>5. input[c.successful + 1] = current
    <3>1. current = Due(Calls + 1) /\ Calls + 1 = Behind
      BY <1>1, <1>17 DEF JournalInv, InStep, Before, Emitting
    <3>2. Behind = taken + 0
      BY DEF Behind
    <3>3. Calls + 1 = taken
      BY <1>12, <3>1, <3>2
    <3>4. current = plan.remaining[Calls + 1]
      BY <3>1 DEF Due
    <3> QED BY <1>12, <2>4, <3>3, <3>4
  <2>6. ChildAccepts(c, event, plan.expected, Prior)
    BY <1>9, <1>16, <2>1, <2>2, <2>4, <2>5 DEF ChildAccepts
  <2>7. /\ r \in ChildLifecycles /\ r.header = c.header /\ r.active = current
        /\ r.successful = c.successful /\ r.failed = c.failed /\ r.terminal = c.terminal
    BY <1>1, <1>7, <1>14, <2>1, ChildAfterALine
  <2>8. Failure' = NoValue
    BY <1>1, <1>8, <2>1 DEF Failure
  <2>9. Known(r)'
    BY <1>1, <1>8, <1>9, <1>17, <2>1, <2>2, <2>7, <2>8 DEF Known
  <2> QED BY <1>15, <2>6, <2>7, <2>9, ValuesAssumption
<1>18. CASE Return
  <2>1. /\ event = Returned(current) /\ pc = "calling" /\ status.kind = "Completed" /\ ~Intent
        /\ c.active = current /\ event.target = current /\ current # Baseline
    BY <1>2, <1>9, <1>12, <1>13, <1>18 DEF Return, Intent, Returned, CallSucceeded, CallFailed
  <2>2. c.failed = NoValue
    BY <1>8, <1>9, <2>1 DEF Failure
  <2>3. ChildAccepts(c, event, plan.expected, Prior)
    BY <1>16, <1>18, <2>1 DEF ChildAccepts, Return
  <2>4. CASE Result \in Signatures
    <3>1. event.event = "CallSucceeded"
      BY <2>1, <2>4 DEF Returned, CallSucceeded
    <3>2. /\ r \in ChildLifecycles /\ r.header = c.header /\ r.active = NoValue
          /\ r.successful = c.successful + 1 /\ r.failed = c.failed /\ r.terminal = c.terminal
      BY <1>1, <1>7, <1>14, <3>1, ChildAfterALine
    <3>3. Failure' = NoValue
      BY <1>1, <1>8, <2>1, <2>4 DEF Failure
    <3>4. r.successful = Len(outcomes') + 1
      BY <1>1, <1>9, <1>13, <3>2
    <3>5. Known(r)'
      BY <1>1, <1>8, <1>9, <1>18, <2>1, <2>2, <2>4, <3>1, <3>2, <3>3, <3>4 DEF Known
    <3> QED BY <1>15, <2>3, <3>2, <3>5, ValuesAssumption
  <2>5. CASE Result \notin Signatures
    <3>1. event.event = "CallFailed"
      BY <2>1, <2>5 DEF Returned, CallFailed
    <3>2. /\ r \in ChildLifecycles /\ r.header = c.header /\ r.active = NoValue
          /\ r.successful = c.successful /\ r.failed = current /\ r.terminal = c.terminal
      BY <1>1, <1>7, <1>14, <2>1, <3>1, ChildAfterALine
    <3>3. Failure' = current
      BY <1>1, <1>8, <1>18, <2>5 DEF Failure
    <3>4. Known(r)'
      BY <1>1, <1>8, <1>9, <1>18, <2>1, <2>5, <3>1, <3>2, <3>3 DEF Known
    <3> QED BY <1>15, <2>3, <3>2, <3>4, ValuesAssumption
  <2> QED BY <2>4, <2>5
<1>19. CASE event.event = "Finished"
  <2>1. event = Ending /\ pc = "done" /\ ~Intent /\ ~Return /\ event # NoValue
    BY <1>1, <1>2, <1>19, ValuesAssumption DEF JournalInv, Position, Emitting, Intent, Return
  <2>2. /\ c.active = NoValue /\ c.successful = Len(outcomes)
        /\ c.failed = IF status.kind # "EngineFailed" THEN NoValue
                      ELSE IF status.scenario = NoValue THEN Baseline ELSE status.scenario
    BY <1>8, <1>9, <1>13, <2>1 DEF Failure
  <2>3. /\ status.kind = "Completed" => Len(outcomes) = taken /\ taken = Len(input)
        /\ status.kind = "Interrupted" =>
             /\ Len(outcomes) = taken
             /\ status.reason = "DeadlineReached" => deadline
             /\ status.reason = "EvaluationLimitReached" => Len(outcomes) = limit /\ taken # Len(input)
        /\ status.kind = "EngineFailed" => status.scenario \in ScenarioIds \/ status.scenario = NoValue
    BY <1>1, <2>1 DEF Evaluated
  <2>4. ChildFinishAllowed(c, event.terminal, event.reason)
    <3>1. CASE status.kind = "Completed"
      <4>1. event.terminal = "Completed"
        BY <2>1, <3>1 DEF Ending, Finished
      <4> QED BY <1>16, <2>2, <2>3, <3>1, <4>1 DEF ChildFinishAllowed
    <3>2. CASE status.kind = "Interrupted"
      <4>1. event.terminal = "Interrupted" /\ event.reason = status.reason
        BY <2>1, <3>2 DEF Ending, Finished
      <4>2. event.reason = "EvaluationLimitReached" =>
              c.successful = limit /\ c.successful < Len(input)
        BY <1>12, <1>13, <2>2, <2>3, <3>2, <4>1
      <4> QED BY <1>16, <2>2, <2>3, <3>2, <4>1, <4>2 DEF ChildFinishAllowed
    <3>3. CASE status.kind = "EngineFailed"
      <4>1. event.terminal = "Failed"
        BY <2>1, <3>3 DEF Ending, Finished
      <4> QED BY <1>11, <2>2, <2>3, <3>3, <4>1 DEF ChildFinishAllowed
    <3> QED BY <2>1, <3>1, <3>2, <3>3 DEF Ending
  <2>5. ChildAccepts(c, event, plan.expected, Prior)
    BY <1>16, <1>19, <2>2, <2>4 DEF ChildAccepts
  <2>6. /\ r \in ChildLifecycles /\ r.header = c.header /\ r.active = c.active
        /\ r.successful = c.successful /\ r.failed = c.failed /\ r.terminal = event
    BY <1>1, <1>7, <1>14, <1>19, ChildAfterALine
  <2>7. Failure' = Failure
    BY <1>1, <1>8, <2>1 DEF Failure
  <2>8. Known(r)'
    BY <1>1, <1>8, <1>9, <1>19, <2>1, <2>2, <2>6, <2>7 DEF Known
  <2> QED BY <1>15, <2>5, <2>6, <2>8, ValuesAssumption
<1> QED BY <1>2, <1>17, <1>18, <1>19
----------------------------------------------------------------------------
(* The file agrees with the evaluator, and is accepted wherever it ends.   *)

(* Whatever line a process writes, its inspector accepts it.               *)
LEMMA WrittenLineIsRead ==
  ASSUME JournalInv, Chained, Evaluated, Agreement, ~crashed, Writes
  PROVE  \E r : Read(lines)' = r /\ r # NoValue /\ Known(r)'
<1>1. CASE IsParent /\ event.event = "Initialized"
  BY <1>1, HeaderOfRun
<1>2. CASE IsParent /\ event.event # "Initialized"
  BY <1>2, LineOfRun
<1>3. CASE ~IsParent /\ event.event = "Initialized"
  BY <1>3, HeaderOfContinuation
<1>4. CASE ~IsParent /\ event.event # "Initialized"
  BY <1>4, LineOfContinuation
<1> QED BY <1>1, <1>2, <1>3, <1>4

(* A log that stays the same is read the same way.                         *)
LEMMA ReadIsKept ==
  ASSUME UNCHANGED <<role, plan, lines>>
  PROVE  Read(lines)' = Read(lines)
BY DEF Read, Prior, IsParent

(* Every step that leaves the file alone keeps reading and process in      *)
(* agreement.                                                              *)
LEMMA AgreementKept ==
  ASSUME JournalInv, Chained, Evaluated, Agreement, [Next]_vars
  PROVE  Agreement'
<1>1. SUFFICES ASSUME Clean', lines' # <<>> PROVE Read(lines)' # NoValue /\ Known(Read(lines))'
  BY DEF Agreement
<1>2. ~Starts
  <2>1. ASSUME Starts PROVE FALSE
    <3>1. wpc = "idle" /\ lines' = lines
      BY <2>1 DEF Starts, file
    <3> QED BY <1>1, <3>1 DEF JournalInv, Latched
  <2> QED BY <2>1
<1>3. Clean /\ Moves
  BY <1>1, <1>2, CleanBefore
<1>4. \E r : Read(lines)' = r /\ r # NoValue /\ Known(r)'
  <2>1. CASE Writes
    BY <1>3, <2>1, WrittenLineIsRead DEF Clean
  <2>2. CASE ~Writes
    <3>1. UNCHANGED <<role, plan, lines>>
      BY <1>1, <1>2, <1>3, <2>2 DEF Clean, Moves, Evaluates, IntendsBaseline, IntendsScenario, CallsRestored,
         ReturnsRestored, Invokes, EngineAnswers, Records, Answers, AnswersBlocked, Closes,
         EmitsNothing, Syncs, SyncFails, Dies, Rests, process, file
    <3>2. PICK r : r = Read(lines) /\ r # NoValue /\ Known(r)
      BY <1>1, <1>3, <3>1 DEF Agreement
    <3>3. Known(r)'
      BY <1>1, <1>2, <1>3, <2>2, <3>2, KnownKept
    <3>4. Read(lines)' = r
      BY <3>1, <3>2, ReadIsKept
    <3> QED BY <3>2, <3>3, <3>4
  <2> QED BY <2>1, <2>2
<1>5. PICK r : Read(lines)' = r /\ r # NoValue /\ Known(r)'
  BY <1>4
<1>6. Known(Read(lines))'
  BY <1>5 DEF Known
<1> QED BY <1>5, <1>6

(* While an entry is being written, the file has no terminal entry.        *)
LEMMA NoTerminalYet ==
  ASSUME Agreement, ~crashed, error = NoValue, wpc = "emit", lines # <<>>
  PROVE  Read(lines).terminal = NoValue
<1>1. Known(Read(lines)) /\ ~Ended
  BY DEF Agreement, Clean, Ended
<1> QED BY <1>1 DEF Known

(* A line that was written but not synchronized may be lost.               *)
LEMMA LineIsLost ==
  ASSUME JournalInv, Agreement, ~crashed, wpc = "sync",
         lines' = SubSeq(lines, 1, Len(lines) - 1), lines' # <<>>, UNCHANGED <<role, plan>>
  PROVE  Read(lines)' # NoValue /\ Read(lines)'.terminal = NoValue
<1>1. Clean
  BY DEF JournalInv, Latched, Clean
<1>2. Len(lines) \in Nat /\ Len(lines) > 0 /\ lines \in Seq(Entries)
  <2>1. Len(lines) = sequence + 1 /\ sequence \in Nat /\ lines \in Seq(Entries)
    BY <1>1, Standing DEF JournalInv, ProcessType
  <2> QED BY <2>1
<1>3. PICK log : log = lines'
  OBVIOUS
<1>4. log = SubSeq(lines, 1, Len(lines) - 1)
  BY <1>3
<1>5. Len(log) \in Nat /\ Len(lines) = Len(log) + 1
  BY <1>2, <1>4
<1>6. \A k \in 1 .. Len(log) : lines[k] = log[k]
  BY <1>2, <1>4
<1>7. Read(lines) # NoValue
  <2>1. lines # <<>>
    BY <1>2
  <2> QED BY <1>1, <2>1 DEF Agreement
<1>8. IsParent' = IsParent /\ Prior' = Prior /\ plan' = plan
  BY DEF IsParent, Prior
<1>9. CASE IsParent
  <2>1. LifecycleOf(lines) = IF LifecycleOf(log) = NoValue THEN NoValue
                             ELSE ReadLine(LifecycleOf(log), lines, Len(log) + 1)
    BY <1>5, <1>6, ReadOn
  <2>2. Read(lines)' = LifecycleOf(log) /\ LifecycleOf(lines) # NoValue
    BY <1>3, <1>7, <1>8, <1>9 DEF Read
  <2>3. ReadLine(LifecycleOf(log), lines, Len(log) + 1) # NoValue
    BY <2>1, <2>2
  <2>4. LifecycleOf(log).terminal = NoValue
    BY <2>3 DEF ReadLine
  <2> QED BY <2>1, <2>2, <2>4
<1>10. CASE ~IsParent
  <2>1. ChildLifecycleOf(lines, plan.expected, Prior) =
          IF ChildLifecycleOf(log, plan.expected, Prior) = NoValue THEN NoValue
          ELSE ChildReadLine(ChildLifecycleOf(log, plan.expected, Prior), lines, Len(log) + 1,
                             plan.expected, Prior)
    BY <1>5, <1>6, ChildReadOn
  <2>2. /\ Read(lines)' = ChildLifecycleOf(log, plan.expected, Prior)
        /\ ChildLifecycleOf(lines, plan.expected, Prior) # NoValue
    BY <1>3, <1>7, <1>8, <1>10 DEF Read
  <2>3. ChildReadLine(ChildLifecycleOf(log, plan.expected, Prior), lines, Len(log) + 1,
                      plan.expected, Prior) # NoValue
    BY <2>1, <2>2
  <2>4. ChildLifecycleOf(log, plan.expected, Prior).terminal = NoValue
    BY <2>3 DEF ChildReadLine
  <2> QED BY <2>1, <2>2, <2>4
<1> QED BY <1>9, <1>10

(* Every step keeps the log one that the inspector accepts.                *)
LEMMA AcceptedKept ==
  ASSUME JournalInv, Chained, Evaluated, Agreement, Accepted, [Next]_vars
  PROVE  Accepted'
<1>1. SUFFICES ASSUME lines' # <<>>
               PROVE  Read(lines)' # NoValue /\ (torn' => Read(lines)'.terminal = NoValue)
  BY DEF Accepted
<1>2. Moves
  BY StepsMove
<1>3. CASE UNCHANGED <<role, plan, lines, torn>>
  <2>1. Read(lines)' = Read(lines) /\ torn' = torn /\ lines # <<>>
    BY <1>1, <1>3, ReadIsKept
  <2> QED BY <2>1 DEF Accepted
<1>4. CASE /\ ~crashed /\ error = NoValue /\ wpc = "emit"
           /\ UNCHANGED <<role, plan, lines>>
  <2>1. Read(lines)' = Read(lines) /\ lines # <<>>
    BY <1>1, <1>4, ReadIsKept
  <2> QED BY <1>4, <2>1, NoTerminalYet DEF Accepted
<1>5. CASE /\ ~crashed /\ wpc = "sync" /\ lines' = SubSeq(lines, 1, Len(lines) - 1)
           /\ UNCHANGED <<role, plan>>
  BY <1>1, <1>5, LineIsLost
<1>6. CASE ~crashed /\ Writes
  <2>1. torn' = FALSE
    BY <1>6 DEF Writes
  <2> QED BY <1>6, <2>1, WrittenLineIsRead
<1> QED BY <1>2, <1>3, <1>4, <1>5, <1>6
        DEF Moves, Starts, Evaluates, IntendsBaseline, IntendsScenario, CallsRestored,
            ReturnsRestored, Invokes, EngineAnswers, Records, Answers, AnswersBlocked, Closes,
            EmitsNothing, Syncs, SyncFails, Dies, Rests, process, file

(* Every step keeps the invariant.                                         *)
LEMMA StepKeepsInspection ==
  ASSUME JournalInv, InspectionInv, [Next]_vars
  PROVE  InspectionInv'
BY ChainedKept, EvaluatedKept, AgreementKept, RecordedKept, AcceptedKept DEF InspectionInv

(* Every process starts with the invariant.                                *)
LEMMA InitialInspection ==
  ASSUME Init
  PROVE  InspectionInv
<1>1. CASE role = "parent" /\ Parent!Init
  <2>1. /\ limit \in Limits /\ deadline \in BOOLEAN
        /\ pc = "admit" /\ baseline = NoValue /\ outcomes = <<>> /\ taken = 0
        /\ status = [kind |-> "Completed"] /\ wpc = "emit" /\ sequence = 0 /\ previous = NoValue
        /\ lines = <<>>
    BY <1>1 DEF Parent!Init, Parent!Eval!Init, Parent!Journal!Init, Parent!Eval!Completed
  <2>2. IsParent /\ limit \in Nat
    BY <1>1, <2>1, ValuesAssumption DEF IsParent
  <2>3. event = Initialized(Heading)
    BY <1>1, <2>2 DEF Parent!Init, Parent!Initialized, Initialized, Parent!Header, Heading
  <2>4. Chained
    BY <2>1, <2>2, <2>3 DEF Chained, Return, Initialized
  <2>5. Evaluated
    <3>1. /\ outcomes \in Seq([scenario : ScenarioIds, signature : Signatures])
          /\ Len(outcomes) = 0 /\ 0 <= limit
      BY <2>1, <2>2
    <3> QED BY <2>1, <3>1 DEF Evaluated
  <2>6. Agreement /\ Recorded /\ Accepted
    BY <2>1 DEF Agreement, Recorded, Accepted
  <2> QED BY <2>4, <2>5, <2>6 DEF InspectionInv
<1>2. CASE role = "child" /\ Child!Init
  <2>1. wpc = "idle" /\ lines = <<>>
    BY <1>2 DEF Child!Init, Child!Journal!Init
  <2> QED BY <2>1 DEF InspectionInv, Chained, Evaluated, Agreement, Recorded, Accepted, Clean
<1> QED BY <1>1, <1>2 DEF Init

(* What the inspector would know of the file is what the evaluator knows   *)
(* and what the engine answered, and it accepts the file wherever a fault  *)
(* or a crash has ended it.                                                *)
THEOREM InspectionIsKept == Spec => [](JournalInv /\ InspectionInv)
<1>1. Init => JournalInv /\ InspectionInv
  BY InitialJournal, InitialInspection
<1>2. (JournalInv /\ InspectionInv) /\ [Next]_vars => (JournalInv /\ InspectionInv)'
  BY StepKeepsJournal, StepKeepsInspection
<1> QED BY <1>1, <1>2, PTL DEF Spec
----------------------------------------------------------------------------
(* What the inspector of a run reports.                                    *)

(* Every call the engine received has an intent in the file.               *)
LEMMA CallsAreInTheFile ==
  ASSUME JournalInv, lines # <<>>, NEW l, Lawful(l, lines, Len(lines))
  PROVE  Calls <= Called(l) /\ Called(l) \in Nat
<1>1. /\ Calls \in Nat /\ DOMAIN engine = 1 .. Calls /\ sequence \in Nat
      /\ lines \in Seq(Entries) /\ Len(lines) \in Nat /\ Len(lines) > 0
  <2>1. lines \in Seq(Entries)
    BY DEF JournalInv, ProcessType
  <2> QED BY <2>1, Numbers
<1>2. /\ Len(lines) + (IF l.active # NoValue THEN 1 ELSE 0) =
           2 * Called(l) + 1 + (IF l.terminal # NoValue THEN 1 ELSE 0)
      /\ l.terminal # NoValue => lines[Len(lines)].event.event = "Finished" /\ l.active = NoValue
      /\ l.started \in Nat
  BY <1>1 DEF Lawful, Lifecycles
<1>3. Called(l) \in Nat
  BY <1>2 DEF Called
<1>4. ASSUME Calls > 0
      PROVE  2 * Calls <= Len(lines) /\ lines[2 * Calls].event.event = "CallStarted"
  <2>1. Calls \in DOMAIN engine
    BY <1>1, <1>4
  <2>2. 2 * Calls <= sequence /\ lines[2 * Calls].event = CallStarted(engine[Calls].target)
    BY <2>1 DEF JournalInv, Filed
  <2>3. sequence <= Len(lines)
    BY DEF JournalInv, Filed
  <2> QED BY <1>1, <2>2, <2>3 DEF CallStarted
<1>5. CASE Calls = 0
  BY <1>3, <1>5
<1>6. CASE Calls > 0 /\ l.terminal = NoValue
  <2>1. Len(lines) <= 2 * Called(l) + 1
    BY <1>1, <1>2, <1>3, <1>6
  <2> QED BY <1>1, <1>3, <1>4, <1>6, <2>1
<1>7. CASE Calls > 0 /\ l.terminal # NoValue
  <2>1. Len(lines) = 2 * Called(l) + 2
    <3>1. Len(lines) + 0 = 2 * Called(l) + 1 + 1
      BY <1>2, <1>7
    <3> QED BY <1>1, <1>3, <3>1
  <2>2. 2 * Calls # Len(lines)
    BY <1>2, <1>4, <1>7
  <2> QED BY <1>1, <1>3, <1>4, <1>7, <2>1, <2>2
<1> QED BY <1>1, <1>3, <1>5, <1>6, <1>7

(* The summary of a log that is accepted.                                  *)
LEMMA AcceptedIsSummarized ==
  ASSUME lines \in Seq(Entries), lines # <<>>, torn \in BOOLEAN,
         NEW l, l = LifecycleOf(lines), l # NoValue, torn => l.terminal = NoValue
  PROVE  LET summary == Inspect(lines, torn)
         IN  /\ summary \in Summaries /\ summary # NoValue
             /\ summary.baseline = l.baseline /\ summary.successful = l.successful
             /\ summary.failed = l.failed /\ summary.unknown = l.active
             /\ summary.neverStarted = Len(Scenarios) - l.started
<1>1. PICK s : s = Inspect(lines, torn)
  OBVIOUS
<1>2. s = [state |-> SummaryState(l, torn), header |-> l.header, baseline |-> l.baseline,
           successful |-> l.successful, failed |-> l.failed, unknown |-> l.active,
           neverStarted |-> Len(Scenarios) - l.started]
  BY <1>1 DEF Inspect, Summarize
<1>3. Lawful(l, lines, Len(lines)) /\ Len(lines) \in Nat /\ Len(lines) > 0
  BY AcceptedIsLawful
<1>4. /\ l.header \in Headers \cup ChildHeaders /\ l.baseline \in BOOLEAN
      /\ l.successful \in Nat /\ l.started \in Nat /\ l.started <= Len(Scenarios)
      /\ l.failed \in {NoValue} \cup Targets /\ l.active \in {NoValue} \cup Targets
      /\ l.terminal \in {NoValue} \cup Events
      /\ l.terminal # NoValue => l.terminal.event = "Finished"
  BY <1>3 DEF Lawful, Lifecycles
<1>5. Len(Scenarios) - l.started \in Nat
  BY <1>4, ScenariosAssumption
<1>6. SummaryState(l, torn) \in States
  <2>1. l.terminal # NoValue => l.terminal.terminal \in {"Completed", "Interrupted", "Failed"}
    BY <1>4, ValuesAssumption DEF Events
  <2> QED BY <2>1 DEF SummaryState, States
<1>7. s \in Summaries
  BY <1>2, <1>4, <1>5, <1>6 DEF Summaries
<1>8. s # NoValue
  BY <1>7, ValuesAssumption
<1> QED BY <1>1, <1>2, <1>7, <1>8

(* A run inspects with the operators of its own instance.                  *)
LEMMA SameInspection == Parent!Inspect(lines, torn) = Inspect(lines, torn)
BY DEF Parent!Inspect, Inspect, Parent!Summarize, Summarize, Parent!SummaryState, SummaryState,
   Parent!LifecycleOf, LifecycleOf, Parent!FreshLifecycle, FreshLifecycle,
   Parent!ReadLine, ReadLine, Parent!Accepts, Accepts, Parent!After, After,
   Parent!StartAllowed, StartAllowed, Parent!FinishAllowed, FinishAllowed,
   Parent!MaxEntries, MaxEntries, Parent!Digest, Digest

(* The summary of the log of a run is the truth about its engine.          *)
LEMMA RunInspectionIsTrue ==
  ASSUME JournalInv, InspectionInv, IsParent
  PROVE  Parent!InspectionIsTrue
<1>1. SUFFICES ASSUME lines # <<>>, NEW s, s = Inspect(lines, torn)
      PROVE  /\ s # NoValue
             /\ \A k \in DOMAIN lines : lines[k].event.event \in {"CallSucceeded", "CallFailed"} =>
                  \E i \in DOMAIN engine :
                    /\ engine[i].target = lines[k].event.target
                    /\ engine[i].result = Decode(lines[k].event.payload)
             /\ \A i \in Len(Scenarios) - s.neverStarted + 1 .. Len(Scenarios) :
                  \A j \in DOMAIN engine : engine[j].target # Scenarios[i]
             /\ Len(engine) <= s.successful + (IF s.baseline THEN 1 ELSE 0)
                                 + (IF s.failed # NoValue \/ s.unknown # NoValue THEN 1 ELSE 0)
  BY SameInspection DEF Parent!InspectionIsTrue, Parent!Summary, Parent!Decode, Decode
<1>2. PICK l : l = LifecycleOf(lines)
  OBVIOUS
<1>3. l # NoValue /\ (torn => l.terminal = NoValue)
  BY <1>1, <1>2 DEF InspectionInv, Accepted, Read
<1>4. /\ lines \in Seq(Entries) /\ Len(lines) \in Nat /\ DOMAIN lines = 1 .. Len(lines)
      /\ torn \in BOOLEAN
  <2>1. lines \in Seq(Entries) /\ torn \in BOOLEAN
    BY DEF JournalInv, ProcessType
  <2> QED BY <2>1
<1>5. /\ s # NoValue
      /\ s.baseline = l.baseline /\ s.successful = l.successful
      /\ s.failed = l.failed /\ s.unknown = l.active
      /\ s.neverStarted = Len(Scenarios) - l.started
  BY <1>1, <1>2, <1>3, <1>4, AcceptedIsSummarized
<1>6. Lawful(l, lines, Len(lines))
  BY <1>2, <1>3, <1>4, AcceptedIsLawful
<1>7. /\ l.active = NoValue \/ l.failed = NoValue
      /\ l.baseline => l.active # Baseline /\ l.failed # Baseline
      /\ ~l.baseline => l.started = 0 /\ l.active \in {NoValue, Baseline} /\ l.failed \in {NoValue, Baseline}
      /\ l.started = l.successful +
           (IF l.active \notin {NoValue, Baseline} \/ l.failed \notin {NoValue, Baseline} THEN 1 ELSE 0)
      /\ l.started <= Len(Scenarios)
      /\ l.started \in Nat /\ l.successful \in Nat
  BY <1>6 DEF Lawful, Lifecycles
<1>8. Calls \in Nat /\ DOMAIN engine = 1 .. Calls /\ Calls <= Called(l) /\ Called(l) \in Nat
  BY <1>1, <1>6, Numbers, CallsAreInTheFile
<1>9. Len(Scenarios) \in Nat /\ NoValue # Baseline /\ Baseline \notin ScenarioIds
      /\ DOMAIN Scenarios = 1 .. Len(Scenarios)
      /\ \A i, j \in DOMAIN Scenarios : Scenarios[i] = Scenarios[j] => i = j
  BY ScenariosAssumption, ValuesAssumption
<1>10. ASSUME NEW k \in DOMAIN lines, lines[k].event.event \in {"CallSucceeded", "CallFailed"}
       PROVE  \E i \in DOMAIN engine :
                /\ engine[i].target = lines[k].event.target
                /\ engine[i].result = Decode(lines[k].event.payload)
  BY <1>4, <1>8, <1>10 DEF InspectionInv, Recorded
<1>11. ASSUME NEW i \in Len(Scenarios) - s.neverStarted + 1 .. Len(Scenarios),
              NEW j \in DOMAIN engine
       PROVE  engine[j].target # Scenarios[i]
  <2>1. i \in Nat /\ i > l.started /\ i <= Len(Scenarios) /\ Scenarios[i] \in ScenarioIds
    <3>1. i \in l.started + 1 .. Len(Scenarios)
      BY <1>5, <1>7, <1>9
    <3> QED BY <1>7, <1>9, <3>1 DEF ScenarioIds
  <2>2. engine[j].target = IF j = 1 THEN Baseline ELSE Scenarios[j - 1]
    BY DEF JournalInv, Filed, Due
  <2>3. Called(l) <= l.started + 1
    BY <1>7 DEF Called
  <2>4. j \in Nat /\ j - 1 <= l.started
    BY <1>7, <1>8, <2>3
  <2>5. CASE j = 1
    BY <1>9, <2>1, <2>2, <2>5
  <2>6. CASE j # 1
    <3>1. j - 1 \in DOMAIN Scenarios /\ i \in DOMAIN Scenarios /\ j - 1 # i
      BY <1>7, <1>8, <1>9, <2>1, <2>4, <2>6
    <3> QED BY <1>9, <2>2, <2>6, <3>1
  <2> QED BY <2>5, <2>6
<1>12. Calls <= l.successful + (IF l.baseline THEN 1 ELSE 0)
                  + (IF l.failed # NoValue \/ l.active # NoValue THEN 1 ELSE 0)
  BY <1>7, <1>8, <1>9 DEF Called
<1> QED BY <1>4, <1>5, <1>10, <1>11, <1>12 DEF Calls
----------------------------------------------------------------------------
(* What the inspector of a continuation reports.                           *)

(* The successes among the first n lines of a log.                         *)
Among(f, log, n) ==
  f = [k \in 0 .. n |->
         IF k = 0 THEN <<>>
         ELSE IF log[k].event.event = "CallSucceeded" THEN Append(f[k - 1], log[k])
         ELSE f[k - 1]]

(* Up to every length there is one list of the successes met so far.       *)
LEMMA AmongExists ==
  ASSUME NEW log, NEW n \in Nat
  PROVE  \E f : Among(f, log, n)
<1> DEFINE S == { m \in Nat : \E f : Among(f, log, m) }
<1>1. 0 \in S
  <2>1. Among([k \in 0 .. 0 |-> <<>>], log, 0)
    BY DEF Among
  <2> QED BY <2>1
<1>2. ASSUME NEW m \in Nat, m \in S PROVE m + 1 \in S
  <2>1. PICK f : Among(f, log, m)
    BY <1>2
  <2> DEFINE last == IF log[m + 1].event.event = "CallSucceeded" THEN Append(f[m], log[m + 1])
                     ELSE f[m]
             g == [k \in 0 .. m + 1 |-> IF k <= m THEN f[k] ELSE last]
  <2>2. ASSUME NEW k \in 0 .. m + 1
        PROVE  g[k] = IF k = 0 THEN <<>>
                      ELSE IF log[k].event.event = "CallSucceeded" THEN Append(g[k - 1], log[k])
                      ELSE g[k - 1]
    <3>1. CASE k = m + 1
      <4>1. k - 1 = m /\ g[k] = last /\ g[k - 1] = f[m] /\ k # 0
        BY <3>1
      <4> QED BY <3>1, <4>1
    <3>2. CASE k # m + 1
      <4>1. k <= m /\ g[k] = f[k] /\ (k # 0 => g[k - 1] = f[k - 1])
        BY <3>2
      <4>2. f[k] = IF k = 0 THEN <<>>
                   ELSE IF log[k].event.event = "CallSucceeded" THEN Append(f[k - 1], log[k])
                   ELSE f[k - 1]
        <5>1. k \in 0 .. m
          BY <4>1
        <5> QED BY <2>1, <5>1, Zenon DEF Among
      <4> QED BY <4>1, <4>2
    <3> QED BY <3>1, <3>2
  <2>3. Among(g, log, m + 1)
    BY <2>2 DEF Among
  <2> QED BY <2>3
<1>3. Nat \subseteq S
  BY <1>1, <1>2, Induction
<1> QED BY <1>3

(* The successes of a log (prepare_typed_continuation: the loop) are the   *)
(* last of these lists.                                                    *)
LEMMA SuccessesAreAmong ==
  ASSUME NEW log, Len(log) \in Nat
  PROVE  \E f : Among(f, log, Len(log)) /\ Successes(log) = f[Len(log)]
<1>1. PICK f : Among(f, log, Len(log))
  BY AmongExists
<1> DEFINE r == CHOOSE g : Among(g, log, Len(log))
<1>2. Among(r, log, Len(log))
  BY <1>1
<1>3. Successes(log) = r[Len(log)]
  BY DEF Successes, Among
<1> QED BY <1>2, <1>3

(* Where the successes are the third line, the fifth, and so on, they are  *)
(* found there in that order.                                              *)
LEMMA SuccessesAreFound ==
  ASSUME NEW log \in Seq(Entries), NEW s \in Nat,
         \A i \in 1 .. s : 2 * i + 1 <= Len(log) /\ log[2 * i + 1].event.event = "CallSucceeded",
         \A j \in 1 .. Len(log) : log[j].event.event = "CallSucceeded" =>
           \E i \in 1 .. s : j = 2 * i + 1
  PROVE  \A i \in 1 .. s : Successes(log)[i] = log[2 * i + 1]
<1> DEFINE Found(n) == [i \in 1 .. n |-> log[2 * i + 1]]
           Upto(n, m) == (n = 0 \/ 2 * n + 1 <= m) /\ (n = s \/ m < 2 * n + 3)
<1>0. Len(log) \in Nat
  OBVIOUS
<1>1. PICK f : Among(f, log, Len(log)) /\ Successes(log) = f[Len(log)]
  BY <1>0, SuccessesAreAmong
<1>a. /\ f[0] = <<>>
      /\ \A m \in Nat : m + 1 <= Len(log) =>
           f[m + 1] = IF log[m + 1].event.event = "CallSucceeded" THEN Append(f[m], log[m + 1])
                      ELSE f[m]
  <2>1. \A k \in 0 .. Len(log) :
          f[k] = IF k = 0 THEN <<>>
                 ELSE IF log[k].event.event = "CallSucceeded" THEN Append(f[k - 1], log[k])
                 ELSE f[k - 1]
    BY <1>1, Zenon DEF Among
  <2>2. ASSUME NEW m \in Nat, m + 1 <= Len(log)
        PROVE  f[m + 1] = IF log[m + 1].event.event = "CallSucceeded" THEN Append(f[m], log[m + 1])
                          ELSE f[m]
    <3>1. m + 1 \in 0 .. Len(log) /\ m + 1 # 0 /\ (m + 1) - 1 = m
      BY <1>0, <2>2
    <3> QED BY <2>1, <3>1
  <2> QED BY <1>0, <2>1, <2>2
<1> DEFINE P(n, m) == f[m] = Found(n) /\ Upto(n, m)
           S == { m \in Nat : m <= Len(log) => \E n \in 0 .. s : P(n, m) }
<1>2. 0 \in S
  <2>1. Found(0) = <<>> /\ Upto(0, 0) /\ 0 \in 0 .. s
    OBVIOUS
  <2>2. P(0, 0)
    BY <1>a, <2>1
  <2> HIDE DEF P
  <2> QED BY <2>1, <2>2
<1>3. ASSUME NEW m \in Nat, m \in S PROVE m + 1 \in S
  <2>1. SUFFICES ASSUME m + 1 <= Len(log) PROVE \E n \in 0 .. s : P(n, m + 1)
    <3> HIDE DEF P
    <3> QED OBVIOUS
  <2>2. PICK n \in 0 .. s : P(n, m)
    <3> HIDE DEF P
    <3> QED BY <1>0, <1>3, <2>1
  <2>3. f[m] = Found(n) /\ Upto(n, m)
    BY <2>2
  <2>4. f[m + 1] = IF log[m + 1].event.event = "CallSucceeded" THEN Append(f[m], log[m + 1])
                   ELSE f[m]
    BY <1>a, <2>1
  <2>5. CASE log[m + 1].event.event = "CallSucceeded"
    <3>1. m + 1 \in 1 .. Len(log)
      BY <1>0, <2>1
    <3>2. PICK i \in 1 .. s : m + 1 = 2 * i + 1
      BY <2>5, <3>1
    <3>3. i = n + 1
      BY <2>3, <3>2
    <3>4. Found(n) \in Seq(Entries) /\ Len(Found(n)) = n
      <4>1. \A j \in 1 .. n : 2 * j + 1 \in 1 .. Len(log)
        BY <1>0
      <4>2. \A j \in 1 .. n : log[2 * j + 1] \in Entries
        BY <4>1
      <4> QED BY <4>2
    <3>5. log[m + 1] \in Entries
      BY <3>1
    <3>6. Append(Found(n), log[m + 1]) = Found(n + 1)
      <4>1. log[2 * (n + 1) + 1] = log[m + 1]
        BY <3>2, <3>3
      <4> QED BY <3>4, <3>5, <4>1
    <3>7. n + 1 \in 0 .. s /\ Upto(n + 1, m + 1)
      BY <3>2, <3>3
    <3>8. P(n + 1, m + 1)
      BY <2>3, <2>4, <2>5, <3>6, <3>7
    <3> HIDE DEF P
    <3> QED BY <3>7, <3>8
  <2>6. CASE log[m + 1].event.event # "CallSucceeded"
    <3>1. Upto(n, m + 1)
      <4>1. CASE n = s
        BY <2>3, <4>1
      <4>2. CASE n # s
        <5>1. n + 1 \in 1 .. s /\ m < 2 * n + 3
          BY <2>3, <4>2
        <5>2. log[2 * (n + 1) + 1].event.event = "CallSucceeded"
          BY <5>1
        <5>3. m + 1 # 2 * (n + 1) + 1
          BY <2>6, <5>2
        <5>4. m + 1 # 2 * n + 3
          BY <5>3
        <5> QED BY <2>3, <5>1, <5>4
      <4> QED BY <4>1, <4>2
    <3>2. P(n, m + 1)
      BY <2>3, <2>4, <2>6, <3>1
    <3> HIDE DEF P
    <3> QED BY <3>2
  <2> QED BY <2>5, <2>6
<1>4. Nat \subseteq S
  <2> HIDE DEF S
  <2> QED BY <1>2, <1>3, Induction
<1>5. PICK n \in 0 .. s : P(n, Len(log))
  <2>1. Len(log) \in S /\ Len(log) <= Len(log)
    <3> HIDE DEF S
    <3> QED BY <1>0, <1>4
  <2> HIDE DEF P
  <2> QED BY <2>1
<1>6. f[Len(log)] = Found(n) /\ Upto(n, Len(log))
  BY <1>5
<1>7. n = s
  <2>1. SUFFICES ASSUME n # s PROVE FALSE
    OBVIOUS
  <2>2. n + 1 \in 1 .. s /\ Len(log) < 2 * n + 3
    BY <1>0, <1>6, <2>1
  <2>3. 2 * (n + 1) + 1 <= Len(log)
    BY <2>2
  <2> QED BY <1>0, <2>2, <2>3
<1> QED BY <1>1, <1>6, <1>7

(* A continuation inspects with the operators of its own instance.         *)
LEMMA SameParentReading ==
  ASSUME NEW log, NEW tail
  PROVE  Child!Inspect(log, tail) = Inspect(log, tail)
BY DEF Child!Inspect, Inspect, Child!Summarize, Summarize, Child!SummaryState, SummaryState,
   Child!LifecycleOf, LifecycleOf, Child!FreshLifecycle, FreshLifecycle,
   Child!ReadLine, ReadLine, Child!Accepts, Accepts, Child!After, After,
   Child!StartAllowed, StartAllowed, Child!FinishAllowed, FinishAllowed,
   Child!MaxEntries, MaxEntries, Child!Digest, Digest

(* A continuation's own instance of the inspector reads a log the same     *)
(* way.                                                                    *)
LEMMA SameChildReading ==
  ASSUME NEW log, NEW expected, NEW parent
  PROVE  Child!ChildLifecycleOf(log, expected, parent) = ChildLifecycleOf(log, expected, parent)
BY DEF Child!ChildLifecycleOf, ChildLifecycleOf, Child!FreshChild, FreshChild,
   Child!ChildReadLine, ChildReadLine, Child!ChildAccepts, ChildAccepts,
   Child!ChildAfter, ChildAfter, Child!HeaderMatches, HeaderMatches,
   Child!ChildFinishAllowed, ChildFinishAllowed, Child!Suffix, Suffix,
   Child!MaxContinuationEntries, MaxContinuationEntries, Child!Digest, Digest

(* A continuation's own instance of the inspector sums a log up the same   *)
(* way.                                                                    *)
LEMMA SameChildInspection ==
  Child!InspectChild(Child!File, plan.log, plan.expected) =
    InspectChild([lines |-> lines, torn |-> torn], plan.log, plan.expected)
<1>1. Child!Inspect(plan.log.lines, plan.log.torn) = Inspect(plan.log.lines, plan.log.torn)
  BY SameParentReading
<1>2. ASSUME NEW parent
      PROVE  Child!InspectBelow(parent, Child!File, plan.expected)
               = InspectBelow(parent, [lines |-> lines, torn |-> torn], plan.expected)
  BY SameChildReading
     DEF Child!InspectBelow, InspectBelow, Child!Anchored, Anchored, Child!File,
         Child!ParentAdmissible, ParentAdmissible, Child!ChildSummary, ChildSummary,
         Child!ChildState, ChildState
<1>3. Child!InspectBelow(Inspect(plan.log.lines, plan.log.torn), Child!File, plan.expected)
        = InspectBelow(Inspect(plan.log.lines, plan.log.torn), [lines |-> lines, torn |-> torn],
                       plan.expected)
  BY <1>2, SMTT(30)
<1> QED BY <1>1, <1>3 DEF Child!InspectChild, InspectChild, Child!File

(* Its recorded successes are those of the log.                            *)
LEMMA SameSuccesses ==
  ASSUME NEW i
  PROVE  Child!Restored(lines, i).signature = Decode(Successes(lines)[i].event.payload)
BY DEF Child!Restored, Child!Successes, Successes, Child!Decode, Decode

(* The summary of a continuation's log that is accepted.                   *)
LEMMA AcceptedChildIsSummarized ==
  ASSUME plan \in Plans, lines \in Seq(Entries), lines # <<>>, ~torn,
         NEW c, c = ChildLifecycleOf(lines, plan.expected, Prior), c # NoValue
  PROVE  LET s == InspectChild([lines |-> lines, torn |-> torn], plan.log, plan.expected)
         IN  /\ s # NoValue
             /\ s.successful = c.successful /\ s.failed = c.failed /\ s.unknown = c.active
             /\ s.successful + s.neverStarted <= Len(plan.remaining)
<1>1. PICK s : s = InspectChild([lines |-> lines, torn |-> torn], plan.log, plan.expected)
  OBVIOUS
<1>2. s = ChildSummary(c)
  <2>1. /\ plan.expected.semantics = "PureIndependent" /\ plan.log = plan.expected.log
        /\ Anchored(Prior, plan.expected) /\ ParentAdmissible(Prior)
    BY ParentIsKnown
  <2>2. s = InspectBelow(Prior, [lines |-> lines, torn |-> torn], plan.expected)
    BY <1>1, <2>1 DEF InspectChild, Prior
  <2> QED BY <2>1, <2>2 DEF InspectBelow
<1>3. s = [state |-> ChildState(c), run |-> c.header.run, successful |-> c.successful,
           failed |-> c.failed, unknown |-> c.active,
           neverStarted |-> Len(c.header.remaining) - c.successful
                              - (IF c.failed # NoValue \/ c.active # NoValue THEN 1 ELSE 0)]
  BY <1>2 DEF ChildSummary
<1>4. Prior.successful \in 0 .. Len(Scenarios)
  BY ParentIsKnown
<1>5. ChildLawful(c, lines, Len(lines), plan.expected, Prior) /\ Len(lines) \in Nat /\ Len(lines) > 0
  <2>1. Len(lines) \in Nat /\ Len(lines) > 0
    OBVIOUS
  <2> QED BY <1>4, <2>1, ChildAcceptedIsLawful
<1>6. /\ c.header \in Headers \cup ChildHeaders /\ HeaderMatches(c.header, plan.expected, Prior)
      /\ c.successful + (IF c.active # NoValue \/ c.failed # NoValue THEN 1 ELSE 0)
            <= Len(c.header.remaining)
      /\ c.successful \in Nat /\ c.failed \in {NoValue} \cup Targets
      /\ c.active \in {NoValue} \cup Targets /\ c.terminal \in {NoValue} \cup Events
      /\ c.terminal # NoValue => c.terminal.event = "Finished"
  BY <1>5 DEF ChildLawful, ChildLifecycles
<1>7. c.header.remaining = plan.remaining /\ Len(plan.remaining) \in Nat
  <2>1. c.header.remaining = Suffix(Prior.successful) /\ plan.remaining = Suffix(Prior.successful)
    BY <1>6, ParentIsKnown DEF HeaderMatches
  <2>2. Len(Suffix(Prior.successful)) \in Nat
    BY <1>4, ScenariosAssumption DEF Suffix
  <2> QED BY <2>1, <2>2
<1>8. s.neverStarted \in Nat /\ s.successful + s.neverStarted <= Len(plan.remaining)
  <2>1. s.neverStarted = Len(plan.remaining) - c.successful
                           - (IF c.failed # NoValue \/ c.active # NoValue THEN 1 ELSE 0)
        /\ s.successful = c.successful
    BY <1>3, <1>7
  <2>2. c.successful + (IF c.active # NoValue \/ c.failed # NoValue THEN 1 ELSE 0)
            <= Len(plan.remaining) /\ c.successful \in Nat
    BY <1>6, <1>7
  <2> QED BY <1>7, <2>1, <2>2
<1>9. c.header.run \in RunIds
  <2>1. CASE c.header \in Headers
    BY <2>1 DEF Headers
  <2>2. CASE c.header \in ChildHeaders
    BY <2>2 DEF ChildHeaders
  <2> QED BY <1>6, <2>1, <2>2
<1>10. ChildState(c) \in States
  <2>1. c.terminal # NoValue => c.terminal.terminal \in {"Completed", "Interrupted", "Failed"}
    BY <1>6, ValuesAssumption DEF Events
  <2> QED BY <2>1 DEF ChildState, States
<1>11. s \in ChildSummaries
  <2>1. Len(c.header.remaining) - c.successful
          - (IF c.failed # NoValue \/ c.active # NoValue THEN 1 ELSE 0) \in Nat
    BY <1>3, <1>8
  <2> QED BY <1>3, <1>6, <1>9, <1>10, <2>1 DEF ChildSummaries
<1>12. s # NoValue
  BY <1>11, ValuesAssumption
<1>13. s.successful = c.successful /\ s.failed = c.failed /\ s.unknown = c.active
  BY <1>3
<1> QED BY <1>1, <1>8, <1>12, <1>13

(* The summary of the log of a continuation is the truth about its engine. *)
LEMMA ContinuationInspectionIsTrue ==
  ASSUME JournalInv, InspectionInv, ~IsParent
  PROVE  Child!ChildInspectionIsTrue
<1>1. SUFFICES ASSUME lines # <<>>, ~torn,
                      NEW s, s = InspectChild([lines |-> lines, torn |-> torn], plan.log, plan.expected)
      PROVE  /\ s # NoValue
             /\ Calls <= s.successful + (IF s.failed # NoValue \/ s.unknown # NoValue THEN 1 ELSE 0)
             /\ \A i \in 1 .. s.successful :
                  engine[i].result = Decode(Successes(lines)[i].event.payload)
             /\ s.failed # NoValue => engine[s.successful + 1].result \in EngineErrors
             /\ s.successful + s.neverStarted <= Len(plan.remaining)
  BY SameChildInspection, SameSuccesses DEF Child!ChildInspectionIsTrue, Child!Summary, Calls
<1>2. /\ lines \in Seq(Entries) /\ Len(lines) \in Nat /\ Len(lines) > 0
      /\ torn \in BOOLEAN /\ plan \in Plans
  <2>1. lines \in Seq(Entries) /\ torn \in BOOLEAN /\ plan \in Plans
    BY DEF JournalInv, ProcessType
  <2> QED BY <1>1, <2>1
<1>3. PICK c : c = ChildLifecycleOf(lines, plan.expected, Prior)
  OBVIOUS
<1>4. c # NoValue
  BY <1>1, <1>3 DEF InspectionInv, Accepted, Read
<1>5. /\ s # NoValue
      /\ s.successful = c.successful /\ s.failed = c.failed /\ s.unknown = c.active
      /\ s.successful + s.neverStarted <= Len(plan.remaining)
  BY <1>1, <1>2, <1>3, <1>4, AcceptedChildIsSummarized
<1>6. ChildLawful(c, lines, Len(lines), plan.expected, Prior)
  <2>1. Prior.successful \in 0 .. Len(Scenarios)
    BY <1>2, ParentIsKnown
  <2> QED BY <1>2, <1>3, <1>4, <2>1, ChildAcceptedIsLawful
<1>7. /\ Len(lines) = 2 * c.successful + 1 + (IF c.active # NoValue THEN 1 ELSE 0)
                + (IF c.failed # NoValue THEN 2 ELSE 0) + (IF c.terminal # NoValue THEN 1 ELSE 0)
      /\ c.terminal # NoValue => lines[Len(lines)].event.event = "Finished" /\ c.active = NoValue
      /\ c.active = NoValue \/ c.failed = NoValue
      /\ \A i \in 1 .. c.successful : lines[2 * i + 1].event.event = "CallSucceeded"
      /\ c.failed # NoValue => lines[2 * c.successful + 3].event.event = "CallFailed"
      /\ \A j \in 1 .. Len(lines) : lines[j].event.event = "CallSucceeded" =>
           \E i \in 1 .. c.successful : j = 2 * i + 1
      /\ c.successful \in Nat
  BY <1>2, <1>6 DEF ChildLawful, ChildLifecycles
<1>8. /\ Calls \in Nat /\ DOMAIN engine = 1 .. Calls /\ sequence \in Nat /\ sequence <= Len(lines)
      /\ \A i \in DOMAIN engine : 2 * i <= sequence /\ lines[2 * i].event = CallStarted(engine[i].target)
  BY Numbers DEF JournalInv, Filed
<1>9. 2 * c.successful + 1 <= Len(lines)
      /\ (c.failed # NoValue => 2 * c.successful + 3 <= Len(lines))
  BY <1>2, <1>7
<1>10. Calls <= c.successful + (IF c.failed # NoValue \/ c.active # NoValue THEN 1 ELSE 0)
  <2>1. CASE Calls = 0
    BY <1>7, <2>1
  <2>2. CASE Calls > 0
    <3>1. 2 * Calls <= Len(lines) /\ lines[2 * Calls].event.event = "CallStarted"
      <4>1. Calls \in DOMAIN engine
        BY <1>8, <2>2
      <4>2. 2 * Calls <= sequence /\ lines[2 * Calls].event = CallStarted(engine[Calls].target)
        BY <1>8, <4>1
      <4> QED BY <1>2, <1>8, <4>2 DEF CallStarted
    <3>2. Len(lines) = 2 * c.successful + 1 + (IF c.active # NoValue THEN 1 ELSE 0)
                + (IF c.failed # NoValue THEN 2 ELSE 0) + (IF c.terminal # NoValue THEN 1 ELSE 0)
          /\ c.successful \in Nat /\ (c.active = NoValue \/ c.failed = NoValue)
          /\ (c.terminal # NoValue => c.active = NoValue /\ 2 * Calls # Len(lines))
      BY <1>7, <3>1
    <3>3. 2 * Calls <= Len(lines) /\ Calls \in Nat /\ Len(lines) \in Nat
      BY <1>2, <1>8, <3>1
    <3>4. CASE c.terminal = NoValue
      <4>1. Len(lines) <= 2 * c.successful + (IF c.failed # NoValue \/ c.active # NoValue THEN 3 ELSE 1)
        BY <3>2, <3>4
      <4> QED BY <3>2, <3>3, <4>1
    <3>5. CASE c.terminal # NoValue
      <4>1. Len(lines) = 2 * c.successful + (IF c.failed # NoValue THEN 4 ELSE 2) /\ c.active = NoValue
        BY <3>2, <3>5
      <4>2. 2 * Calls # Len(lines)
        BY <3>2, <3>5
      <4>3. c.successful \in Nat
        BY <3>2
      <4>4. CASE c.failed # NoValue
        <5>1. Len(lines) = 2 * c.successful + 4
          BY <4>1, <4>4
        <5>2. Calls <= c.successful + 1
          BY <3>3, <4>2, <4>3, <5>1
        <5> QED BY <4>4, <5>2
      <4>5. CASE c.failed = NoValue
        <5>1. Len(lines) = 2 * c.successful + 2
          BY <4>1, <4>5
        <5>2. Calls <= c.successful + 0
          BY <3>3, <4>2, <4>3, <5>1
        <5> QED BY <4>1, <4>5, <5>2
      <4> QED BY <4>4, <4>5
    <3> QED BY <3>4, <3>5
  <2> QED BY <1>8, <2>1, <2>2
<1>11. \A i \in 1 .. c.successful : Successes(lines)[i] = lines[2 * i + 1]
  <2>1. \A i \in 1 .. c.successful : 2 * i + 1 <= Len(lines) /\ lines[2 * i + 1].event.event = "CallSucceeded"
    BY <1>2, <1>7, <1>9
  <2> QED BY <1>2, <1>7, <2>1, SuccessesAreFound
<1>12. \A k \in 1 .. Len(lines) : lines[k].event.event \in {"CallSucceeded", "CallFailed"} =>
         \E i \in 1 .. Calls :
           /\ k = 2 * i + 1
           /\ engine[i].result = Decode(lines[k].event.payload)
           /\ engine[i].result \in Values
           /\ lines[k].event.event = "CallSucceeded" <=> engine[i].result \in Signatures
  BY DEF InspectionInv, Recorded
<1>13. ASSUME NEW i \in 1 .. c.successful
       PROVE  engine[i].result = Decode(Successes(lines)[i].event.payload)
  <2>1. 2 * i + 1 \in 1 .. Len(lines) /\ lines[2 * i + 1].event.event = "CallSucceeded"
    BY <1>2, <1>7, <1>9
  <2>2. PICK j \in 1 .. Calls : 2 * i + 1 = 2 * j + 1 /\ engine[j].result = Decode(lines[2 * i + 1].event.payload)
    BY <1>12, <2>1
  <2>3. i = j
    BY <1>7, <1>8, <2>2
  <2> QED BY <1>11, <2>2, <2>3
<1>14. ASSUME c.failed # NoValue PROVE engine[c.successful + 1].result \in EngineErrors
  <2>1. 2 * c.successful + 3 \in 1 .. Len(lines) /\ lines[2 * c.successful + 3].event.event = "CallFailed"
    BY <1>2, <1>7, <1>9, <1>14
  <2>2. PICK j \in 1 .. Calls :
          /\ 2 * c.successful + 3 = 2 * j + 1
          /\ engine[j].result \in Values /\ engine[j].result \notin Signatures
    BY <1>12, <2>1
  <2>3. j = c.successful + 1
    BY <1>7, <1>8, <2>2
  <2> QED BY <2>2, <2>3 DEF Values
<1> QED BY <1>5, <1>10, <1>13, <1>14

(* Writer and reader agree: whatever fails and wherever the process dies,  *)
(* a file with a header is accepted by its inspector, a recorded return is *)
(* the engine's own, no call is missing from the counts, and what is       *)
(* reported as never started was never passed to the engine.               *)
THEOREM InspectionTellsTheTruth == Spec => []InspectionIsTrue
<1>1. JournalInv /\ InspectionInv => InspectionIsTrue
  BY RunInspectionIsTrue, ContinuationInspectionIsTrue DEF InspectionIsTrue
<1> QED BY <1>1, InspectionIsKept, PTL

----------------------------------------------------------------------------
(* The report: what ties it to the file and to the engine.                 *)

(* A run calls the baseline before its candidates.                         *)
Ahead == IF IsParent THEN 1 ELSE 0

(* The candidate the evaluator has taken was blocked before the engine.    *)
Unsent ==
  IF status.kind = "EngineFailed" /\ status.error = Blocked /\ status.scenario # NoValue
  THEN 1 ELSE 0

(* Which calls have reached the engine, whatever became of their entries.  *)
Pending == wpc \in {"engine", "blocked"} \/ (Emitting /\ Intent)
Sent ==
  /\ wpc = "closed" => ~crashed
  /\ wpc # "idle" =>
       /\ Pending => pc = "calling" /\ current = Due(Calls + 1) /\ Calls + 1 = Behind
       /\ Inside => pc = "calling" /\ current = Due(Calls) /\ Calls = Behind /\ Calls > 0
       /\ wpc = "restore" => ~IsParent /\ pc = "calling" /\ current = Baseline /\ Calls = taken
       /\ wpc = "evaluate" => pc # "calling"
       /\ Emitting /\ event.event = "Initialized" => pc = "admit"
       /\ (Emitting /\ event.event = "Finished") \/ wpc = "closed" => pc = "done"
       /\ pc \notin {"calling", "report", "done"} => Calls = Behind
       /\ IsParent /\ (baseline = NoValue \/ current = Baseline) => taken = 0
       /\ pc \notin {"report", "done"} => status.kind = "Completed"
       /\ pc \in {"report", "done"} =>
            /\ Calls = taken + Ahead - Unsent \/ (IsParent /\ Calls = 0 /\ taken = 0 /\ Unsent = 0)
            /\ Unsent = 1 => taken > 0 /\ status.scenario = Todo[taken]

(* There is room for whatever a run still has to write.                    *)
Room == Clean /\ IsParent /\ wpc = "emit" => sequence < MaxEntries
Fits == IsParent /\ wpc = "emit" /\ error = NoValue => sequence < MaxEntries

(* What the evaluator reports is in the file.                              *)
Kept ==
  Clean =>
    /\ \A i \in DOMAIN outcomes :
         /\ 2 * (i + Ahead) + 1 <= sequence
         /\ lines[2 * (i + Ahead) + 1].event =
              CallSucceeded(outcomes[i].scenario, Encode(outcomes[i].signature))
    /\ wpc = "answer" => lines[sequence].event = Returned(current)

ReportInv == Sent /\ Fits /\ Kept
----------------------------------------------------------------------------
(* Every step keeps track of which calls the engine has received.          *)

LEMMA SentKept ==
  ASSUME JournalInv, Sent, [Next]_vars
  PROVE  Sent'
<1>0. Moves
  BY StepsMove
<1>1. /\ Calls \in Nat /\ taken \in Nat /\ taken <= Len(input)
      /\ Emitting => event \in Events
      /\ wpc # "idle" => input = Todo /\ Len(input) \in Nat
  <2>1. Calls \in Nat
    BY Numbers
  <2>2. /\ taken \in Nat /\ taken <= Len(input)
        /\ Emitting => event \in Events
        /\ wpc # "idle" => input = Todo
    BY DEF JournalInv, ProcessType
  <2>3. Len(Todo) \in Nat
    BY TodoIsBounded, ScenariosAssumption DEF JournalInv
  <2> QED BY <2>1, <2>2, <2>3
<1>2. /\ Baseline \notin ScenarioIds /\ NoValue \notin ScenarioIds /\ NoValue # Baseline
      /\ NoValue \notin Signatures /\ Blocked \notin Values \cup {NoValue}
  BY ScenariosAssumption, ValuesAssumption DEF Values
<1> USE DEF process, controls, report, file, entry
<1>3. CASE Starts
  <2>1. /\ wpc' = "emit" /\ pc' = "admit" /\ baseline' = NoValue /\ taken' = 0 /\ crashed' = FALSE
        /\ status' = [kind |-> "Completed"] /\ engine' = engine /\ current' = NoValue
        /\ ~IsParent /\ ~IsParent' /\ wpc = "idle" /\ event'.event = "Initialized"
    BY <1>3 DEF Starts, IsParent, Initialized
  <2>2. Calls' = 0 /\ Behind' = 0
    BY <2>1 DEF JournalInv, Latched, Calls, Behind
  <2> QED BY <2>1, <2>2 DEF Sent, Pending, Inside, Emitting, Intent, Return
<1>4. CASE Rests
  <2>1. UNCHANGED <<role, plan, input, pc, baseline, taken, status, current, wpc, event, engine, crashed>>
    BY <1>4 DEF Rests
  <2>2. Todo' = Todo /\ IsParent' = IsParent /\ \A i : Due(i)' = Due(i)
    BY <2>1, SameWork
  <2> QED BY <2>1, <2>2 DEF Sent, Pending, Inside, Emitting, Intent, Return, Calls, Behind, Ahead, Unsent
<1>5. SUFFICES ASSUME ~crashed, ~Starts, ~Rests PROVE Sent'
  BY <1>0, <1>3, <1>4 DEF Moves
<1>6. UNCHANGED process /\ wpc # "idle"
  <2>1. UNCHANGED process
    BY <1>0, <1>5 DEF Moves, Evaluates, IntendsBaseline, IntendsScenario, CallsRestored,
       ReturnsRestored, Invokes, EngineAnswers, Records, Answers, AnswersBlocked, Closes,
       EmitsNothing, Writes, Syncs, SyncFails, Dies
  <2>2. wpc # "idle"
    BY <1>0, <1>5 DEF Moves, Evaluates, IntendsBaseline, IntendsScenario, CallsRestored,
       ReturnsRestored, Invokes, EngineAnswers, Records, Answers, AnswersBlocked, Closes,
       EmitsNothing, Writes, Syncs, SyncFails, Dies, JournalInv, Latched
  <2> QED BY <2>1, <2>2
<1>7. Todo' = Todo /\ IsParent' = IsParent /\ Ahead' = Ahead /\ \A i : Due(i)' = Due(i)
  BY <1>6, SameWork DEF Ahead
<1>8. /\ Pending => pc = "calling" /\ current = Due(Calls + 1) /\ Calls + 1 = Behind
      /\ Inside => pc = "calling" /\ current = Due(Calls) /\ Calls = Behind /\ Calls > 0
      /\ wpc = "restore" => ~IsParent /\ pc = "calling" /\ current = Baseline /\ Calls = taken
      /\ wpc = "evaluate" => pc # "calling"
      /\ Emitting /\ event.event = "Initialized" => pc = "admit"
      /\ (Emitting /\ event.event = "Finished") \/ wpc = "closed" => pc = "done"
      /\ pc \notin {"calling", "report", "done"} => Calls = Behind
      /\ IsParent /\ (baseline = NoValue \/ current = Baseline) => taken = 0
      /\ pc \notin {"report", "done"} => status.kind = "Completed"
      /\ pc \in {"report", "done"} =>
            /\ Calls = taken + Ahead - Unsent \/ (IsParent /\ Calls = 0 /\ taken = 0 /\ Unsent = 0)
            /\ Unsent = 1 => taken > 0 /\ status.scenario = Todo[taken]
  BY <1>6 DEF Sent
<1>9. CASE Evaluates
  <2>1. /\ wpc = "evaluate" /\ wpc' = "evaluate" /\ crashed' = crashed
        /\ UNCHANGED <<baseline, taken, current, engine>> /\ pc # "calling" /\ pc' # "calling"
    BY <1>8, <1>9 DEF Evaluates
  <2>2. Calls' = Calls /\ Behind' = Behind
    BY <1>7, <2>1 DEF Calls, Behind
  <2>3. CASE pc \notin {"report", "done"} /\ pc' \notin {"report", "done"}
    <3>1. UNCHANGED status
      BY <1>9, <2>3 DEF Evaluates
    <3> QED BY <1>5, <1>7, <1>8, <2>1, <2>2, <2>3, <3>1 DEF Sent, Pending, Inside, Emitting
  <2>4. CASE pc \notin {"report", "done"} /\ pc' \in {"report", "done"}
    <3>1. status'.kind # "EngineFailed" /\ Calls = Behind
      BY <1>8, <1>9, <2>1, <2>4 DEF Evaluates, Interruption
    <3>2. Unsent' = 0
      BY <3>1 DEF Unsent
    <3>3. Calls = taken + Ahead - 0 \/ (IsParent /\ Calls = 0 /\ taken = 0)
      BY <1>1, <1>8, <2>1, <2>4, <3>1 DEF Behind, Ahead
    <3> QED BY <1>5, <1>7, <1>8, <2>1, <2>2, <2>4, <3>2, <3>3 DEF Sent, Pending, Inside, Emitting
  <2>5. CASE pc \in {"report", "done"}
    <3>1. UNCHANGED status /\ pc' = "done"
      BY <1>9, <2>5 DEF Evaluates
    <3>2. Unsent' = Unsent
      BY <3>1 DEF Unsent
    <3> QED BY <1>5, <1>7, <1>8, <2>1, <2>2, <2>5, <3>1, <3>2 DEF Sent, Pending, Inside, Emitting
  <2> QED BY <2>3, <2>4, <2>5
<1>10. CASE IntendsBaseline
  <2>1. /\ IsParent /\ baseline = NoValue /\ pc = "step" /\ pc' = "calling" /\ current' = Baseline
        /\ wpc = "evaluate" /\ wpc' = "emit" /\ event' = CallStarted(Baseline)
        /\ UNCHANGED <<baseline, taken, status, engine, crashed>>
    BY <1>10 DEF IntendsBaseline
  <2>2. taken = 0 /\ Calls = 0 /\ Calls' = 0 /\ Behind' = 1
    BY <1>7, <1>8, <2>1 DEF Calls, Behind
  <2>3. Due(1) = Baseline
    BY <2>1 DEF Due
  <2> QED BY <1>5, <1>7, <1>8, <2>1, <2>2, <2>3
          DEF Sent, Pending, Inside, Emitting, Intent, Return, CallStarted
<1>11. CASE IntendsScenario
  <2>1. /\ baseline # NoValue /\ pc = "step" /\ pc' = "calling" /\ current' = input[taken + 1]
        /\ wpc = "evaluate" /\ taken' = taken + 1 /\ taken < Len(input)
        /\ wpc' = "blocked" \/ (wpc' = "emit" /\ event'.event = "CallStarted")
        /\ UNCHANGED <<baseline, status, engine, crashed>>
    BY <1>11 DEF IntendsScenario, CallStarted
  <2>2. Calls' = Calls /\ Calls + 1 = Behind' /\ Calls = taken + Ahead
    BY <1>1, <1>7, <1>8, <2>1 DEF Calls, Behind, Ahead
  <2>3. Due(Calls + 1) = Todo[taken + 1]
    <3>1. CASE IsParent
      BY <1>1, <2>2, <3>1 DEF Due, Todo, Ahead
    <3>2. CASE ~IsParent
      BY <1>1, <2>2, <3>2 DEF Due, Todo, Ahead
    <3> QED BY <3>1, <3>2
  <2>4. current' # Baseline
    <3>1. Todo[taken + 1] \in ScenarioIds
      BY <1>1, <1>6, <2>1, TodoIsBounded DEF JournalInv
    <3> QED BY <1>1, <1>2, <1>6, <2>1, <3>1
  <2> QED BY <1>1, <1>5, <1>6, <1>7, <1>8, <2>1, <2>2, <2>3, <2>4
          DEF Sent, Pending, Inside, Emitting, Intent, Return
<1>12. CASE CallsRestored
  <2>1. /\ ~IsParent /\ pc = "step" /\ pc' = "calling" /\ current' = Baseline
        /\ wpc = "evaluate" /\ wpc' = "restore"
        /\ UNCHANGED <<baseline, taken, status, engine, crashed>>
    BY <1>12 DEF CallsRestored
  <2>2. Calls' = Calls /\ Calls = taken + 0
    BY <1>8, <2>1 DEF Calls, Behind
  <2>3. Calls = taken
    BY <1>1, <2>2
  <2> QED BY <1>5, <1>7, <1>8, <2>1, <2>2, <2>3 DEF Sent, Pending, Inside, Emitting
<1>13. CASE ReturnsRestored
  <2>1. /\ ~IsParent /\ pc = "calling" /\ pc' = "progress" /\ current' = NoValue
        /\ wpc = "restore" /\ wpc' = "evaluate"
        /\ UNCHANGED <<taken, status, engine, crashed>>
    BY <1>13 DEF ReturnsRestored
  <2>2. Calls' = Calls /\ Calls = taken /\ Behind' = taken + 0
    BY <1>7, <1>8, <2>1 DEF Calls, Behind
  <2>3. Calls' = Behind'
    BY <1>1, <2>2
  <2> QED BY <1>5, <1>7, <1>8, <2>1, <2>3 DEF Sent, Pending, Inside, Emitting
<1>14. CASE Invokes
  <2>1. /\ wpc = "engine" /\ wpc' = "in engine" /\ Calls' = Calls + 1
        /\ UNCHANGED <<pc, baseline, taken, status, current, crashed>>
    <3>1. /\ engine' = Append(engine, [target |-> current, result |-> NoValue])
          /\ engine \in Seq(EngineCalls)
      BY <1>14, Numbers DEF Invokes
    <3>2. Len(engine') = Len(engine) + 1
      BY <3>1
    <3> QED BY <1>14, <3>2 DEF Invokes, Calls
  <2>2. pc = "calling" /\ current = Due(Calls + 1) /\ Calls + 1 = Behind /\ Behind' = Behind
    BY <1>7, <1>8, <2>1 DEF Pending, Behind
  <2>3. Calls' = Behind' /\ current' = current
    BY <2>1, <2>2
  <2>4. Calls' > 0
    <3>1. Calls \in Nat /\ Calls' = Calls + 1
      BY <1>1, <2>1
    <3> QED BY <3>1
  <2>5. current' = Due(Calls)'
    <3>1. \A i : i = Calls + 1 => Due(i)' = current
      BY <1>7, <2>2
    <3>2. \A i : i = Calls' => Due(i)' = current
      BY <2>1, <3>1
    <3> QED BY <2>3, <3>2
  <2>6. /\ ~Pending' /\ ~Emitting' /\ pc' = "calling" /\ wpc' = "in engine"
        /\ IsParent' /\ (baseline' = NoValue \/ current' = Baseline) => taken' = 0
        /\ status'.kind = "Completed"
    BY <1>7, <1>8, <2>1, <2>2 DEF Pending, Emitting
  <2> QED BY <2>3, <2>4, <2>5, <2>6 DEF Sent
<1>15. CASE EngineAnswers
  <2>1. /\ wpc = "in engine" /\ wpc' = "returned" /\ Calls' = Calls
        /\ UNCHANGED <<pc, baseline, taken, status, current, crashed>>
    <3>1. PICK value \in Values : engine' = [engine EXCEPT ![Calls].result = value]
      BY <1>15 DEF EngineAnswers
    <3>2. Len(engine') = Len(engine)
      BY <3>1, Numbers
    <3> QED BY <1>15, <3>2 DEF EngineAnswers, Calls
  <2>2. pc = "calling" /\ current = Due(Calls) /\ Calls = Behind /\ Calls > 0 /\ Behind' = Behind
    BY <1>7, <1>8, <2>1 DEF Inside, Behind
  <2> QED BY <1>1, <1>5, <1>7, <1>8, <2>1, <2>2 DEF Sent, Pending, Inside, Emitting
<1>16. CASE Records
  <2>1. /\ wpc = "returned" /\ wpc' \in {"emit", "answer"}
        /\ wpc' = "emit" => event'.event \in {"CallSucceeded", "CallFailed"}
        /\ UNCHANGED <<pc, baseline, taken, status, current, engine, crashed>>
    BY <1>16 DEF Records, Returned, CallSucceeded, CallFailed
  <2>2. /\ pc = "calling" /\ current = Due(Calls) /\ Calls = Behind /\ Behind' = Behind
        /\ Calls' = Calls /\ Calls > 0
    BY <1>7, <1>8, <2>1 DEF Inside, Behind, Calls
  <2> QED BY <1>1, <1>5, <1>7, <1>8, <2>1, <2>2 DEF Sent, Pending, Inside, Emitting, Intent, Return
<1>17. CASE Answers
  <2>1. /\ wpc = "answer" /\ wpc' = "evaluate" /\ pc = "calling" /\ pc' \in {"progress", "report"}
        /\ current' = NoValue /\ UNCHANGED <<taken, engine, crashed>> /\ Calls' = Calls
    BY <1>17 DEF Answers, Calls
  <2>2. current = Due(Calls) /\ Calls = taken + Ahead
    <3>1. current = Due(Calls) /\ Calls = Behind
      BY <1>8, <2>1 DEF Inside
    <3> QED BY <2>1, <3>1 DEF Behind, Ahead
  <2>3. IsParent /\ baseline' = NoValue => taken = 0
    BY <1>2, <1>8, <1>17 DEF Answers
  <2>4. CASE pc' = "progress"
    <3>1. IsParent => baseline' # NoValue
      <4>1. SUFFICES ASSUME IsParent, baseline' = NoValue PROVE FALSE
        OBVIOUS
      <4>2. current \in ScenarioIds /\ baseline = NoValue
        BY <1>2, <1>17, <2>1, <2>4, <4>1 DEF Answers
      <4>3. Calls = 1
        BY <1>8, <2>2, <4>1, <4>2 DEF Ahead
      <4> QED BY <1>2, <2>2, <4>1, <4>2, <4>3 DEF Due
    <3>2. Behind' = taken + Ahead
      BY <1>7, <2>1, <2>4, <3>1 DEF Behind, Ahead
    <3>3. UNCHANGED status /\ status.kind = "Completed"
      BY <1>8, <1>17, <2>1, <2>4 DEF Answers
    <3> QED BY <1>2, <1>5, <1>7, <2>1, <2>2, <2>3, <2>4, <3>2, <3>3 DEF Sent, Pending, Inside, Emitting
  <2>5. CASE pc' = "report"
    <3>1. status'.error = Result /\ Result \notin Signatures /\ Result \in Values \cup {NoValue}
      <4>1. Calls \in DOMAIN engine
        <5>1. Calls > 0
          BY <1>8, <2>1 DEF Inside
        <5>2. Calls \in Nat /\ DOMAIN engine = 1 .. Calls
          BY Numbers
        <5> QED BY <5>1, <5>2
      <4>2. Result \in Values \cup {NoValue}
        <5>1. engine \in Seq(EngineCalls)
          BY Numbers
        <5>2. engine[Calls] \in EngineCalls
          BY <4>1, <5>1
        <5> QED BY <5>2 DEF Result, EngineCalls
      <4> QED BY <1>17, <2>5, <4>2 DEF Answers
    <3>2. Unsent' = 0
      BY <1>2, <3>1 DEF Unsent
    <3>3. Calls = taken + Ahead - 0
      BY <1>1, <2>2 DEF Ahead
    <3> QED BY <1>2, <1>5, <1>7, <2>1, <2>3, <2>5, <3>2, <3>3 DEF Sent, Pending, Inside, Emitting
  <2> QED BY <2>1, <2>4, <2>5
<1>18. CASE AnswersBlocked
  <2>1. /\ wpc = "blocked" /\ wpc' = "evaluate" /\ pc = "calling" /\ pc' = "report"
        /\ status' = [kind |-> "EngineFailed",
                      scenario |-> IF current = Baseline THEN NoValue ELSE current, error |-> Blocked]
        /\ current' = NoValue /\ UNCHANGED <<baseline, taken, engine, crashed>> /\ Calls' = Calls
    BY <1>18 DEF AnswersBlocked, Calls
  <2>2. current = Due(Calls + 1) /\ Calls + 1 = taken + Ahead
    <3>1. current = Due(Calls + 1) /\ Calls + 1 = Behind
      BY <1>8, <2>1 DEF Pending
    <3> QED BY <2>1, <3>1 DEF Behind, Ahead
  <2>3. current \in ScenarioIds \cup {Baseline}
    BY <2>1 DEF JournalInv, ProcessType, Targets
  <2>4. Unsent' = IF current = Baseline THEN 0 ELSE 1
    BY <1>2, <2>1, <2>3 DEF Unsent
  <2>5. CASE current = Baseline
    <3>1. IsParent
      <4>1. SUFFICES ASSUME ~IsParent PROVE FALSE
        OBVIOUS
      <4>2. Calls + 1 = taken /\ current = Todo[Calls + 1]
        BY <1>1, <2>2, <4>1 DEF Ahead, Due, Todo
      <4>3. Todo[taken] \in ScenarioIds
        BY <1>1, <1>6, <4>2, TodoIsBounded DEF JournalInv
      <4> QED BY <1>2, <2>5, <4>2, <4>3
    <3>2. taken = 0 /\ Calls = 0
      BY <1>1, <1>8, <2>2, <2>5, <3>1 DEF Ahead
    <3> QED BY <1>2, <1>5, <1>7, <2>1, <2>4, <2>5, <3>1, <3>2 DEF Sent, Pending, Inside, Emitting
  <2>6. CASE current # Baseline
    <3>1. Calls' = taken' + Ahead' - Unsent'
      BY <1>1, <1>7, <2>1, <2>2, <2>4, <2>6 DEF Ahead
    <3>2. taken > 0 /\ current = Todo[taken]
      <4>1. CASE IsParent
        <5>1. Calls = taken /\ (Calls = 0 => current = Baseline)
          BY <1>1, <2>2, <4>1 DEF Ahead, Due
        <5> QED BY <1>1, <2>2, <2>6, <4>1, <5>1 DEF Due, Todo
      <4>2. CASE ~IsParent
        <5>1. Calls + 1 = taken
          BY <1>1, <2>2, <4>2 DEF Ahead
        <5> QED BY <1>1, <2>2, <4>2, <5>1 DEF Due, Todo
      <4> QED BY <4>1, <4>2
    <3>3. status'.scenario = current
      BY <2>1, <2>6
    <3>4. IsParent /\ baseline = NoValue => taken = 0
      BY <1>8
    <3> QED BY <1>2, <1>5, <1>7, <2>1, <3>1, <3>2, <3>3, <3>4 DEF Sent, Pending, Inside, Emitting
  <2> QED BY <2>5, <2>6
<1>19. CASE Closes
  <2>1. /\ wpc = "evaluate" /\ pc = "done"
        /\ wpc' = "closed" \/ (wpc' = "emit" /\ event'.event = "Finished")
        /\ UNCHANGED <<pc, baseline, taken, status, current, engine, crashed>>
    BY <1>19 DEF Closes, Ending, Finished
  <2>2. Calls' = Calls /\ Unsent' = Unsent
    BY <2>1 DEF Calls, Unsent
  <2> QED BY <1>5, <1>7, <1>8, <2>1, <2>2 DEF Sent, Pending, Inside, Emitting, Intent, Return
<1>20. CASE EmitsNothing \/ Writes \/ Syncs \/ SyncFails
  <2>1. /\ Emitting
        /\ UNCHANGED <<pc, baseline, taken, status, current, event, engine, crashed>>
        /\ wpc' \in {"sync", Resumed(TRUE), Resumed(FALSE)}
    BY <1>20 DEF EmitsNothing, Writes, Syncs, SyncFails, Emitting
  <2>2. Calls' = Calls /\ Unsent' = Unsent /\ Behind' = Behind
    BY <1>7, <2>1 DEF Calls, Unsent, Behind
  <2>3. CASE event.event = "Initialized"
    <3>1. pc = "admit" /\ wpc' \in {"sync", "evaluate"}
      BY <1>8, <2>1, <2>3 DEF Resumed
    <3> QED BY <1>5, <1>7, <1>8, <2>1, <2>2, <2>3, <3>1 DEF Sent, Pending, Inside, Emitting, Intent, Return
  <2>4. CASE Intent
    <3>1. Pending /\ wpc' \in {"sync", "engine", "blocked"}
      BY <2>1, <2>4 DEF Pending, Resumed, Intent
    <3> QED BY <1>5, <1>7, <1>8, <2>1, <2>2, <2>4, <3>1 DEF Sent, Pending, Inside, Emitting, Intent, Return
  <2>5. CASE Return
    <3>1. Inside /\ wpc' \in {"sync", "answer"}
      BY <2>1, <2>5 DEF Inside, Resumed, Return
    <3> QED BY <1>5, <1>7, <1>8, <2>1, <2>2, <2>5, <3>1 DEF Sent, Pending, Inside, Emitting, Intent, Return
  <2>6. CASE event.event = "Finished"
    <3>1. pc = "done" /\ wpc' \in {"sync", "closed"}
      BY <1>8, <2>1, <2>6 DEF Resumed
    <3> QED BY <1>5, <1>7, <1>8, <2>1, <2>2, <2>6, <3>1 DEF Sent, Pending, Inside, Emitting, Intent, Return
  <2> QED BY <1>1, <2>1, <2>3, <2>4, <2>5, <2>6 DEF Events, Intent, Return
<1>21. CASE Dies
  <2>1. /\ wpc # "closed"
        /\ UNCHANGED <<pc, baseline, taken, status, current, wpc, event, engine>>
    BY <1>21 DEF Dies
  <2>2. Calls' = Calls /\ Unsent' = Unsent /\ Behind' = Behind
    BY <1>7, <2>1 DEF Calls, Unsent, Behind
  <2> QED BY <1>7, <1>8, <2>1, <2>2 DEF Sent, Pending, Inside, Emitting, Intent, Return
<1> QED BY <1>0, <1>5, <1>9, <1>10, <1>11, <1>12, <1>13, <1>14, <1>15, <1>16, <1>17, <1>18, <1>19,
           <1>20, <1>21 DEF Moves

(* There is room for whatever a run that nothing has failed yet writes.    *)
LEMMA RoomInFile ==
  ASSUME JournalInv, Sent
  PROVE  Room
<1>1. SUFFICES ASSUME Clean, IsParent, wpc = "emit" PROVE sequence < MaxEntries
  BY DEF Room
<1>2. /\ taken \in Nat /\ taken <= Len(input) /\ input = Scenarios /\ event \in Events
      /\ sequence \in Nat /\ Calls \in Nat
  BY <1>1, Standing DEF JournalInv, ProcessType, Emitting, Todo
<1>3. MaxScenarios \in Nat /\ taken <= MaxScenarios
  BY <1>2, ScenariosAssumption
<1>4. event.event \in {"Initialized", "CallStarted", "CallSucceeded", "CallFailed", "Finished"}
  BY <1>2 DEF Events
<1>5. CASE event.event = "Initialized"
  <2>1. sequence = 0
    BY <1>1, <1>5 DEF JournalInv, Position, Emitting
  <2> QED BY <1>3, <2>1 DEF MaxEntries
<1>6. CASE Intent
  <2>1. sequence = 2 * Calls + 1 /\ Calls + 1 = Behind
    BY <1>1, <1>6 DEF JournalInv, Position, InStep, Before, Emitting
  <2>2. Behind <= taken + 1
    BY <1>2 DEF Behind
  <2> QED BY <1>2, <1>3, <2>1, <2>2 DEF MaxEntries
<1>7. CASE Return
  <2>1. sequence = 2 * Calls /\ Calls = Behind
    BY <1>1, <1>7 DEF JournalInv, Position, InStep, Inside, Emitting
  <2>2. Behind <= taken + 1
    BY <1>2 DEF Behind
  <2> QED BY <1>2, <1>3, <2>1, <2>2 DEF MaxEntries
<1>8. CASE event.event = "Finished"
  <2>1. sequence = 2 * Calls + 1 /\ pc = "done"
    BY <1>1, <1>8 DEF JournalInv, Position, Emitting
  <2>2. Calls = taken + Ahead - Unsent \/ Calls = 0
    BY <1>1, <2>1 DEF Sent, Clean
  <2>3. Ahead = 1 /\ Unsent \in {0, 1}
    BY <1>1 DEF Ahead, Unsent
  <2>4. Calls <= taken + 1
    BY <1>2, <2>2, <2>3
  <2> QED BY <1>2, <1>3, <2>1, <2>4 DEF MaxEntries
<1> QED BY <1>4, <1>5, <1>6, <1>7, <1>8 DEF Intent, Return

(* A process that dies leaves the room it had.                             *)
LEMMA FitsKept ==
  ASSUME Fits, Room', [Next]_vars
  PROVE  Fits'
<1>1. SUFFICES ASSUME IsParent', wpc' = "emit", error' = NoValue PROVE sequence' < MaxEntries
  BY DEF Fits
<1>2. CASE ~crashed'
  BY <1>1, <1>2 DEF Room, Clean
<1>3. CASE crashed'
  <2>1. Dies \/ Rests \/ Starts
    <3>1. CASE ~crashed /\ crashed' = crashed
      BY <1>3, <3>1
    <3>2. CASE ~(~crashed /\ crashed' = crashed)
      BY <3>2, StepsMove DEF Moves, Evaluates, IntendsBaseline, IntendsScenario, CallsRestored,
         ReturnsRestored, Invokes, EngineAnswers, Records, Answers, AnswersBlocked, Closes,
         EmitsNothing, Writes, Syncs, SyncFails
    <3> QED BY <3>1, <3>2
  <2>2. CASE Dies \/ Rests
    BY <1>1, <2>2 DEF Dies, Rests, Fits, IsParent, process, entry
  <2>3. CASE Starts
    BY <1>1, <2>3 DEF Starts, IsParent, process
  <2> QED BY <1>3, <2>1, <2>2, <2>3
<1> QED BY <1>2, <1>3

(* What an outcome is made of is in the file before the evaluator has it.  *)
LEMMA KeptKept ==
  ASSUME JournalInv, InspectionInv, Kept, [Next]_vars
  PROVE  Kept'
<1>1. SUFFICES ASSUME Clean', Starts \/ (Clean /\ Moves) PROVE Kept'
  BY CleanBefore DEF Kept
<1>2. CASE Starts
  <2>1. outcomes' = <<>> /\ wpc' = "emit"
    BY <1>2 DEF Starts
  <2> QED BY <2>1 DEF Kept
<1>3. SUFFICES ASSUME Clean, Moves, ~Starts PROVE Kept'
  BY <1>1, <1>2
<1>a. ~crashed' /\ error' = NoValue /\ ~crashed /\ error = NoValue /\ wpc # "blocked"
  BY <1>1, <1>3, Standing DEF Clean
<1>b. NoValue \notin {"contract", "storage"} /\ Baseline \notin ScenarioIds
  BY ValuesAssumption, ScenariosAssumption
<1>4. /\ sequence \in Nat /\ Calls \in Nat /\ taken \in Nat /\ Ahead \in {0, 1}
      /\ Len(lines) = sequence + (IF wpc = "sync" THEN 1 ELSE 0)
      /\ outcomes \in Seq([scenario : ScenarioIds, signature : Signatures])
  BY <1>3, Standing DEF InspectionInv, Evaluated, Ahead
<1>5. /\ \A i \in DOMAIN outcomes :
           /\ 2 * (i + Ahead) + 1 <= sequence
           /\ lines[2 * (i + Ahead) + 1].event =
                CallSucceeded(outcomes[i].scenario, Encode(outcomes[i].signature))
      /\ wpc = "answer" => lines[sequence].event = Returned(current)
  BY <1>3 DEF Kept
<1>6. Ahead' = Ahead
  BY <1>3 DEF Moves, Evaluates, IntendsBaseline, IntendsScenario, CallsRestored,
     ReturnsRestored, Invokes, EngineAnswers, Records, Answers, AnswersBlocked, Closes,
     EmitsNothing, Writes, Syncs, SyncFails, Dies, Rests, process, Ahead, IsParent
<1>7. CASE outcomes' = outcomes /\ lines' = lines /\ sequence' = sequence /\ wpc' # "answer"
  BY <1>5, <1>6, <1>7 DEF Kept
<1>8. CASE Evaluates \/ IntendsBaseline \/ IntendsScenario \/ CallsRestored \/ ReturnsRestored
             \/ Invokes \/ EngineAnswers \/ Closes
  <2>1. outcomes' = outcomes /\ lines' = lines /\ sequence' = sequence /\ wpc' # "answer"
    BY <1>8 DEF Evaluates, IntendsBaseline, IntendsScenario, CallsRestored, ReturnsRestored,
       Invokes, EngineAnswers, Closes, report, file, entry
  <2> QED BY <1>7, <2>1
<1>9. CASE Records
  <2>1. outcomes' = outcomes /\ lines' = lines /\ sequence' = sequence /\ wpc' # "answer"
    BY <1>9, <1>a, <1>b DEF Records, report, file, entry
  <2> QED BY <1>7, <2>1
<1>10. CASE EmitsNothing \/ SyncFails \/ Dies \/ AnswersBlocked
  BY <1>10, <1>a, <1>b DEF EmitsNothing, SyncFails, Dies, AnswersBlocked
<1>11. CASE Rests
  <2>1. outcomes' = outcomes /\ lines' = lines /\ sequence' = sequence /\ wpc' = wpc
        /\ current' = current /\ engine' = engine
    BY <1>11 DEF Rests, report, file, entry
  <2>2. Returned(current)' = Returned(current)
    BY <2>1 DEF Returned, Result, Calls
  <2> QED BY <1>5, <1>6, <2>1, <2>2 DEF Kept
<1>12. CASE Writes
  <2>1. /\ outcomes' = outcomes /\ sequence' = sequence /\ wpc' = "sync" /\ wpc = "emit"
        /\ \E line : lines' = Append(lines, line)
    BY <1>12 DEF Writes, report, entry
  <2>2. lines \in Seq(Entries)
    BY DEF JournalInv, ProcessType
  <2>3. \A k \in 1 .. sequence : lines'[k] = lines[k]
    BY <1>4, <2>1, <2>2
  <2>4. \A i \in DOMAIN outcomes : 2 * (i + Ahead) + 1 \in 1 .. sequence
    BY <1>4, <1>5
  <2> QED BY <1>5, <1>6, <2>1, <2>3, <2>4 DEF Kept
<1>13. CASE Syncs
  <2>1. /\ outcomes' = outcomes /\ lines' = lines /\ sequence' = sequence + 1 /\ wpc = "sync"
        /\ wpc' = Resumed(TRUE) /\ current' = current /\ engine' = engine
    BY <1>13 DEF Syncs, report, file, entry
  <2>2. \A i \in DOMAIN outcomes' :
           /\ 2 * (i + Ahead') + 1 <= sequence'
           /\ lines'[2 * (i + Ahead') + 1].event =
                CallSucceeded(outcomes'[i].scenario, Encode(outcomes'[i].signature))
    BY <1>4, <1>5, <1>6, <2>1
  <2>3. ASSUME wpc' = "answer" PROVE lines'[sequence'].event = Returned(current)'
    <3>1. event \in Events
      BY <2>1 DEF JournalInv, ProcessType, Emitting
    <3>2. event.event \in {"Initialized", "CallStarted", "CallSucceeded", "CallFailed", "Finished"}
      BY <3>1 DEF Events
    <3>3. Return
      BY <2>1, <2>3, <3>2 DEF Resumed, Return
    <3>4. lines[sequence + 1].event = event
      BY <1>a, <2>1 DEF JournalInv, Filed
    <3>5. event = Returned(current)
      BY <1>3, <2>1, <3>3 DEF InspectionInv, Chained, Emitting
    <3>6. Returned(current)' = Returned(current)
      BY <2>1 DEF Returned, Result, Calls
    <3> QED BY <2>1, <3>4, <3>5, <3>6
  <2> QED BY <2>2, <2>3 DEF Kept
<1>14. CASE Answers
  <2>1. /\ lines' = lines /\ sequence' = sequence /\ wpc' # "answer" /\ wpc = "answer"
        /\ pc = "calling"
        /\ \/ outcomes' = outcomes
           \/ /\ Result \in Signatures /\ current \in ScenarioIds
              /\ outcomes' = Append(outcomes, [scenario |-> current, signature |-> Result])
    BY <1>14 DEF Answers, file, entry
  <2>2. CASE outcomes' = outcomes
    BY <1>7, <2>1, <2>2
  <2>3. CASE /\ Result \in Signatures /\ current \in ScenarioIds
             /\ outcomes' = Append(outcomes, [scenario |-> current, signature |-> Result])
    <3>1. lines[sequence].event = CallSucceeded(current, Encode(Result))
      BY <1>5, <2>1, <2>3 DEF Returned
    <3>2. Len(outcomes) + 1 = taken
      BY <1>3, <1>b, <2>1, <2>3 DEF InspectionInv, Evaluated
    <3>3. sequence = 2 * Calls + 1 /\ Calls = Behind
      BY <1>3, <2>1 DEF JournalInv, Position, InStep, Inside
    <3>4. Behind = taken + Ahead
      BY <1>4, <2>1 DEF Behind, Ahead
    <3>5. 2 * (Len(outcomes) + 1 + Ahead) + 1 = sequence
      BY <1>4, <3>2, <3>3, <3>4
    <3>6. ASSUME NEW i \in DOMAIN outcomes'
          PROVE  /\ 2 * (i + Ahead) + 1 <= sequence
                 /\ lines[2 * (i + Ahead) + 1].event =
                      CallSucceeded(outcomes'[i].scenario, Encode(outcomes'[i].signature))
      <4>1. CASE i \in DOMAIN outcomes
        <5>1. outcomes'[i] = outcomes[i]
          BY <1>4, <2>3, <4>1
        <5> QED BY <1>5, <4>1, <5>1
      <4>2. CASE i \notin DOMAIN outcomes
        <5>1. i = Len(outcomes) + 1 /\ outcomes'[i] = [scenario |-> current, signature |-> Result]
          BY <1>4, <2>3, <4>2
        <5> QED BY <1>4, <3>1, <3>5, <5>1
      <4> QED BY <4>1, <4>2
    <3> QED BY <1>6, <2>1, <3>6 DEF Kept
  <2> QED BY <2>1, <2>2, <2>3
<1> QED BY <1>3, <1>8, <1>9, <1>10, <1>11, <1>12, <1>13, <1>14 DEF Moves

(* Every process starts with the invariant.                                *)
LEMMA InitialReport ==
  ASSUME Init
  PROVE  ReportInv
<1>1. CASE role = "parent" /\ Parent!Init
  <2>1. /\ IsParent /\ pc = "admit" /\ baseline = NoValue /\ outcomes = <<>> /\ taken = 0
        /\ status = [kind |-> "Completed"] /\ wpc = "emit" /\ sequence = 0
        /\ engine = <<>> /\ event.event = "Initialized" /\ crashed = FALSE
    BY <1>1 DEF Parent!Init, Parent!Eval!Init, Parent!Journal!Init, Parent!Eval!Completed,
       Parent!Initialized, IsParent
  <2>2. Calls = 0 /\ Behind = 0
    BY <2>1 DEF Calls, Behind
  <2>3. Sent
    BY <2>1, <2>2 DEF Sent, Pending, Inside, Emitting, Intent, Return
  <2>4. MaxEntries \in Nat /\ MaxEntries > 0
    BY ScenariosAssumption DEF MaxEntries
  <2> QED BY <2>1, <2>3, <2>4 DEF ReportInv, Fits, Kept
<1>2. CASE role = "child" /\ Child!Init
  <2>1. wpc = "idle" /\ ~IsParent
    BY <1>2 DEF Child!Init, IsParent
  <2> QED BY <2>1 DEF ReportInv, Sent, Fits, Kept, Clean
<1> QED BY <1>1, <1>2 DEF Init

(* What a caller is told and what the file holds move together: the calls  *)
(* the engine has received are those the evaluator accounts for, there is  *)
(* room for the entry at hand, and an outcome's value is in the file.      *)
THEOREM ReportIsKept == Spec => [](JournalInv /\ InspectionInv /\ ReportInv)
<1>1. Init => JournalInv /\ InspectionInv /\ Sent /\ Fits /\ Kept
  BY InitialJournal, InitialInspection, InitialReport DEF ReportInv
<1>2. JournalInv /\ InspectionInv /\ Sent /\ Kept /\ [Next]_vars
        => (JournalInv /\ InspectionInv /\ Sent /\ Kept)'
  BY StepKeepsJournal, StepKeepsInspection, SentKept, KeptKept
<1>3. JournalInv /\ Sent => Room
  BY RoomInFile
<1>4. Fits /\ Room' /\ [Next]_vars => Fits'
  BY FitsKept
<1>5. ReportInv <=> Sent /\ Fits /\ Kept
  BY DEF ReportInv
<1> QED BY <1>1, <1>2, <1>3, <1>4, <1>5, PTL DEF Spec
----------------------------------------------------------------------------
(* What was never started.                                                 *)

(* A sequence from t on is its t-th element and what follows it.           *)
LEMMA HeadOfRest ==
  ASSUME NEW S, NEW s \in Seq(S), NEW t \in 1 .. Len(s)
  PROVE  <<s[t]>> \o SubSeq(s, t + 1, Len(s)) = SubSeq(s, t, Len(s))
<1>1. s[t] \in S /\ Len(s) \in Nat /\ t \in Nat /\ t <= Len(s)
  OBVIOUS
<1>2. PICK a : a = SubSeq(s, t + 1, Len(s))
  OBVIOUS
<1>3. PICK b : b = SubSeq(s, t, Len(s))
  OBVIOUS
<1>4. a \in Seq(S) /\ Len(a) = Len(s) - t /\ \A i \in 1 .. Len(a) : a[i] = s[t + i]
  BY <1>1, <1>2
<1>5. b \in Seq(S) /\ Len(b) = Len(s) - t + 1 /\ \A i \in 1 .. Len(b) : b[i] = s[t + i - 1]
  BY <1>1, <1>3
<1>6. PICK c : c = <<s[t]>> \o a
  OBVIOUS
<1>7. c \in Seq(S) /\ Len(c) = Len(s) - t + 1 /\ c[1] = s[t]
      /\ \A i \in 2 .. Len(c) : c[i] = a[i - 1]
  BY <1>1, <1>4, <1>6
<1>8. \A i \in 1 .. Len(c) : c[i] = b[i]
  <2>1. SUFFICES ASSUME NEW i \in 1 .. Len(c) PROVE c[i] = b[i]
    OBVIOUS
  <2>2. CASE i = 1
    BY <1>1, <1>5, <1>7, <2>2
  <2>3. CASE i # 1
    <3>1. i \in 2 .. Len(c) /\ i - 1 \in 1 .. Len(a) /\ i \in 1 .. Len(b)
      BY <1>1, <1>4, <1>5, <1>7, <2>3
    <3>2. c[i] = a[i - 1] /\ a[i - 1] = s[t + (i - 1)] /\ b[i] = s[t + i - 1]
      BY <1>4, <1>5, <1>7, <3>1
    <3> QED BY <1>1, <3>1, <3>2
  <2> QED BY <2>2, <2>3
<1>9. c = b
  <2>1. c = [i \in 1 .. Len(c) |-> c[i]] /\ b = [i \in 1 .. Len(b) |-> b[i]] /\ Len(b) = Len(c)
    BY <1>5, <1>7
  <2> QED BY <1>8, <2>1
<1> QED BY <1>2, <1>3, <1>6, <1>9

(* never_started: a blocked candidate, and what was not taken; in a        *)
(* process of either kind, what lies behind the calls it made.             *)
Idle ==
  (IF status.kind = "EngineFailed" /\ status.error = Blocked /\ status.scenario # NoValue
   THEN <<status.scenario>> ELSE <<>>)
    \o SubSeq(input, taken + 1, Len(input))

(* Whichever way a process has ended, nothing else was left over.          *)
LEMMA IdleIsTheRest ==
  ASSUME JournalInv, Sent, pc \in {"report", "done"}, wpc # "idle"
  PROVE  /\ Unsent \in {0, 1} /\ taken - Unsent \in Nat /\ taken - Unsent <= Len(Todo)
         /\ Idle = SubSeq(Todo, taken - Unsent + 1, Len(Todo))
<1>1. input = Todo /\ taken \in Nat /\ taken <= Len(Todo)
  BY DEF JournalInv, ProcessType
<1>2. Todo \in Seq(ScenarioIds) /\ Len(Todo) \in Nat
  <2>1. Len(Todo) \in 1 .. Len(Scenarios) /\ Len(Scenarios) \in Nat /\ Todo \in Seq(ScenarioIds)
    BY TodoIsBounded, ScenariosAssumption DEF JournalInv
  <2> QED BY <2>1
<1>3. Unsent = 1 => taken > 0 /\ status.scenario = Todo[taken]
  BY DEF Sent
<1>4. CASE Unsent = 1
  <2>1. Idle = <<Todo[taken]>> \o SubSeq(Todo, taken + 1, Len(Todo))
    <3>1. status.kind = "EngineFailed" /\ status.error = Blocked /\ status.scenario # NoValue
      BY <1>4 DEF Unsent
    <3>2. Idle = <<status.scenario>> \o SubSeq(input, taken + 1, Len(input))
      BY <3>1 DEF Idle
    <3> QED BY <1>1, <1>3, <1>4, <3>2
  <2>2. taken \in 1 .. Len(Todo) /\ taken - 1 + 1 = taken
    BY <1>1, <1>2, <1>3, <1>4
  <2>3. Idle = SubSeq(Todo, taken, Len(Todo))
    BY <1>2, <2>1, <2>2, HeadOfRest
  <2> QED BY <1>1, <1>4, <2>2, <2>3
<1>5. CASE Unsent # 1
  <2>1. Unsent = 0 /\ Idle = <<>> \o SubSeq(Todo, taken + 1, Len(Todo))
    BY <1>1, <1>5 DEF Idle, Unsent
  <2>2. SubSeq(Todo, taken + 1, Len(Todo)) \in Seq(ScenarioIds)
    BY <1>1, <1>2
  <2>3. Idle = SubSeq(Todo, taken + 1, Len(Todo))
    BY <2>1, <2>2
  <2> QED BY <1>1, <2>1, <2>3
<1> QED BY <1>4, <1>5

(* The candidates behind the first n of a bundle are as many.              *)
LEMMA RestIsCounted ==
  ASSUME NEW n \in 0 .. Len(Scenarios)
  PROVE  Cardinality({ Scenarios[i] : i \in n + 1 .. Len(Scenarios) }) = Len(Scenarios) - n
<1> DEFINE R == { Scenarios[i] : i \in n + 1 .. Len(Scenarios) }
           f == [i \in n + 1 .. Len(Scenarios) |-> Scenarios[i]]
<1>1. Len(Scenarios) \in Nat /\ \A i, j \in 1 .. Len(Scenarios) : Scenarios[i] = Scenarios[j] => i = j
  BY ScenariosAssumption
<1>2. IsFiniteSet(n + 1 .. Len(Scenarios)) /\ Cardinality(n + 1 .. Len(Scenarios)) = Len(Scenarios) - n
  <2>1. n + 1 \in Int /\ Len(Scenarios) \in Int
    BY <1>1
  <2>2. IsFiniteSet(n + 1 .. Len(Scenarios)) /\ Cardinality(n + 1 .. Len(Scenarios))
           = IF n + 1 > Len(Scenarios) THEN 0 ELSE Len(Scenarios) - (n + 1) + 1
    BY <2>1, FS_Interval
  <2> QED BY <1>1, <2>2
<1>3. f \in Bijection(n + 1 .. Len(Scenarios), R)
  <2>1. f \in [n + 1 .. Len(Scenarios) -> R]
    OBVIOUS
  <2>2. \A a, b \in n + 1 .. Len(Scenarios) : f[a] = f[b] => a = b
    BY <1>1
  <2>3. \A t \in R : \E s \in n + 1 .. Len(Scenarios) : f[s] = t
    OBVIOUS
  <2> QED BY <2>1, <2>2, <2>3 DEF Bijection, Injection, Surjection, IsInjective
<1>4. Cardinality(R) = Cardinality(n + 1 .. Len(Scenarios))
  <2> HIDE DEF R, f
  <2>1. ExistsBijection(n + 1 .. Len(Scenarios), R)
    BY <1>3 DEF ExistsBijection
  <2> QED BY <1>2, <2>1, FS_Bijection
<1> QED BY <1>2, <1>4

(* A run counts with the operator of its own instance.                     *)
LEMMA SameCount == ASSUME NEW S PROVE Parent!Cardinality(S) = Cardinality(S)
BY DEF Parent!Cardinality, Cardinality
----------------------------------------------------------------------------
(* The report of a run.                                                    *)

(* The engine received what is not reported as never started.              *)
LEMMA OnlyTheRestIsLeft ==
  ASSUME JournalInv, Sent, IsParent, pc = "done"
  PROVE  /\ Len(Idle) = Cardinality(ScenarioIds \ { engine[i].target : i \in DOMAIN engine })
         /\ \A i \in DOMAIN Idle : \A j \in DOMAIN engine : engine[j].target # Idle[i]
<1>1. wpc # "idle"
  BY DEF JournalInv, Latched
<1>2. PICK n : n = taken - Unsent
  OBVIOUS
<1>3. Todo = Scenarios /\ n \in Nat /\ n <= Len(Scenarios)
      /\ Idle = SubSeq(Scenarios, n + 1, Len(Scenarios)) /\ taken \in Nat /\ Unsent \in {0, 1}
  BY <1>1, <1>2, IdleIsTheRest DEF Todo, JournalInv, ProcessType
<1>4. /\ Len(Scenarios) \in Nat /\ Baseline \notin ScenarioIds /\ Scenarios \in Seq(ScenarioIds)
      /\ DOMAIN Scenarios = 1 .. Len(Scenarios)
      /\ \A i, j \in 1 .. Len(Scenarios) : Scenarios[i] = Scenarios[j] => i = j
  BY ScenariosAssumption
<1>5. /\ Calls \in Nat /\ DOMAIN engine = 1 .. Calls
      /\ \A i \in DOMAIN engine : engine[i].target = IF i = 1 THEN Baseline ELSE Scenarios[i - 1]
  BY Numbers DEF JournalInv, Filed, Due
<1>6. Calls = n + 1 \/ (Calls = 0 /\ n = 0)
  <2>1. Calls = taken + 1 - Unsent \/ (Calls = 0 /\ taken = 0 /\ Unsent = 0)
    BY <1>1 DEF Sent, Ahead
  <2> QED BY <1>2, <1>3, <1>5, <2>1
<1>7. /\ Len(Idle) = Len(Scenarios) - n /\ DOMAIN Idle = 1 .. Len(Idle)
      /\ \A i \in 1 .. Len(Idle) : Idle[i] = Scenarios[n + i]
  BY <1>3, <1>4
<1>8. ASSUME NEW k \in n + 1 .. Len(Scenarios), NEW j \in DOMAIN engine
      PROVE  engine[j].target # Scenarios[k]
  <2>1. k \in DOMAIN Scenarios /\ Scenarios[k] \in ScenarioIds /\ k \in Nat /\ k > n
    BY <1>3, <1>4
  <2>2. CASE j = 1
    BY <1>4, <1>5, <2>1, <2>2
  <2>3. CASE j # 1
    <3>1. j - 1 \in 1 .. n
      BY <1>3, <1>5, <1>6, <2>3
    <3>2. j - 1 \in 1 .. Len(Scenarios) /\ j - 1 # k
      BY <1>3, <1>4, <2>1, <3>1
    <3> QED BY <1>4, <1>5, <2>1, <2>3, <3>2
  <2> QED BY <2>2, <2>3
<1>9. ScenarioIds \ { engine[i].target : i \in DOMAIN engine }
        = { Scenarios[k] : k \in n + 1 .. Len(Scenarios) }
  <2>1. ASSUME NEW k \in 1 .. Len(Scenarios), k \notin n + 1 .. Len(Scenarios)
        PROVE  Scenarios[k] \in { engine[i].target : i \in DOMAIN engine }
    <3>1. k <= n /\ Calls = n + 1
      BY <1>3, <1>4, <1>6, <2>1
    <3>2. k + 1 \in DOMAIN engine /\ k + 1 # 1 /\ (k + 1) - 1 = k
      BY <1>3, <1>5, <2>1, <3>1
    <3>3. engine[k + 1].target = Scenarios[k]
      BY <1>5, <3>2
    <3> QED BY <3>2, <3>3
  <2>2. n + 1 .. Len(Scenarios) \subseteq 1 .. Len(Scenarios)
    BY <1>3, <1>4
  <2>3. ScenarioIds = { Scenarios[k] : k \in 1 .. Len(Scenarios) }
    BY <1>4 DEF ScenarioIds
  <2> QED BY <1>8, <2>1, <2>2, <2>3
<1>10. Len(Idle) = Cardinality(ScenarioIds \ { engine[i].target : i \in DOMAIN engine })
  <2>1. n \in 0 .. Len(Scenarios)
    BY <1>3, <1>4
  <2> QED BY <1>7, <1>9, <2>1, RestIsCounted
<1>11. ASSUME NEW i \in DOMAIN Idle, NEW j \in DOMAIN engine PROVE engine[j].target # Idle[i]
  <2>1. n + i \in n + 1 .. Len(Scenarios) /\ Idle[i] = Scenarios[n + i]
    <3>1. i \in 1 .. Len(Idle)
      BY <1>7
    <3>2. n \in Nat /\ n <= Len(Scenarios) /\ Len(Scenarios) \in Nat
      BY <1>3, <1>4
    <3>3. i \in 1 .. Len(Scenarios) - n
      BY <1>7, <3>1
    <3>4. n + i \in n + 1 .. Len(Scenarios)
      BY <3>2, <3>3
    <3> QED BY <1>7, <3>1, <3>4
  <2> QED BY <1>8, <2>1
<1> QED BY <1>10, <1>11

(* The terminal classification of a status (BatchExecution::state).        *)
StateOf(s) ==
  CASE s.kind = "Completed"           -> "Completed"
    [] s.kind = "Interrupted"         -> "Interrupted"
    [] s.kind = "EngineFailed"        -> "Failed"
    [] s.kind = "DuplicateScenarioId" -> "Rejected"

(* What is in force when a process has closed its journal.                 *)
LEMMA ClosedCleanly ==
  ASSUME JournalInv, InspectionInv, ReportInv, wpc = "closed", error = NoValue
  PROVE  /\ Clean /\ pc = "done" /\ ~torn /\ lines \in Seq(Entries) /\ lines # <<>>
         /\ Len(lines) = sequence /\ sequence = 2 * Calls + 2 /\ Calls \in Nat
         /\ Read(lines) # NoValue
         /\ Read(lines).header = Heading /\ Read(lines).active = NoValue
         /\ Read(lines).failed = IF status.kind # "EngineFailed" THEN NoValue
                                 ELSE IF status.scenario = NoValue THEN Baseline ELSE status.scenario
         /\ Read(lines).terminal = Ending /\ Read(lines).successful = Len(outcomes)
         /\ IsParent => (Read(lines).baseline <=> baseline # NoValue) /\ Read(lines).started = taken
         /\ status.kind \in {"Completed", "Interrupted", "EngineFailed", "DuplicateScenarioId"}
         /\ taken \in Nat /\ input = Todo
<1>1. Clean /\ pc = "done"
  BY DEF ReportInv, Sent, Clean
<1>2. /\ ~torn /\ Len(lines) = sequence /\ Calls \in Nat /\ taken \in Nat /\ input = Todo
      /\ sequence = 2 * Calls + 2
  BY <1>1, Standing DEF JournalInv, Position
<1>3. lines \in Seq(Entries)
  BY DEF JournalInv, ProcessType
<1>4. lines # <<>>
  BY <1>2, <1>3
<1>5. Read(lines) # NoValue /\ Known(Read(lines))
  BY <1>1, <1>4 DEF InspectionInv, Agreement
<1>6. PICK l : l = Read(lines)
  OBVIOUS
<1>7. ~Open /\ ~Answered /\ Ended /\ ~Gained /\ ~Announced
  BY DEF Open, Answered, Ended, Gained, Announced
<1>8. /\ l.header = Heading /\ l.active = NoValue /\ l.failed = Failure /\ l.terminal = Ending
      /\ l.successful = Len(outcomes) + 0
      /\ IsParent => (l.baseline <=> baseline # NoValue) /\ l.started = taken - 0
  BY <1>5, <1>6, <1>7 DEF Known
<1>9. Failure = IF status.kind # "EngineFailed" THEN NoValue
                ELSE IF status.scenario = NoValue THEN Baseline ELSE status.scenario
  BY <1>7 DEF Failure
<1>10. Len(outcomes) \in Nat /\ status.kind \in {"Completed", "Interrupted", "EngineFailed", "DuplicateScenarioId"}
  BY <1>1 DEF InspectionInv, Evaluated
<1> QED BY <1>1, <1>2, <1>3, <1>4, <1>5, <1>6, <1>8, <1>9, <1>10

(* A terminal entry says what the status says.                             *)
LEMMA EndingIsTheState ==
  ASSUME Ending # NoValue,
         status.kind \in {"Completed", "Interrupted", "EngineFailed", "DuplicateScenarioId"}
  PROVE  /\ Ending.terminal = StateOf(status)
         /\ status.kind = "EngineFailed" => status.error # Blocked
<1>1. CASE status.kind = "Completed"
  BY <1>1 DEF Ending, StateOf, Finished
<1>2. CASE status.kind = "Interrupted"
  BY <1>2 DEF Ending, StateOf, Finished
<1>3. CASE status.kind = "EngineFailed"
  BY <1>3 DEF Ending, StateOf, Finished
<1>4. CASE status.kind = "DuplicateScenarioId"
  BY <1>4 DEF Ending
<1> QED BY <1>1, <1>2, <1>3, <1>4

(* What the inspector reports of a run's file closed without an error.     *)
LEMMA RunIsReported ==
  ASSUME JournalInv, InspectionInv, ReportInv, IsParent, wpc = "closed", error = NoValue,
         NEW s, s = Inspect(lines, torn)
  PROVE  /\ s # NoValue /\ Len(lines) = sequence
         /\ s \in Summaries /\ s.header = Heading /\ run \in RunIds /\ s.unknown = NoValue
         /\ s.state = StateOf(status)
         /\ s.successful = Len(outcomes)
         /\ s.baseline = (baseline # NoValue)
         /\ s.neverStarted = Len(Idle)
         /\ s.failed = IF status.kind # "EngineFailed" THEN NoValue
                       ELSE IF status.scenario = NoValue THEN Baseline ELSE status.scenario
<1>1. PICK l : l = LifecycleOf(lines)
  OBVIOUS
<1>2. l = Read(lines)
  BY <1>1 DEF Read
<1>3. /\ ~torn /\ lines \in Seq(Entries) /\ lines # <<>> /\ pc = "done"
      /\ Len(lines) = sequence /\ sequence = 2 * Calls + 2 /\ Calls \in Nat
      /\ l # NoValue /\ l.active = NoValue /\ l.header = Heading
      /\ l.failed = IF status.kind # "EngineFailed" THEN NoValue
                    ELSE IF status.scenario = NoValue THEN Baseline ELSE status.scenario
      /\ l.terminal = Ending /\ l.successful = Len(outcomes)
      /\ (l.baseline <=> baseline # NoValue) /\ l.started = taken
      /\ status.kind \in {"Completed", "Interrupted", "EngineFailed", "DuplicateScenarioId"}
      /\ taken \in Nat /\ input = Scenarios
  BY <1>2, ClosedCleanly DEF Todo
<1>4. Lawful(l, lines, Len(lines)) /\ Len(lines) > 0
  <2>1. Len(lines) > 0
    BY <1>3
  <2> QED BY <1>1, <1>3, <2>1, AcceptedIsLawful
<1>5. l.terminal # NoValue /\ l.baseline \in BOOLEAN
  <2>1. /\ Len(lines) + 0 = 2 * Called(l) + 1 + (IF l.terminal # NoValue THEN 1 ELSE 0)
        /\ l.started \in Nat /\ l.baseline \in BOOLEAN
    BY <1>3, <1>4 DEF Lawful, Lifecycles
  <2>2. Called(l) \in Nat
    BY <2>1 DEF Called
  <2>3. 2 * Calls + 2 = 2 * Called(l) + 1 + (IF l.terminal # NoValue THEN 1 ELSE 0)
    BY <1>3, <2>1
  <2> QED BY <1>3, <2>1, <2>2, <2>3
<1>6. Ending.terminal = StateOf(status) /\ (status.kind = "EngineFailed" => status.error # Blocked)
  BY <1>3, <1>5, EndingIsTheState
<1>7. s = [state |-> SummaryState(l, torn), header |-> l.header, baseline |-> l.baseline,
           successful |-> l.successful, failed |-> l.failed, unknown |-> l.active,
           neverStarted |-> Len(Scenarios) - l.started]
  BY <1>1, <1>3 DEF Inspect, Summarize
<1>8. SummaryState(l, torn) = l.terminal.terminal
  BY <1>3, <1>5 DEF SummaryState
<1>9. s # NoValue /\ s \in Summaries
  <2>1. torn \in BOOLEAN
    BY DEF JournalInv, ProcessType
  <2> QED BY <1>1, <1>3, <2>1, AcceptedIsSummarized
<1>10. Len(Idle) = Len(Scenarios) - taken
  <2>1. Unsent = 0
    BY <1>6 DEF Unsent
  <2>2. Idle = SubSeq(Scenarios, taken + 1, Len(Scenarios)) /\ taken <= Len(Scenarios)
    <3>1. Todo = Scenarios /\ taken - 0 = taken
      BY <1>3 DEF Todo
    <3> QED BY <1>3, <2>1, <3>1, IdleIsTheRest DEF ReportInv
  <2> QED BY <1>3, <2>2, ScenariosAssumption
<1>11. run \in RunIds
  <2>1. l.header \in Headers \cup ChildHeaders
    BY <1>4 DEF Lawful
  <2>2. Heading.run = run
    BY DEF Heading
  <2> QED BY <1>3, <2>1, <2>2 DEF Headers, ChildHeaders
<1> QED BY <1>3, <1>5, <1>6, <1>7, <1>8, <1>9, <1>10, <1>11

(* What a run hands back, its file and its engine agree.                   *)
LEMMA RunReportAgrees ==
  ASSUME JournalInv, InspectionInv, ReportInv, IsParent
  PROVE  Parent!ReportAgrees
<1>1. Parent!Summary = Inspect(lines, torn)
  BY SameInspection DEF Parent!Summary
<1>2. Parent!NeverStarted = Idle
  BY DEF Parent!NeverStarted, Parent!Eval!Pending, Idle
<1>3. Parent!Eval!StateOf(status) = StateOf(status)
  BY DEF Parent!Eval!StateOf, StateOf
<1>4. Parent!LongestRunFits
  BY DEF Parent!LongestRunFits, Parent!NoError, Parent!MaxEntries, MaxEntries, ReportInv, Fits
<1>5. ASSUME wpc = "closed", error = NoValue
      PROVE  /\ Inspect(lines, torn) # NoValue /\ Len(lines) = sequence
             /\ Inspect(lines, torn).state = StateOf(status)
             /\ Inspect(lines, torn).successful = Len(outcomes)
             /\ Inspect(lines, torn).baseline = (baseline # NoValue)
             /\ Inspect(lines, torn).neverStarted = Len(Idle)
             /\ Inspect(lines, torn).failed =
                  IF status.kind # "EngineFailed" THEN NoValue
                  ELSE IF status.scenario = NoValue THEN Baseline ELSE status.scenario
  BY <1>5, RunIsReported
<1>6. Parent!RankableIsJournaled
  <2>1. SUFFICES ASSUME wpc = "closed", Parent!RunState = "Completed"
        PROVE  /\ Inspect(lines, torn) # NoValue /\ Inspect(lines, torn).state = "Completed"
               /\ Len(lines) = sequence
               /\ \A i \in DOMAIN outcomes :
                    lines[2 * i + 3].event =
                      CallSucceeded(outcomes[i].scenario, Encode(outcomes[i].signature))
    BY <1>1 DEF Parent!RankableIsJournaled, Parent!CompletedBatch, Parent!CallSucceeded,
       CallSucceeded, Parent!Encode, Encode
  <2>2. error = NoValue
    BY <2>1 DEF Parent!RunState, Parent!NoError
  <2>3. /\ Clean
        /\ status.kind \in {"Completed", "Interrupted", "EngineFailed", "DuplicateScenarioId"}
    BY <2>1, <2>2, ClosedCleanly
  <2>4. status.kind = "Completed"
    <3>1. CASE status.kind = "Interrupted"
      BY <2>1, <2>2, <3>1 DEF Parent!RunState, Parent!NoError
    <3>2. CASE status.kind = "EngineFailed"
      BY <2>1, <2>2, <3>2 DEF Parent!RunState, Parent!NoError
    <3>3. CASE status.kind = "DuplicateScenarioId"
      BY <2>1, <2>2, <3>3 DEF Parent!RunState, Parent!NoError
    <3> QED BY <2>3, <3>1, <3>2, <3>3
  <2>5. StateOf(status) = "Completed"
    BY <2>4 DEF StateOf
  <2>6. ASSUME NEW i \in DOMAIN outcomes
        PROVE  lines[2 * i + 3].event =
                 CallSucceeded(outcomes[i].scenario, Encode(outcomes[i].signature))
    <3>1. lines[2 * (i + Ahead) + 1].event =
            CallSucceeded(outcomes[i].scenario, Encode(outcomes[i].signature))
      BY <2>3 DEF ReportInv, Kept
    <3>2. i \in Nat
      BY <2>3 DEF InspectionInv, Evaluated
    <3>3. 2 * (i + Ahead) + 1 = 2 * i + 3
      BY <3>2 DEF Ahead
    <3> QED BY <3>1, <3>3
  <2> QED BY <1>5, <2>1, <2>2, <2>5, <2>6
<1>7. ASSUME pc = "done"
      PROVE  /\ Len(Idle) = Parent!Cardinality(Parent!ScenarioIds \ { engine[i].target : i \in DOMAIN engine })
             /\ \A i \in DOMAIN Idle : \A j \in DOMAIN engine : engine[j].target # Idle[i]
  <2>1. Parent!ScenarioIds = ScenarioIds
    BY DEF Parent!ScenarioIds, ScenarioIds
  <2> QED BY <1>7, <2>1, SameCount, OnlyTheRestIsLeft DEF ReportInv
<1> QED BY <1>1, <1>2, <1>3, <1>4, <1>5, <1>6, <1>7 DEF Parent!ReportAgrees, Parent!NoError
----------------------------------------------------------------------------
(* The report of a continuation.                                           *)

(* The state its inspector reports of a file closed without an error.      *)
LEMMA ContinuationIsReported ==
  ASSUME JournalInv, InspectionInv, ReportInv, ~IsParent, wpc = "closed", error = NoValue
  PROVE  InspectChild([lines |-> lines, torn |-> torn], plan.log, plan.expected).state = StateOf(status)
<1>1. PICK c : c = ChildLifecycleOf(lines, plan.expected, Prior)
  OBVIOUS
<1>2. c = Read(lines)
  BY <1>1 DEF Read
<1>3. /\ ~torn /\ lines \in Seq(Entries) /\ lines # <<>>
      /\ Len(lines) = sequence /\ sequence = 2 * Calls + 2 /\ Calls \in Nat
      /\ c # NoValue /\ c.active = NoValue /\ c.terminal = Ending
      /\ status.kind \in {"Completed", "Interrupted", "EngineFailed", "DuplicateScenarioId"}
  BY <1>2, ClosedCleanly
<1>4. plan \in Plans
  BY DEF JournalInv, ProcessType
<1>5. ChildLawful(c, lines, Len(lines), plan.expected, Prior) /\ Len(lines) > 0
  <2>1. Prior.successful \in 0 .. Len(Scenarios) /\ Len(lines) > 0
    BY <1>3, <1>4, ParentIsKnown
  <2> QED BY <1>1, <1>3, <2>1, ChildAcceptedIsLawful
<1>6. c.terminal # NoValue
  <2>1. /\ Len(lines) = 2 * c.successful + 1 + 0
                + (IF c.failed # NoValue THEN 2 ELSE 0) + (IF c.terminal # NoValue THEN 1 ELSE 0)
        /\ c.successful \in Nat
    BY <1>3, <1>5 DEF ChildLawful, ChildLifecycles
  <2>2. 2 * Calls + 2 = 2 * c.successful + 1
                + (IF c.failed # NoValue THEN 2 ELSE 0) + (IF c.terminal # NoValue THEN 1 ELSE 0)
    BY <1>3, <2>1
  <2> QED BY <1>3, <2>1, <2>2
<1>7. Ending.terminal = StateOf(status)
  BY <1>3, <1>6, EndingIsTheState
<1>8. PICK s : s = InspectChild([lines |-> lines, torn |-> torn], plan.log, plan.expected)
  OBVIOUS
<1>9. s = ChildSummary(c)
  <2>1. /\ plan.expected.semantics = "PureIndependent" /\ plan.log = plan.expected.log
        /\ Anchored(Prior, plan.expected) /\ ParentAdmissible(Prior)
    BY <1>4, ParentIsKnown
  <2>2. s = InspectBelow(Prior, [lines |-> lines, torn |-> torn], plan.expected)
    BY <1>3, <1>8, <2>1 DEF InspectChild, Prior
  <2> QED BY <1>1, <2>1, <2>2 DEF InspectBelow
<1>10. s.state = ChildState(c)
  BY <1>3, <1>9 DEF ChildSummary
<1>11. ChildState(c) = c.terminal.terminal
  BY <1>3, <1>6 DEF ChildState
<1> QED BY <1>3, <1>7, <1>8, <1>10, <1>11

(* An outcome of a continuation is the candidate's own, as the engine      *)
(* returned it.                                                            *)
LEMMA OutcomesAreTheEngines ==
  ASSUME JournalInv, InspectionInv, ReportInv, ~IsParent, Clean, NEW i \in DOMAIN outcomes
  PROVE  outcomes[i] = [scenario |-> plan.remaining[i], signature |-> engine[i].result]
<1>1. /\ outcomes[i] \in [scenario : ScenarioIds, signature : Signatures] /\ i \in Nat /\ i > 0
      /\ Len(outcomes) \in Nat
  <2>1. outcomes \in Seq([scenario : ScenarioIds, signature : Signatures])
    BY DEF InspectionInv, Evaluated
  <2>2. ASSUME NEW S, outcomes \in Seq(S) PROVE outcomes[i] \in S /\ i \in 1 .. Len(outcomes) /\ Len(outcomes) \in Nat
    BY <2>2
  <2>3. outcomes[i] \in [scenario : ScenarioIds, signature : Signatures]
    BY <2>1, <2>2
  <2>4. i \in 1 .. Len(outcomes) /\ Len(outcomes) \in Nat
    BY <2>1, <2>2
  <2> QED BY <2>3, <2>4
<1>2. /\ 2 * i + 1 <= sequence
      /\ lines[2 * i + 1].event = CallSucceeded(outcomes[i].scenario, Encode(outcomes[i].signature))
  <2>1. /\ 2 * (i + Ahead) + 1 <= sequence
        /\ lines[2 * (i + Ahead) + 1].event =
             CallSucceeded(outcomes[i].scenario, Encode(outcomes[i].signature))
    BY DEF ReportInv, Kept
  <2>2. 2 * (i + Ahead) + 1 = 2 * i + 1
    BY <1>1 DEF Ahead
  <2> QED BY <2>1, <2>2
<1>3. 2 * i + 1 \in 1 .. Len(lines)
  <2>1. sequence \in Nat /\ sequence <= Len(lines) /\ Len(lines) \in Nat
    <3>1. sequence \in Nat /\ lines \in Seq(Entries) /\ sequence <= Len(lines)
      BY DEF JournalInv, ProcessType, Filed
    <3> QED BY <3>1
  <2> QED BY <1>1, <1>2, <2>1
<1>4. lines[2 * i + 1].event.event = "CallSucceeded"
  BY <1>2 DEF CallSucceeded
<1>5. PICK j \in 1 .. Calls :
        /\ 2 * i + 1 = 2 * j + 1
        /\ engine[j].target = lines[2 * i + 1].event.target
        /\ engine[j].result = Decode(lines[2 * i + 1].event.payload)
  BY <1>3, <1>4 DEF InspectionInv, Recorded
<1>6. i = j /\ i \in DOMAIN engine
  BY <1>1, <1>5, Numbers
<1>7. engine[i].target = outcomes[i].scenario /\ engine[i].result = outcomes[i].signature
  BY <1>2, <1>5, <1>6 DEF CallSucceeded, Encode, Decode
<1>8. engine[i].target = plan.remaining[i]
  BY <1>6 DEF JournalInv, Filed, Due
<1> QED BY <1>1, <1>7, <1>8

(* What a continuation hands back, its file and its engine agree.          *)
LEMMA ContinuationReportAgrees ==
  ASSUME JournalInv, InspectionInv, ReportInv, ~IsParent
  PROVE  Child!ChildReportAgrees
<1>1. Child!ChildInspectionIsTrue
  BY ContinuationInspectionIsTrue
<1>2. Child!Summary = InspectChild([lines |-> lines, torn |-> torn], plan.log, plan.expected)
  BY SameChildInspection DEF Child!Summary
<1>3. Child!NeverStarted = Idle /\ Child!Eval!StateOf(status) = StateOf(status)
  BY DEF Child!NeverStarted, Child!Eval!Pending, Idle, Child!Eval!StateOf, StateOf
<1>4. SUFFICES ASSUME wpc = "closed", ~crashed
      PROVE  /\ Child!RunState = "Completed" =>
                  /\ Child!Summary.state = "Completed"
                  /\ Len(engine) = Len(plan.remaining)
                  /\ \A i \in DOMAIN outcomes :
                       outcomes[i] = [scenario |-> plan.remaining[i], signature |-> engine[i].result]
             /\ error = NoValue => Child!Summary.state = StateOf(status)
             /\ Idle = SubSeq(plan.remaining, Len(engine) + 1, Len(plan.remaining))
  BY <1>1, <1>3 DEF Child!ChildReportAgrees, Child!Returned, Child!NoError
<1>5. /\ pc = "done" /\ Calls = taken - Unsent /\ Unsent \in {0, 1} /\ taken \in Nat /\ input = Todo
      /\ Todo = plan.remaining
  <2>1. pc = "done" /\ (Calls = taken + Ahead - Unsent \/ (IsParent /\ Calls = 0))
    BY <1>4 DEF ReportInv, Sent
  <2>2. Ahead = 0 /\ Unsent \in {0, 1} /\ Todo = plan.remaining
    BY DEF Ahead, Unsent, Todo
  <2>3. taken \in Nat /\ input = Todo
    BY <1>4 DEF JournalInv, ProcessType
  <2>4. taken + 0 - Unsent = taken - Unsent
    BY <2>2, <2>3
  <2> QED BY <2>1, <2>2, <2>3, <2>4
<1>6. Idle = SubSeq(plan.remaining, Len(engine) + 1, Len(plan.remaining))
  BY <1>4, <1>5, IdleIsTheRest DEF ReportInv, Calls
<1>7. ASSUME error = NoValue PROVE Child!Summary.state = StateOf(status)
  BY <1>2, <1>4, <1>7, ContinuationIsReported
<1>8. ASSUME Child!RunState = "Completed"
      PROVE  /\ Child!Summary.state = "Completed"
             /\ Len(engine) = Len(plan.remaining)
             /\ \A i \in DOMAIN outcomes :
                  outcomes[i] = [scenario |-> plan.remaining[i], signature |-> engine[i].result]
  <2>1. error = NoValue
    BY <1>8 DEF Child!RunState, Child!NoError
  <2>2. /\ Clean
        /\ status.kind \in {"Completed", "Interrupted", "EngineFailed", "DuplicateScenarioId"}
    BY <1>4, <2>1, ClosedCleanly
  <2>3. status.kind = "Completed"
    <3>1. CASE status.kind = "Interrupted"
      BY <1>8, <2>1, <3>1 DEF Child!RunState, Child!NoError
    <3>2. CASE status.kind \in {"EngineFailed", "DuplicateScenarioId"}
      BY <1>8, <2>1, <3>2 DEF Child!RunState, Child!NoError
    <3> QED BY <2>2, <3>1, <3>2
  <2>4. StateOf(status) = "Completed" /\ Unsent = 0
    BY <2>3 DEF StateOf, Unsent
  <2>5. taken = Len(input)
    BY <1>5, <2>2, <2>3 DEF InspectionInv, Evaluated
  <2>6. Len(engine) = Len(plan.remaining)
    BY <1>5, <2>4, <2>5 DEF Calls
  <2> QED BY <1>7, <2>1, <2>2, <2>4, <2>6, OutcomesAreTheEngines
<1> QED BY <1>6, <1>7, <1>8

(* The report that a run or a continuation hands back, the file it leaves  *)
(* and the calls its engine received tell the same story.                  *)
THEOREM ReportsAgree == Spec => []ReportAgrees
<1>1. JournalInv /\ InspectionInv /\ ReportInv => ReportAgrees
  BY RunReportAgrees, ContinuationReportAgrees DEF ReportAgrees
<1> QED BY <1>1, ReportIsKept, PTL
----------------------------------------------------------------------------
(* What a continuation prepared from a run starts from.                     *)

(* The calls of a run that an accepted log holds as succeeded.             *)
Succeeded(l) == l.successful + (IF l.baseline THEN 1 ELSE 0)

(* The third line, the fifth, and so on, are the successes.                *)
Ordered(l, log, k) ==
  /\ Lawful(l, log, k)
  /\ \A i \in 1 .. Succeeded(l) : 2 * i + 1 <= k /\ log[2 * i + 1].event.event = "CallSucceeded"
  /\ \A j \in 1 .. k : log[j].event.event = "CallSucceeded" =>
       \E i \in 1 .. Succeeded(l) : j = 2 * i + 1

(* A line that is accepted keeps the successes in their places.            *)
LEMMA ReadLineIsOrdered ==
  ASSUME NEW log \in Seq(Entries), NEW k \in 1 .. Len(log), NEW l, Ordered(l, log, k - 1),
         ReadLine(l, log, k) # NoValue
  PROVE  Ordered(ReadLine(l, log, k), log, k)
<1>0. SUFFICES ASSUME NEW r, r = ReadLine(l, log, k), NEW e, e = log[k].event
               PROVE  Ordered(r, log, k)
  OBVIOUS
<1>1. Lawful(l, log, k - 1) /\ Lawful(r, log, k)
  BY <1>0, ReadLineIsLawful DEF Ordered
<1>2. log[k] \in Entries /\ e \in Events /\ k \in Nat /\ k > 0 /\ l.terminal = NoValue
  <2>1. log[k] \in Entries /\ k \in Nat /\ k > 0
    OBVIOUS
  <2>2. e \in Events
    BY <1>0, <2>1 DEF Entries
  <2> QED BY <2>1, <2>2 DEF ReadLine
<1>3. /\ l \in Lifecycles /\ r \in Lifecycles
      /\ l.successful \in Nat /\ l.started \in Nat /\ l.baseline \in BOOLEAN
      /\ l.active \in {NoValue} \cup Targets /\ r.successful \in Nat /\ r.baseline \in BOOLEAN
  <2>1. l \in Lifecycles /\ r \in Lifecycles
    BY <1>1 DEF Lawful
  <2> QED BY <2>1 DEF Lifecycles
<1>4. NoValue # Baseline /\ NoValue \notin Targets
  BY ScenariosAssumption, ValuesAssumption DEF Targets
<1>5. /\ \A i \in 1 .. Succeeded(l) : 2 * i + 1 <= k - 1 /\ log[2 * i + 1].event.event = "CallSucceeded"
      /\ \A j \in 1 .. k - 1 : log[j].event.event = "CallSucceeded" =>
           \E i \in 1 .. Succeeded(l) : j = 2 * i + 1
      /\ Succeeded(l) \in Nat
  <2>1. Succeeded(l) \in Nat
    BY <1>3 DEF Succeeded
  <2>2. Ordered(l, log, k - 1)
    OBVIOUS
  <2> QED BY <2>1, <2>2, Zenon DEF Ordered
<1>6. CASE e.event # "CallSucceeded"
  <2>1. r.successful = l.successful /\ (r.baseline <=> l.baseline)
    <3>1. CASE k = 1
      BY <1>0, <1>3, <3>1 DEF ReadLine, Lifecycles
    <3>2. CASE k # 1
      <4>1. r = After(l, e) /\ Accepts(l, e)
        BY <1>0, <3>2 DEF ReadLine
      <4>2. e.event \in {"CallStarted", "CallFailed", "Finished"}
        BY <1>6, <4>1 DEF Accepts
      <4> QED BY <1>2, <1>3, <4>1, <4>2, AfterALine
    <3> QED BY <3>1, <3>2
  <2>2. Succeeded(r) = Succeeded(l)
    BY <2>1 DEF Succeeded
  <2>3. log[k].event.event # "CallSucceeded"
    BY <1>0, <1>6
  <2>4. ASSUME NEW i \in 1 .. Succeeded(r)
        PROVE  2 * i + 1 <= k /\ log[2 * i + 1].event.event = "CallSucceeded"
    <3>1. 2 * i + 1 <= k - 1 /\ log[2 * i + 1].event.event = "CallSucceeded" /\ i \in Nat
      BY <1>5, <2>2, <2>4
    <3> QED BY <1>2, <3>1
  <2>5. ASSUME NEW j \in 1 .. k, log[j].event.event = "CallSucceeded"
        PROVE  \E i \in 1 .. Succeeded(r) : j = 2 * i + 1
    <3>1. j \in 1 .. k - 1
      BY <1>2, <2>3, <2>5
    <3> QED BY <1>5, <2>2, <2>5, <3>1
  <2> QED BY <1>1, <2>4, <2>5 DEF Ordered
<1>7. CASE e.event = "CallSucceeded"
  <2>1. k # 1
    BY <1>0, <1>7 DEF ReadLine
  <2>2. r = After(l, e) /\ l.active = e.target /\ e.target \in Targets
    BY <1>0, <1>2, <1>7, <2>1 DEF ReadLine, Accepts, Events
  <2>3. /\ (r.baseline <=> l.baseline \/ e.target = Baseline)
        /\ r.successful = l.successful + (IF e.target = Baseline THEN 0 ELSE 1)
    BY <1>2, <1>3, <1>7, <2>2, AfterALine
  <2>4. /\ k - 1 + 1 = 2 * Called(l) + 1 + 0
        /\ l.baseline => l.active # Baseline
        /\ ~l.baseline => l.started = 0 /\ l.active \in {NoValue, Baseline}
        /\ l.started = l.successful +
             (IF l.active \notin {NoValue, Baseline} \/ l.failed \notin {NoValue, Baseline} THEN 1 ELSE 0)
        /\ l.failed = NoValue
    <3>1. k - 1 > 0 /\ l.active # NoValue
      BY <1>2, <1>4, <2>1, <2>2
    <3> QED BY <1>1, <1>2, <3>1 DEF Lawful
  <2>5. Succeeded(r) = Succeeded(l) + 1 /\ Called(l) = Succeeded(l) + 1
    <3>1. CASE e.target = Baseline
      BY <1>3, <1>4, <2>2, <2>3, <2>4, <3>1 DEF Succeeded, Called
    <3>2. CASE e.target # Baseline
      BY <1>3, <1>4, <2>2, <2>3, <2>4, <3>2 DEF Succeeded, Called
    <3> QED BY <3>1, <3>2
  <2>6. k = 2 * Succeeded(r) + 1 /\ Succeeded(r) \in Nat
    BY <1>2, <1>5, <2>4, <2>5
  <2>7. ASSUME NEW i \in 1 .. Succeeded(r)
        PROVE  2 * i + 1 <= k /\ log[2 * i + 1].event.event = "CallSucceeded"
    <3>1. CASE i = Succeeded(r)
      BY <1>0, <1>7, <2>6, <3>1
    <3>2. CASE i # Succeeded(r)
      <4>1. i \in 1 .. Succeeded(l)
        BY <1>5, <2>5, <2>6, <3>2
      <4> QED BY <1>2, <1>5, <4>1
    <3> QED BY <3>1, <3>2
  <2>8. ASSUME NEW j \in 1 .. k, log[j].event.event = "CallSucceeded"
        PROVE  \E i \in 1 .. Succeeded(r) : j = 2 * i + 1
    <3>1. CASE j = k
      <4>1. Succeeded(r) \in 1 .. Succeeded(r)
        BY <1>2, <2>1, <2>6
      <4> QED BY <2>6, <3>1, <4>1
    <3>2. CASE j # k
      <4>1. j \in 1 .. k - 1
        BY <1>2, <3>2
      <4>2. PICK i \in 1 .. Succeeded(l) : j = 2 * i + 1
        BY <1>5, <2>8, <4>1
      <4> QED BY <1>5, <2>5, <4>2
    <3> QED BY <3>1, <3>2
  <2> QED BY <1>1, <2>7, <2>8 DEF Ordered
<1> QED BY <1>6, <1>7

(* The successes of a log that inspect_execution_journal accepts.          *)
LEMMA AcceptedIsOrdered ==
  ASSUME NEW log \in Seq(Entries), LifecycleOf(log) # NoValue
  PROVE  Ordered(LifecycleOf(log), log, Len(log))
<1>1. PICK f : Reading(f, log, Len(log)) /\ LifecycleOf(log) = f[Len(log)]
  BY LifecycleIsRead
<1> DEFINE S == { m \in Nat : m <= Len(log) => f[m] = NoValue \/ Ordered(f[m], log, m) }
<1>2. 0 \in S
  <2>1. f[0] = FreshLifecycle
    BY <1>1 DEF Reading
  <2>2. Lawful(FreshLifecycle, log, 0)
    BY ScenariosAssumption, ValuesAssumption DEF Lawful, FreshLifecycle, Lifecycles
  <2>3. Succeeded(FreshLifecycle) = 0
    BY DEF Succeeded, FreshLifecycle
  <2> QED BY <2>1, <2>2, <2>3 DEF Ordered
<1>3. ASSUME NEW m \in Nat, m \in S PROVE m + 1 \in S
  <2>1. SUFFICES ASSUME m + 1 <= Len(log) PROVE f[m + 1] = NoValue \/ Ordered(f[m + 1], log, m + 1)
    OBVIOUS
  <2>2. f[m + 1] = IF f[m] = NoValue THEN NoValue ELSE ReadLine(f[m], log, m + 1)
    BY <1>1, <2>1 DEF Reading
  <2>3. f[m] = NoValue \/ Ordered(f[m], log, (m + 1) - 1)
    BY <1>3, <2>1
  <2>4. m + 1 \in 1 .. Len(log)
    BY <2>1
  <2> QED BY <2>2, <2>3, <2>4, ReadLineIsOrdered
<1>4. Nat \subseteq S
  BY <1>2, <1>3, Induction
<1> QED BY <1>1, <1>4

(* A plan prepared from a run's file is the truth about its engine.        *)
LEMMA PlanTellsTheTruth ==
  ASSUME JournalInv, InspectionInv, IsParent, NEW expected, NEW artifact, NEW p,
         Continuable(Preflight([lines |-> lines, torn |-> torn], expected, artifact)),
         p = Prepare([lines |-> lines, torn |-> torn], expected, artifact)
  PROVE  /\ Calls \in Nat /\ Calls > 0 /\ Calls - 1 < Len(Scenarios)
         /\ \A i \in 1 .. Calls : engine[i].result \in Signatures
         /\ p.baseline = engine[1].result
         /\ p.restored = [i \in 1 .. Calls - 1 |->
                            [scenario |-> engine[i + 1].target, signature |-> engine[i + 1].result]]
         /\ p.remaining = Suffix(Calls - 1)
         /\ p.expected = expected /\ p.log = [lines |-> lines, torn |-> torn] /\ expected.log = p.log
         /\ p.run = expected.run /\ p.identity = expected.identity /\ artifact = expected.identity
         /\ expected.semantics = "PureIndependent" /\ ~torn /\ lines # <<>>
         /\ expected.run \in RunIds /\ expected.identity \in Identities \cup {Identity}
         /\ p.baseline \in Signatures /\ p.restored \in Seq(Outcomes)
         /\ p.remaining \in Seq(ScenarioIds)
         /\ p = [run |-> p.run, log |-> p.log, identity |-> p.identity, expected |-> p.expected,
                 baseline |-> p.baseline, restored |-> p.restored, remaining |-> p.remaining]
<1> DEFINE log == [lines |-> lines, torn |-> torn]
           pre == Preflight(log, expected, artifact)
<1>1. PICK s : s = Inspect(lines, torn)
  OBVIOUS
<1>2. PICK l : l = LifecycleOf(lines)
  OBVIOUS
<1>3. Continuable(pre) /\ p = PlanOf(log, expected, pre.summary.successful)
  BY DEF Prepare, Prepared
<1>4. /\ artifact = expected.identity /\ log = expected.log
      /\ Anchored(s, expected)
      /\ pre = [summary |-> s, blockers |-> Blockers(s, expected)]
  BY <1>1, <1>3 DEF Continuable, Preflight, Preflighted
<1>5. PICK n : n = s.successful
  OBVIOUS
<1>6. /\ Blockers(s, expected) = {} /\ s.baseline /\ n + s.neverStarted = Len(Scenarios)
      /\ p = PlanOf(log, expected, n)
  BY <1>3, <1>4, <1>5 DEF Continuable
<1>7. /\ s.state # "incomplete_tail" /\ s.unknown = NoValue /\ s.failed = NoValue
      /\ expected.semantics = "PureIndependent" /\ s.neverStarted # 0
  BY <1>6 DEF Blockers
<1>8. /\ lines # <<>> /\ l # NoValue
      /\ s = [state |-> SummaryState(l, torn), header |-> l.header, baseline |-> l.baseline,
              successful |-> l.successful, failed |-> l.failed, unknown |-> l.active,
              neverStarted |-> Len(Scenarios) - l.started]
  BY <1>1, <1>2, <1>4 DEF Anchored, Inspect, Summarize
<1>9. l.successful = n /\ l.baseline /\ l.active = NoValue /\ l.failed = NoValue /\ ~torn
      /\ n + (Len(Scenarios) - l.started) = Len(Scenarios) /\ Len(Scenarios) - l.started # 0
  BY <1>5, <1>6, <1>7, <1>8 DEF SummaryState
<1>10. lines \in Seq(Entries) /\ Calls \in Nat /\ DOMAIN engine = 1 .. Calls
  BY Numbers DEF JournalInv, ProcessType
<1>11. Ordered(l, lines, Len(lines)) /\ Len(lines) \in Nat
  BY <1>2, <1>8, <1>10, AcceptedIsOrdered
<1>12. Lawful(l, lines, Len(lines))
  BY <1>11 DEF Ordered
<1>13. n \in Nat /\ l.started \in Nat /\ l.started <= Len(Scenarios) /\ Len(Scenarios) \in Nat
  BY <1>9, <1>12, ScenariosAssumption DEF Lawful, Lifecycles
<1>14. l.started = n /\ n < Len(Scenarios)
  BY <1>9, <1>13
<1>15. Calls <= n + 1
  <2>1. Calls <= Called(l)
    BY <1>8, <1>12, CallsAreInTheFile
  <2>2. Called(l) = n + 1
    BY <1>9, <1>14 DEF Called
  <2> QED BY <2>1, <2>2
<1>16. Succeeded(l) = n + 1
  BY <1>9 DEF Succeeded
<1>17. /\ \A i \in 1 .. n + 1 : 2 * i + 1 <= Len(lines) /\ lines[2 * i + 1].event.event = "CallSucceeded"
       /\ \A j \in 1 .. Len(lines) : lines[j].event.event = "CallSucceeded" =>
            \E i \in 1 .. n + 1 : j = 2 * i + 1
  BY <1>11, <1>16 DEF Ordered
<1>18. ASSUME NEW i \in 1 .. n + 1
       PROVE  /\ i \in 1 .. Calls /\ engine[i].target = lines[2 * i + 1].event.target
              /\ engine[i].result = Decode(lines[2 * i + 1].event.payload)
              /\ engine[i].result \in Signatures
  <2>1. 2 * i + 1 \in 1 .. Len(lines) /\ lines[2 * i + 1].event.event = "CallSucceeded"
    BY <1>11, <1>13, <1>17
  <2>2. PICK j \in 1 .. Calls :
          /\ 2 * i + 1 = 2 * j + 1
          /\ engine[j].target = lines[2 * i + 1].event.target
          /\ engine[j].result = Decode(lines[2 * i + 1].event.payload)
          /\ lines[2 * i + 1].event.event = "CallSucceeded" <=> engine[j].result \in Signatures
    BY <2>1 DEF InspectionInv, Recorded
  <2>3. i = j
    BY <1>10, <1>13, <2>2
  <2> QED BY <2>1, <2>2, <2>3
<1>19. Calls = n + 1
  <2>1. n + 1 \in 1 .. n + 1
    BY <1>13
  <2>2. n + 1 \in 1 .. Calls
    BY <1>18, <2>1
  <2> QED BY <1>10, <1>13, <1>15, <2>2
<1>20. \A i \in 1 .. n + 1 : Successes(lines)[i] = lines[2 * i + 1]
  <2>1. n + 1 \in Nat
    BY <1>13
  <2> QED BY <1>10, <1>17, <2>1, SuccessesAreFound
<1>21. ASSUME NEW i \in 1 .. n + 1
       PROVE  Restored(lines, i) = [scenario |-> engine[i].target, signature |-> engine[i].result]
  BY <1>18, <1>20 DEF Restored
<1>22. /\ p.baseline = Restored(lines, 1).signature
       /\ p.restored = [k \in 1 .. n |-> Restored(lines, k + 1)]
       /\ p.remaining = Suffix(n) /\ p.expected = expected /\ p.log = log
       /\ p.run = expected.run /\ p.identity = expected.identity
       /\ p = [run |-> p.run, log |-> p.log, identity |-> p.identity, expected |-> p.expected,
               baseline |-> p.baseline, restored |-> p.restored, remaining |-> p.remaining]
  <2>1. log.lines = lines
    OBVIOUS
  <2>2. PICK those : those = [k \in 1 .. n |-> Restored(lines, k + 1)]
    OBVIOUS
  <2>3. p = [run |-> expected.run, log |-> log, identity |-> expected.identity,
             expected |-> expected, baseline |-> Restored(lines, 1).signature,
             restored |-> those, remaining |-> Suffix(n)]
    BY <1>6, <2>1, <2>2, Zenon DEF PlanOf
  <2> HIDE DEF log
  <2>4. /\ p.baseline = Restored(lines, 1).signature /\ p.restored = those
        /\ p.remaining = Suffix(n) /\ p.expected = expected /\ p.log = log
        /\ p.run = expected.run /\ p.identity = expected.identity
        /\ p = [run |-> p.run, log |-> p.log, identity |-> p.identity, expected |-> p.expected,
                baseline |-> p.baseline, restored |-> p.restored, remaining |-> p.remaining]
    BY <2>3
  <2> QED BY <2>2, <2>4, Zenon
<1>23. p.baseline = engine[1].result
  <2>1. 1 \in 1 .. n + 1
    BY <1>13
  <2> QED BY <1>21, <1>22, <2>1
<1>24. p.restored = [i \in 1 .. n |->
                       [scenario |-> engine[i + 1].target, signature |-> engine[i + 1].result]]
  <2>1. ASSUME NEW k \in 1 .. n
        PROVE  Restored(lines, k + 1) =
                 [scenario |-> engine[k + 1].target, signature |-> engine[k + 1].result]
    <3>1. k + 1 \in 1 .. n + 1
      BY <1>13
    <3> QED BY <1>21, <3>1
  <2> QED BY <1>22, <2>1
<1>25. Calls - 1 = n
  BY <1>13, <1>19
<1>26. /\ Calls \in Nat /\ Calls > 0 /\ Calls - 1 < Len(Scenarios)
       /\ \A i \in 1 .. Calls : engine[i].result \in Signatures
  BY <1>10, <1>13, <1>14, <1>18, <1>19
<1>27. p.restored = [i \in 1 .. Calls - 1 |->
                       [scenario |-> engine[i + 1].target, signature |-> engine[i + 1].result]]
  BY <1>24, <1>25, Zenon
<1>28. p.remaining = Suffix(Calls - 1)
  BY <1>22, <1>25
<1>29. expected.run \in RunIds /\ expected.identity \in Identities \cup {Identity}
  <2>1. l.header \in Headers \cup ChildHeaders
    <3>1. Len(lines) > 0
      BY <1>8, <1>10
    <3> QED BY <1>12, <3>1 DEF Lawful
  <2>2. s.header = l.header
    BY <1>8
  <2>3. l.header.run = expected.run /\ l.header.identity = expected.identity
    BY <1>4, <2>2 DEF Anchored
  <2> QED BY <2>1, <2>3 DEF Headers, ChildHeaders
<1>30. p.restored \in Seq(Outcomes)
  <2>1. ASSUME NEW i \in 1 .. Calls - 1
        PROVE  [scenario |-> engine[i + 1].target, signature |-> engine[i + 1].result] \in Outcomes
    <3>1. i + 1 \in DOMAIN engine /\ i + 1 # 1 /\ i + 1 \in 1 .. Calls /\ i \in 1 .. Len(Scenarios)
      BY <1>10, <1>26
    <3>2. engine[i + 1].target = Scenarios[i + 1 - 1]
      BY <3>1 DEF JournalInv, Filed, Due
    <3>3. Scenarios[i] \in ScenarioIds /\ i + 1 - 1 = i
      BY <3>1, ScenariosAssumption
    <3>4. engine[i + 1].result \in Signatures
      BY <1>26, <3>1
    <3> QED BY <3>2, <3>3, <3>4 DEF Outcomes
  <2>2. Calls - 1 \in Nat
    BY <1>26
  <2>3. [i \in 1 .. Calls - 1 |->
           [scenario |-> engine[i + 1].target, signature |-> engine[i + 1].result]] \in Seq(Outcomes)
    BY <2>1, <2>2
  <2> QED BY <1>27, <2>3
<1>31. p.remaining \in Seq(ScenarioIds)
  <2>1. Scenarios \in Seq(ScenarioIds) /\ n + 1 \in 1 .. Len(Scenarios)
    BY <1>13, <1>14, ScenariosAssumption
  <2>2. SubSeq(Scenarios, n + 1, Len(Scenarios)) \in Seq(ScenarioIds)
    BY <2>1
  <2> QED BY <1>22, <2>2 DEF Suffix
<1>32. p.baseline \in Signatures
  <2>1. 1 \in 1 .. Calls
    BY <1>26
  <2> QED BY <1>23, <1>26, <2>1
<1> QED BY <1>4, <1>7, <1>8, <1>9, <1>22, <1>23, <1>26, <1>27, <1>28, <1>29, <1>30, <1>31, <1>32,
           Zenon

----------------------------------------------------------------------------
(* What a chain of a run and its continuation needs of either: which calls *)
(* may follow which, what a process that completed has, and what was       *)
(* interrupted can be continued.                                           *)

(* What a run's file holds as succeeded, the engine returned so.           *)
LEMMA SucceededCalls ==
  ASSUME JournalInv, InspectionInv, IsParent, NEW l, l = LifecycleOf(lines), l # NoValue,
         lines # <<>>
  PROVE  /\ Lawful(l, lines, Len(lines)) /\ Len(lines) \in Nat /\ Len(lines) > 0
         /\ Succeeded(l) \in Nat /\ l.successful \in Nat /\ l.started \in Nat
         /\ l.baseline \in BOOLEAN /\ Called(l) \in Nat
         /\ \A i \in 1 .. Succeeded(l) :
              /\ i \in 1 .. Calls /\ 2 * i + 1 \in 1 .. Len(lines)
              /\ engine[i].target = lines[2 * i + 1].event.target
              /\ engine[i].result = Decode(lines[2 * i + 1].event.payload)
              /\ engine[i].result \in Signatures
<1>1. lines \in Seq(Entries) /\ Calls \in Nat
  BY Numbers DEF JournalInv, ProcessType
<1>2. Ordered(l, lines, Len(lines)) /\ Len(lines) \in Nat /\ Len(lines) > 0
  BY <1>1, AcceptedIsOrdered
<1>3. /\ Lawful(l, lines, Len(lines))
      /\ \A i \in 1 .. Succeeded(l) : 2 * i + 1 <= Len(lines) /\ lines[2 * i + 1].event.event = "CallSucceeded"
  BY <1>2 DEF Ordered
<1>4. l.successful \in Nat /\ l.started \in Nat /\ l.baseline \in BOOLEAN
  BY <1>3 DEF Lawful, Lifecycles
<1>5. Succeeded(l) \in Nat /\ Called(l) \in Nat
  BY <1>4 DEF Succeeded, Called
<1>6. ASSUME NEW i \in 1 .. Succeeded(l)
      PROVE  /\ i \in 1 .. Calls /\ 2 * i + 1 \in 1 .. Len(lines)
             /\ engine[i].target = lines[2 * i + 1].event.target
             /\ engine[i].result = Decode(lines[2 * i + 1].event.payload)
             /\ engine[i].result \in Signatures
  <2>1. 2 * i + 1 \in 1 .. Len(lines) /\ lines[2 * i + 1].event.event = "CallSucceeded"
    BY <1>2, <1>3, <1>5
  <2>2. PICK j \in 1 .. Calls :
          /\ 2 * i + 1 = 2 * j + 1
          /\ engine[j].target = lines[2 * i + 1].event.target
          /\ engine[j].result = Decode(lines[2 * i + 1].event.payload)
          /\ lines[2 * i + 1].event.event = "CallSucceeded" <=> engine[j].result \in Signatures
    BY <2>1 DEF InspectionInv, Recorded
  <2>3. i = j
    BY <1>1, <1>5, <2>2
  <2> QED BY <2>1, <2>2, <2>3
<1> QED BY <1>2, <1>3, <1>4, <1>5, <1>6

(* So it is with a continuation's.                                         *)
LEMMA ContinuedCalls ==
  ASSUME JournalInv, InspectionInv, ~IsParent, lines # <<>>,
         NEW c, c = ChildLifecycleOf(lines, plan.expected, Prior), c # NoValue
  PROVE  /\ ChildLawful(c, lines, Len(lines), plan.expected, Prior)
         /\ Len(lines) \in Nat /\ Len(lines) > 0 /\ c.successful \in Nat
         /\ \A i \in 1 .. c.successful :
              /\ i \in 1 .. Calls /\ 2 * i + 1 \in 1 .. Len(lines)
              /\ engine[i].target = lines[2 * i + 1].event.target
              /\ engine[i].result = Decode(lines[2 * i + 1].event.payload)
              /\ engine[i].result \in Signatures
              /\ Restored(lines, i) = [scenario |-> engine[i].target, signature |-> engine[i].result]
<1>1. lines \in Seq(Entries) /\ Calls \in Nat /\ plan \in Plans
  BY Numbers DEF JournalInv, ProcessType
<1>2. Len(lines) \in Nat /\ Len(lines) > 0 /\ Prior.successful \in 0 .. Len(Scenarios)
  BY <1>1, ParentIsKnown
<1>3. ChildLawful(c, lines, Len(lines), plan.expected, Prior)
  BY <1>1, <1>2, ChildAcceptedIsLawful
<1>4. /\ Len(lines) = 2 * c.successful + 1 + (IF c.active # NoValue THEN 1 ELSE 0)
                + (IF c.failed # NoValue THEN 2 ELSE 0) + (IF c.terminal # NoValue THEN 1 ELSE 0)
      /\ \A i \in 1 .. c.successful : lines[2 * i + 1].event.event = "CallSucceeded"
      /\ \A j \in 1 .. Len(lines) : lines[j].event.event = "CallSucceeded" =>
           \E i \in 1 .. c.successful : j = 2 * i + 1
      /\ c.successful \in Nat
  BY <1>2, <1>3 DEF ChildLawful, ChildLifecycles
<1>5. 2 * c.successful + 1 <= Len(lines)
  BY <1>2, <1>4
<1>6. \A i \in 1 .. c.successful : Successes(lines)[i] = lines[2 * i + 1]
  <2>1. \A i \in 1 .. c.successful : 2 * i + 1 <= Len(lines) /\ lines[2 * i + 1].event.event = "CallSucceeded"
    BY <1>2, <1>4, <1>5
  <2> QED BY <1>1, <1>4, <2>1, SuccessesAreFound
<1>7. ASSUME NEW i \in 1 .. c.successful
      PROVE  /\ i \in 1 .. Calls /\ 2 * i + 1 \in 1 .. Len(lines)
             /\ engine[i].target = lines[2 * i + 1].event.target
             /\ engine[i].result = Decode(lines[2 * i + 1].event.payload)
             /\ engine[i].result \in Signatures
  <2>1. 2 * i + 1 \in 1 .. Len(lines) /\ lines[2 * i + 1].event.event = "CallSucceeded"
    BY <1>2, <1>4, <1>5
  <2>2. PICK j \in 1 .. Calls :
          /\ 2 * i + 1 = 2 * j + 1
          /\ engine[j].target = lines[2 * i + 1].event.target
          /\ engine[j].result = Decode(lines[2 * i + 1].event.payload)
          /\ lines[2 * i + 1].event.event = "CallSucceeded" <=> engine[j].result \in Signatures
    BY <2>1 DEF InspectionInv, Recorded
  <2>3. i = j
    BY <1>1, <1>4, <2>2
  <2> QED BY <2>1, <2>2, <2>3
<1>8. ASSUME NEW i \in 1 .. c.successful
      PROVE  Restored(lines, i) = [scenario |-> engine[i].target, signature |-> engine[i].result]
  BY <1>6, <1>7 DEF Restored
<1> QED BY <1>2, <1>3, <1>4, <1>7, <1>8

(* No call follows one that failed or whose return was not recorded.       *)
LEMMA OnlyAfterSuccess ==
  ASSUME JournalInv, InspectionInv, ~crashed, wpc = "engine"
  PROVE  \A i \in 1 .. Calls : engine[i].result \in Signatures
<1>1. Clean
  BY OnTheWay
<1>2. /\ sequence = 2 * Calls + 2 /\ Len(lines) = sequence /\ Calls \in Nat /\ pc = "calling"
      /\ lines \in Seq(Entries)
  BY <1>1, Standing DEF JournalInv, Position, Before, ProcessType
<1>3. lines # <<>> /\ current \in Targets
  BY <1>2 DEF JournalInv, ProcessType
<1>4. PICK l : l = Read(lines)
  OBVIOUS
<1>5. l # NoValue /\ l.active = current
  BY <1>1, <1>3, <1>4 DEF InspectionInv, Agreement, Known, Open
<1>6. NoValue # Baseline /\ current # NoValue
  BY <1>3, ScenariosAssumption, ValuesAssumption DEF Targets
<1>7. CASE IsParent
  <2>1. l = LifecycleOf(lines)
    BY <1>4, <1>7 DEF Read
  <2>2. /\ Lawful(l, lines, Len(lines)) /\ Succeeded(l) \in Nat /\ l.successful \in Nat
        /\ l.started \in Nat /\ l.baseline \in BOOLEAN
        /\ Len(lines) \in Nat /\ Len(lines) > 0
        /\ \A i \in 1 .. Succeeded(l) : engine[i].result \in Signatures
    BY <1>3, <1>5, <1>7, <2>1, SucceededCalls
  <2>3. /\ Len(lines) + 1 = 2 * Called(l) + 1
        /\ l.failed = NoValue
        /\ l.baseline => l.active # Baseline
        /\ ~l.baseline => l.started = 0 /\ l.active \in {NoValue, Baseline}
        /\ l.started = l.successful +
             (IF l.active \notin {NoValue, Baseline} \/ l.failed \notin {NoValue, Baseline} THEN 1 ELSE 0)
    <3>1. l.terminal = NoValue /\ l.failed = NoValue
      BY <1>5, <1>6, <2>2 DEF Lawful
    <3>2. Len(lines) + 1 = 2 * Called(l) + 1 + 0
      BY <1>5, <1>6, <2>2, <3>1 DEF Lawful
    <3>3. Called(l) \in Nat
      BY <2>2 DEF Called
    <3> QED BY <2>2, <3>1, <3>2, <3>3 DEF Lawful
  <2>4. Called(l) = Succeeded(l) + 1
    <3>1. CASE current = Baseline
      BY <1>5, <1>6, <2>2, <2>3, <3>1 DEF Called, Succeeded
    <3>2. CASE current # Baseline
      BY <1>5, <1>6, <2>2, <2>3, <3>2 DEF Called, Succeeded
    <3> QED BY <3>1, <3>2
  <2>5. Succeeded(l) = Calls
    BY <1>2, <2>2, <2>3, <2>4
  <2> QED BY <2>2, <2>5
<1>8. CASE ~IsParent
  <2>1. l = ChildLifecycleOf(lines, plan.expected, Prior)
    BY <1>4, <1>8 DEF Read
  <2>2. /\ ChildLawful(l, lines, Len(lines), plan.expected, Prior) /\ l.successful \in Nat
        /\ Len(lines) \in Nat /\ Len(lines) > 0
        /\ \A i \in 1 .. l.successful : engine[i].result \in Signatures
    BY <1>3, <1>5, <1>8, <2>1, ContinuedCalls
  <2>3. l.terminal = NoValue /\ l.failed = NoValue
    BY <1>5, <1>6, <2>2 DEF ChildLawful
  <2>4. Len(lines) = 2 * l.successful + 1 + 1 + 0 + 0
    BY <1>5, <1>6, <2>2, <2>3 DEF ChildLawful
  <2>5. l.successful = Calls
    BY <1>2, <2>2, <2>4
  <2> QED BY <2>2, <2>5
<1> QED BY <1>7, <1>8

(* A call that is out has not returned; the baseline that a run holds is   *)
(* the one that the engine returned first.                                 *)
Awaited == wpc = "in engine" => Calls > 0 /\ engine[Calls].result = NoValue
FromTheEngine == Clean /\ IsParent /\ baseline # NoValue => Calls > 0 /\ engine[1].result = baseline

(* It is so after every step, ...                                          *)
LEMMA AwaitedKept ==
  ASSUME JournalInv, Awaited, [Next]_vars
  PROVE  Awaited'
<1>0. Moves
  BY StepsMove
<1>1. SUFFICES ASSUME wpc' = "in engine" PROVE Calls' > 0 /\ engine[Calls]'.result = NoValue
  BY DEF Awaited
<1>2. engine \in Seq(EngineCalls) /\ Calls \in Nat
  BY Numbers
<1>3. CASE Invokes
  <2>1. engine' = Append(engine, [target |-> current, result |-> NoValue])
    BY <1>3 DEF Invokes
  <2> QED BY <1>2, <2>1 DEF Calls
<1>4. CASE ~Invokes
  <2>1. ~(EmitsNothing \/ Syncs \/ SyncFails)
    <3>1. SUFFICES ASSUME EmitsNothing \/ Syncs \/ SyncFails PROVE wpc' # "in engine"
      BY <1>1
    <3>2. event \in Events /\ wpc' \in {Resumed(TRUE), Resumed(FALSE)}
      BY <3>1 DEF EmitsNothing, Syncs, SyncFails, JournalInv, ProcessType, Emitting
    <3>3. event.event \in {"Initialized", "CallStarted", "CallSucceeded", "CallFailed", "Finished"}
      BY <3>2 DEF Events
    <3> QED BY <3>2, <3>3 DEF Resumed
  <2>2. wpc = "in engine" /\ engine' = engine
    BY <1>0, <1>1, <1>4, <2>1 DEF Moves, Evaluates, IntendsBaseline, IntendsScenario, CallsRestored,
       ReturnsRestored, EngineAnswers, Records, Answers, AnswersBlocked, Closes, Writes, Dies,
       Starts, Rests
  <2> QED BY <2>2 DEF Awaited, Calls
<1> QED BY <1>3, <1>4

(* ... and the baseline stays the one that the engine returned first.      *)
LEMMA FromTheEngineKept ==
  ASSUME JournalInv, InspectionInv, FromTheEngine, [Next]_vars
  PROVE  FromTheEngine'
<1>1. SUFFICES ASSUME Clean', IsParent', baseline' # NoValue
      PROVE  Calls' > 0 /\ engine'[1].result = baseline'
  BY DEF FromTheEngine
<1>2. Starts \/ (Clean /\ Moves)
  BY <1>1, CleanBefore
<1>3. ~Starts
  BY <1>1 DEF Starts, process, IsParent
<1>4. Clean /\ Moves
  BY <1>2, <1>3
<1>5. engine \in Seq(EngineCalls) /\ Calls \in Nat /\ taken \in Nat
  BY Numbers
<1>6. CASE Invokes
  <2>1. /\ baseline' = baseline /\ role' = role
        /\ engine' = Append(engine, [target |-> current, result |-> NoValue])
    BY <1>6 DEF Invokes, report, process
  <2>2. Calls > 0 /\ engine[1].result = baseline
    BY <1>1, <1>4, <2>1 DEF FromTheEngine, IsParent
  <2> QED BY <1>5, <2>1, <2>2 DEF Calls
<1>7. CASE EngineAnswers
  <2>1. PICK value : engine' = [engine EXCEPT ![Calls].result = value]
    BY <1>7 DEF EngineAnswers
  <2>2. baseline' = baseline /\ role' = role /\ wpc = "in engine"
    BY <1>7 DEF EngineAnswers, report, process
  <2>3. Calls > 0 /\ engine[1].result = baseline /\ IsParent
    BY <1>1, <1>4, <2>2 DEF FromTheEngine, IsParent
  <2>4. pc = "calling" /\ current = Due(Calls)
    BY <1>4, <2>2 DEF JournalInv, InStep, Inside
  <2>5. current # Baseline
    BY <1>1, <1>4, <2>2, <2>3, <2>4 DEF InspectionInv, Evaluated
  <2>6. Calls # 1
    BY <2>3, <2>4, <2>5 DEF Due
  <2>7. engine'[1] = engine[1] /\ Len(engine') = Len(engine)
    BY <1>5, <2>1, <2>3, <2>6 DEF Calls
  <2> QED BY <2>2, <2>3, <2>7 DEF Calls
<1>8. CASE Answers
  <2>1. engine' = engine /\ role' = role /\ wpc = "answer"
    BY <1>8 DEF Answers, process
  <2>2. CASE baseline' = baseline
    BY <1>1, <1>4, <2>1, <2>2 DEF FromTheEngine, IsParent, Calls
  <2>3. CASE baseline' # baseline
    <3>1. current = Baseline /\ baseline' = Result /\ IsParent
      BY <1>8, <2>3 DEF Answers
    <3>2. Calls = Behind /\ pc = "calling" /\ taken = 0
      BY <1>4, <2>1, <3>1 DEF JournalInv, InStep, Inside
    <3>3. Calls = 1
      BY <3>1, <3>2 DEF Behind
    <3> QED BY <2>1, <3>1, <3>3 DEF Result, Calls
  <2> QED BY <2>2, <2>3
<1>9. CASE ReturnsRestored \/ CallsRestored
  BY <1>1, <1>9 DEF ReturnsRestored, CallsRestored, process, IsParent
<1>10. CASE ~Invokes /\ ~EngineAnswers /\ ~Answers /\ ~ReturnsRestored /\ ~CallsRestored
  <2>1. baseline' = baseline /\ engine' = engine /\ role' = role
    BY <1>3, <1>4, <1>10 DEF Moves, Evaluates, IntendsBaseline, IntendsScenario,
       Records, AnswersBlocked, Closes,
       EmitsNothing, Writes, Syncs, SyncFails, Dies, Rests, report, process
  <2> QED BY <1>1, <1>4, <2>1 DEF FromTheEngine, IsParent, Calls
<1> QED BY <1>6, <1>7, <1>8, <1>9, <1>10

(* A run that ends completed has the engine's value of every call.         *)
LEMMA CompletedRunIsWhole ==
  ASSUME JournalInv, InspectionInv, ReportInv, FromTheEngine, IsParent, wpc = "closed",
         ~crashed, error = NoValue, status.kind = "Completed"
  PROVE  /\ Calls = Len(Scenarios) + 1
         /\ \A i \in 1 .. Calls : engine[i].result \in Signatures
         /\ baseline = engine[1].result
         /\ outcomes = [i \in 1 .. Len(Scenarios) |->
                          [scenario |-> Scenarios[i], signature |-> engine[i + 1].result]]
<1>1. PICK l : l = LifecycleOf(lines)
  OBVIOUS
<1>2. l = Read(lines)
  BY <1>1 DEF Read
<1>3. /\ Clean /\ pc = "done" /\ lines # <<>> /\ l # NoValue
      /\ l.successful = Len(outcomes) /\ (l.baseline <=> baseline # NoValue)
      /\ input = Scenarios /\ taken \in Nat /\ Calls \in Nat
  BY <1>2, ClosedCleanly DEF Todo
<1>4. baseline # NoValue /\ Len(outcomes) = taken /\ taken = Len(input)
  BY <1>3 DEF InspectionInv, Evaluated
<1>5. Len(outcomes) = Len(Scenarios) /\ Len(Scenarios) \in Nat
  BY <1>3, <1>4, ScenariosAssumption
<1>6. Succeeded(l) = Len(Scenarios) + 1
  BY <1>3, <1>4, <1>5 DEF Succeeded
<1>7. \A i \in 1 .. Len(Scenarios) + 1 :
        /\ i \in 1 .. Calls /\ 2 * i + 1 \in 1 .. Len(lines)
        /\ engine[i].target = lines[2 * i + 1].event.target
        /\ engine[i].result = Decode(lines[2 * i + 1].event.payload)
        /\ engine[i].result \in Signatures
  BY <1>1, <1>3, <1>6, SucceededCalls
<1>8. Calls = Len(Scenarios) + 1
  <2>1. Calls = taken + Ahead - Unsent \/ (IsParent /\ Calls = 0 /\ taken = 0 /\ Unsent = 0)
    BY <1>3 DEF ReportInv, Sent
  <2>2. Ahead = 1 /\ Unsent = 0
    BY DEF Ahead, Unsent
  <2>3. taken = Len(Scenarios) /\ Len(Scenarios) > 0
    BY <1>3, <1>4, ScenariosAssumption
  <2> QED BY <2>1, <2>2, <2>3
<1>9. baseline = engine[1].result
  BY <1>3, <1>4 DEF FromTheEngine
<1>10. outcomes \in Seq(Outcomes)
  BY <1>3 DEF InspectionInv, Evaluated, Outcomes
<1>11. ASSUME NEW i \in 1 .. Len(Scenarios)
       PROVE  outcomes[i] = [scenario |-> Scenarios[i], signature |-> engine[i + 1].result]
  <2>1. i \in DOMAIN outcomes /\ outcomes[i] \in Outcomes /\ i \in Nat
    BY <1>5, <1>10
  <2>2. lines[2 * (i + Ahead) + 1].event =
          CallSucceeded(outcomes[i].scenario, Encode(outcomes[i].signature))
    BY <1>3, <2>1 DEF ReportInv, Kept
  <2>3. Ahead = 1 /\ i + 1 \in 1 .. Len(Scenarios) + 1
    BY <1>5 DEF Ahead
  <2>4. engine[i + 1].target = outcomes[i].scenario /\ engine[i + 1].result = outcomes[i].signature
    BY <1>7, <2>2, <2>3 DEF CallSucceeded, Encode, Decode
  <2>5. engine[i + 1].target = Due(i + 1)
    <3>1. i + 1 \in DOMAIN engine
      BY <1>8, <2>3 DEF Calls
    <3> QED BY <3>1 DEF JournalInv, Filed
  <2>6. Due(i + 1) = Scenarios[i]
    BY <2>1 DEF Due
  <2> QED BY <2>1, <2>4, <2>5, <2>6 DEF Outcomes
<1>12. outcomes = [i \in 1 .. Len(Scenarios) |->
                    [scenario |-> Scenarios[i], signature |-> engine[i + 1].result]]
  <2>1. outcomes = [i \in 1 .. Len(outcomes) |-> outcomes[i]]
    BY <1>10
  <2> QED BY <1>5, <1>11, <2>1
<1> QED BY <1>7, <1>8, <1>9, <1>12

(* A run that returned Interrupted, with candidates left, can be continued. *)
LEMMA InterruptedIsContinuable ==
  ASSUME JournalInv, InspectionInv, ReportInv, IsParent, wpc = "closed", error = NoValue,
         status.kind = "Interrupted", baseline # NoValue, Idle # <<>>,
         NEW expected, expected.run = run, expected.identity = Identity,
         expected.semantics = "PureIndependent", expected.log = [lines |-> lines, torn |-> torn]
  PROVE  Continuable(Preflight([lines |-> lines, torn |-> torn], expected, Identity))
<1> DEFINE log == [lines |-> lines, torn |-> torn]
<1>1. PICK s : s = Inspect(lines, torn)
  OBVIOUS
<1>2. /\ s # NoValue /\ s.header = Heading /\ s.unknown = NoValue
      /\ s.state = StateOf(status) /\ s.successful = Len(outcomes) /\ s.baseline = (baseline # NoValue)
      /\ s.neverStarted = Len(Idle) /\ s.failed = NoValue
  BY <1>1, RunIsReported
<1>3. /\ Clean /\ pc = "done" /\ input = Scenarios /\ taken \in Nat
  BY ClosedCleanly DEF Todo
<1>4. Len(outcomes) = taken
  BY <1>3 DEF InspectionInv, Evaluated
<1>5. /\ taken - Unsent \in Nat /\ taken - Unsent <= Len(Todo)
      /\ Idle = SubSeq(Todo, taken - Unsent + 1, Len(Todo))
  BY <1>3, IdleIsTheRest DEF ReportInv
<1>6. Unsent = 0 /\ Todo = Scenarios /\ taken - 0 = taken
  BY <1>3 DEF Unsent, Todo
<1>7. Idle = SubSeq(Scenarios, taken + 1, Len(Scenarios)) /\ taken <= Len(Scenarios)
  BY <1>5, <1>6
<1>8. Len(Idle) = Len(Scenarios) - taken /\ Len(Idle) # 0
  <2>1. Len(Scenarios) \in Nat /\ Scenarios \in Seq(ScenarioIds)
    BY ScenariosAssumption
  <2>2. Len(Idle) = Len(Scenarios) - taken
    BY <1>3, <1>7, <2>1
  <2>3. Idle \in Seq(ScenarioIds)
    BY <1>3, <1>7, <2>1
  <2> QED BY <2>2, <2>3
<1>9. s.successful + s.neverStarted = Len(Scenarios)
  BY <1>2, <1>3, <1>4, <1>8, ScenariosAssumption
<1>10. s.state = "Interrupted"
  BY <1>2 DEF StateOf
<1>11. Anchored(s, expected)
  BY <1>2 DEF Anchored, Heading
<1>12. Blockers(s, expected) = {}
  BY <1>2, <1>8, <1>10 DEF Blockers
<1>13. Preflight(log, expected, Identity) = [summary |-> s, blockers |-> Blockers(s, expected)]
  BY <1>1, <1>11 DEF Preflight, Preflighted
<1>14. [summary |-> s, blockers |-> {}] # NoValue
  <2>1. s \in Summaries
    BY <1>1, RunIsReported
  <2>2. [summary |-> s, blockers |-> {}] \in Clearances
    BY <2>1 DEF Clearances
  <2> QED BY <2>2, ValuesAssumption
<1>15. PICK pre : pre = [summary |-> s, blockers |-> {}]
  OBVIOUS
<1>16. pre = Preflight(log, expected, Identity)
  BY <1>12, <1>13, <1>15
<1>17. pre # NoValue /\ pre.summary = s /\ pre.blockers = {}
  BY <1>14, <1>15
<1> QED BY <1>2, <1>9, <1>16, <1>17 DEF Continuable

(* A continuation that reported completion is one that finishes its plan,  *)
(* and its file restores its outcomes.                                     *)
LEMMA CompletedFinishes ==
  ASSUME JournalInv, InspectionInv, ReportInv, ~IsParent, wpc = "closed", error = NoValue,
         status.kind = "Completed",
         NEW s, s = InspectChild([lines |-> lines, torn |-> torn], plan.log, plan.expected)
  PROVE  /\ Finishes(plan, s, run) /\ s.successful = Len(outcomes) /\ outcomes \in Seq(Outcomes)
         /\ \A i \in 1 .. Len(outcomes) : Restored(lines, i) = outcomes[i]
<1>1. PICK c : c = ChildLifecycleOf(lines, plan.expected, Prior)
  OBVIOUS
<1>2. c = Read(lines)
  BY <1>1 DEF Read
<1>3. /\ Clean /\ pc = "done" /\ ~torn /\ lines \in Seq(Entries) /\ lines # <<>>
      /\ c # NoValue /\ c.active = NoValue /\ c.failed = NoValue
      /\ c.successful = Len(outcomes) /\ c.header = Heading
      /\ input = plan.remaining /\ taken \in Nat
  BY <1>2, ClosedCleanly DEF Todo
<1>4. Len(outcomes) = taken /\ taken = Len(input) /\ outcomes \in Seq(Outcomes)
  BY <1>3 DEF InspectionInv, Evaluated, Outcomes
<1>5. plan \in Plans
  BY DEF JournalInv, ProcessType
<1>6. s # NoValue /\ s.successful = c.successful
  BY <1>1, <1>3, <1>5, AcceptedChildIsSummarized
<1>7. s = ChildSummary(c)
  <2>1. /\ plan.expected.semantics = "PureIndependent" /\ plan.log = plan.expected.log
        /\ Anchored(Prior, plan.expected) /\ ParentAdmissible(Prior)
    BY <1>5, ParentIsKnown
  <2>2. s = InspectBelow(Prior, [lines |-> lines, torn |-> torn], plan.expected)
    BY <1>3, <2>1 DEF InspectChild, Prior
  <2> QED BY <1>1, <2>1, <2>2 DEF InspectBelow
<1>8. /\ Heading.run = run /\ Heading.remaining = plan.remaining
  BY DEF Heading, ChildHeader
<1>9. /\ s.run = run
      /\ s.neverStarted = Len(plan.remaining) - c.successful - 0
  BY <1>3, <1>7, <1>8 DEF ChildSummary
<1>10. s.neverStarted = 0 /\ s.successful = Len(plan.remaining)
  BY <1>3, <1>4, <1>6, <1>9
<1>11. s.state = "Completed"
  <2>1. s.state = StateOf(status)
    BY ContinuationIsReported
  <2> QED BY <2>1 DEF StateOf
<1>12. plan # NoValue
  BY <1>5, PlansAssumption, ValuesAssumption
<1>13. ASSUME NEW i \in 1 .. Len(outcomes)
       PROVE  Restored(lines, i) = outcomes[i]
  <2>1. i \in DOMAIN outcomes /\ i \in 1 .. c.successful
    BY <1>3, <1>4
  <2>2. /\ i \in 1 .. Calls
        /\ Restored(lines, i) = [scenario |-> engine[i].target, signature |-> engine[i].result]
    BY <1>1, <1>3, <2>1, ContinuedCalls
  <2>3. outcomes[i] = [scenario |-> plan.remaining[i], signature |-> engine[i].result]
    BY <1>3, <2>1, OutcomesAreTheEngines
  <2>4. engine[i].target = plan.remaining[i]
    <3>1. i \in DOMAIN engine
      BY <2>2, Numbers
    <3> QED BY <3>1 DEF JournalInv, Filed, Due
  <2> QED BY <2>2, <2>3, <2>4
<1> QED BY <1>3, <1>4, <1>6, <1>9, <1>10, <1>11, <1>12, <1>13 DEF Finishes

(* A file that finishes a plan holds the engine's value of every call.     *)
LEMMA FinishedIsWhole ==
  ASSUME JournalInv, InspectionInv, ~IsParent, NEW r, NEW s,
         s = InspectChild([lines |-> lines, torn |-> torn], plan.log, plan.expected),
         Finishes(plan, s, r)
  PROVE  /\ Calls = Len(plan.remaining) /\ s.successful = Calls
         /\ \A i \in 1 .. Calls :
              /\ engine[i].result \in Signatures
              /\ Restored(lines, i) = [scenario |-> plan.remaining[i], signature |-> engine[i].result]
<1>1. s # NoValue /\ s.successful = Len(plan.remaining)
  BY DEF Finishes
<1>2. lines # <<>> /\ ~torn
  BY <1>1 DEF InspectChild
<1>3. plan \in Plans /\ lines \in Seq(Entries)
  BY DEF JournalInv, ProcessType
<1>4. PICK c : c = ChildLifecycleOf(lines, plan.expected, Prior)
  OBVIOUS
<1>5. c # NoValue
  BY <1>2, <1>4 DEF InspectionInv, Accepted, Read
<1>6. s.successful = c.successful
  BY <1>2, <1>3, <1>4, <1>5, AcceptedChildIsSummarized
<1>7. /\ c.successful \in Nat
      /\ \A i \in 1 .. c.successful :
           /\ i \in 1 .. Calls
           /\ engine[i].result \in Signatures
           /\ Restored(lines, i) = [scenario |-> engine[i].target, signature |-> engine[i].result]
  BY <1>2, <1>4, <1>5, ContinuedCalls
<1>8. Calls \in Nat /\ DOMAIN engine = 1 .. Calls
  BY Numbers
<1>9. \A i \in 1 .. Calls : engine[i].target = plan.remaining[i] /\ i <= Len(plan.remaining)
  BY <1>8 DEF JournalInv, Filed, Due, Todo
<1>10. Calls = Len(plan.remaining)
  <2>1. CASE c.successful = 0
    <3>1. Calls = 0
      <4>1. Calls > 0 => Calls \in 1 .. Calls
        BY <1>8
      <4> QED BY <1>1, <1>6, <1>8, <1>9, <2>1, <4>1
    <3> QED BY <1>1, <1>6, <2>1, <3>1
  <2>2. CASE c.successful # 0
    <3>1. c.successful \in 1 .. Calls
      BY <1>7, <2>2
    <3>2. Calls \in 1 .. Calls
      BY <1>8, <3>1
    <3> QED BY <1>1, <1>6, <1>8, <1>9, <3>1, <3>2
  <2> QED BY <2>1, <2>2
<1> QED BY <1>1, <1>6, <1>7, <1>9, <1>10

(* Both hold at the start.                                                 *)
LEMMA InitialAwaiting == Init => Awaited /\ FromTheEngine
BY ValuesAssumption
   DEF Init, Parent!Init, Child!Init, Parent!Eval!Init, Awaited, FromTheEngine, Calls
=============================================================================
