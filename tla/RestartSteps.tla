---------------------------- MODULE RestartSteps ----------------------------
(***************************************************************************)
(* A run and its continuation as one chain, step by step: each process is  *)
(* one of JournaledProcesses, whose theorems hold of it, and what is       *)
(* carried from one to the next is the truth.                              *)
(***************************************************************************)
EXTENDS RestartChain, SequenceTheorems, TLAPS

----------------------------------------------------------------------------
(* Sequences of calls.                                                     *)

(* What follows the first n elements of a sequence, ...                    *)
LEMMA TailIs ==
  ASSUME NEW S, NEW s \in Seq(S), NEW n \in Nat, n <= Len(s), NEW c, c = SubSeq(s, n + 1, Len(s))
  PROVE  /\ c \in Seq(S) /\ Len(c) = Len(s) - n /\ Len(c) \in Nat
         /\ \A i \in 1 .. Len(c) : c[i] = s[n + i]
<1>1. Len(s) \in Nat
  OBVIOUS
<1> QED BY <1>1

(* ... when the sequence grows, ...                                        *)
LEMMA TailGrows ==
  ASSUME NEW S, NEW s \in Seq(S), NEW n \in Nat, n <= Len(s), NEW x \in S
  PROVE  LET t == Append(s, x)
         IN SubSeq(t, n + 1, Len(t)) = Append(SubSeq(s, n + 1, Len(s)), x)
<1>0. PICK t : t = Append(s, x)
  OBVIOUS
<1>1. Len(s) \in Nat /\ t \in Seq(S) /\ Len(t) = Len(s) + 1 /\ t[Len(s) + 1] = x
      /\ \A i \in 1 .. Len(s) : t[i] = s[i]
      /\ n <= Len(t)
  BY <1>0
<1>2. PICK a : a = SubSeq(s, n + 1, Len(s))
  OBVIOUS
<1>3. PICK b : b = SubSeq(t, n + 1, Len(t))
  OBVIOUS
<1>4. a \in Seq(S) /\ Len(a) = Len(s) - n /\ Len(a) \in Nat /\ \A i \in 1 .. Len(a) : a[i] = s[n + i]
  BY <1>2, TailIs
<1>5. b \in Seq(S) /\ Len(b) = Len(t) - n /\ \A i \in 1 .. Len(b) : b[i] = t[n + i]
  BY <1>1, <1>3, TailIs
<1>6. PICK c : c = Append(a, x)
  OBVIOUS
<1>7. c \in Seq(S) /\ Len(c) = Len(a) + 1 /\ c[Len(a) + 1] = x /\ \A i \in 1 .. Len(a) : c[i] = a[i]
  BY <1>4, <1>6
<1>8. Len(b) = Len(a) + 1 /\ Len(b) = Len(c)
  BY <1>1, <1>4, <1>5, <1>7
<1>9. ASSUME NEW i \in 1 .. Len(b) PROVE b[i] = c[i]
  <2>1. CASE i = Len(a) + 1
    <3>1. n + i = Len(s) + 1
      BY <1>1, <1>4, <2>1
    <3> QED BY <1>1, <1>5, <1>7, <2>1, <3>1
  <2>2. CASE i # Len(a) + 1
    <3>1. i \in 1 .. Len(a) /\ n + i \in 1 .. Len(s)
      <4>1. i \in 1 .. Len(a)
        BY <1>4, <1>8, <2>2
      <4>2. Len(a) = Len(s) - n /\ Len(s) \in Nat
        BY <1>1, <1>4
      <4> QED BY <4>1, <4>2
    <3> QED BY <1>1, <1>4, <1>5, <1>7, <3>1
  <2> QED BY <2>1, <2>2
<1>10. b = c
  BY <1>5, <1>7, <1>8, <1>9, SeqEqual
<1> QED BY <1>0, <1>2, <1>3, <1>6, <1>10

(* ... and when its last element changes.                                  *)
LEMMA TailChanges ==
  ASSUME NEW S, NEW s \in Seq(S), NEW n \in Nat, n < Len(s), NEW x \in S
  PROVE  LET t == [s EXCEPT ![Len(s)] = x]
             a == SubSeq(s, n + 1, Len(s))
         IN SubSeq(t, n + 1, Len(t)) = [a EXCEPT ![Len(a)] = x]
<1>1. Len(s) \in Nat /\ n <= Len(s) /\ Len(s) \in 1 .. Len(s)
  OBVIOUS
<1>2. PICK t : t = [s EXCEPT ![Len(s)] = x]
  OBVIOUS
<1>3. PICK a : a = SubSeq(s, n + 1, Len(s))
  OBVIOUS
<1>4. PICK b : b = SubSeq(t, n + 1, Len(t))
  OBVIOUS
<1>5. PICK c : c = [a EXCEPT ![Len(a)] = x]
  OBVIOUS
<1>6. /\ t \in Seq(S) /\ Len(t) = Len(s)
      /\ \A i \in 1 .. Len(s) : t[i] = IF i = Len(s) THEN x ELSE s[i]
  BY <1>1, <1>2, ExceptSeq
<1>7. a \in Seq(S) /\ Len(a) = Len(s) - n /\ \A i \in 1 .. Len(a) : a[i] = s[n + i]
  BY <1>1, <1>3, TailIs
<1>8. n <= Len(t)
  BY <1>1, <1>6
<1>9. b \in Seq(S) /\ Len(b) = Len(t) - n /\ \A i \in 1 .. Len(b) : b[i] = t[n + i]
  BY <1>4, <1>6, <1>8, TailIs
<1>10. Len(a) \in 1 .. Len(a) /\ Len(b) = Len(a)
  BY <1>1, <1>6, <1>7, <1>9
<1>11. /\ c \in Seq(S) /\ Len(c) = Len(a)
       /\ \A i \in 1 .. Len(a) : c[i] = IF i = Len(a) THEN x ELSE a[i]
  BY <1>5, <1>7, <1>10, ExceptSeq
<1>12. ASSUME NEW i \in 1 .. Len(b) PROVE b[i] = c[i]
  <2>1. i \in 1 .. Len(a) /\ n + i \in 1 .. Len(s) /\ (n + i = Len(s) <=> i = Len(a))
    BY <1>1, <1>7, <1>10
  <2> QED BY <1>6, <1>7, <1>9, <1>11, <2>1
<1>13. b = c
  BY <1>9, <1>10, <1>11, <1>12, SeqEqual
<1> QED BY <1>2, <1>3, <1>4, <1>5, <1>13

(* A sequence is its first elements and those that follow them.           *)
LEMMA TwoParts ==
  ASSUME NEW T, NEW r \in Seq(T), NEW c \in Seq(T), NEW f \in Seq(T), Len(f) = Len(r) + Len(c),
         \A i \in 1 .. Len(r) : r[i] = f[i], \A i \in 1 .. Len(c) : c[i] = f[Len(r) + i]
  PROVE  r \o c = f
<1>1. PICK m \in Nat, k \in Nat : m = Len(r) /\ k = Len(c)
  OBVIOUS
<1>2. /\ r \o c \in Seq(T) /\ Len(r \o c) = m + k
      /\ \A i \in 1 .. m + k : (r \o c)[i] = IF i <= m THEN r[i] ELSE c[i - m]
  BY <1>1, ConcatProperties, Zenon
<1>3. ASSUME NEW i \in 1 .. m + k PROVE (r \o c)[i] = f[i]
  <2>1. CASE i <= m
    BY <1>1, <1>2, <2>1
  <2>2. CASE ~(i <= m)
    <3>1. i - m \in 1 .. k /\ m + (i - m) = i
      BY <2>2
    <3> QED BY <1>1, <1>2, <2>2, <3>1
  <2> QED BY <2>1, <2>2
<1> QED BY <1>1, <1>2, <1>3, SeqEqual

(* All there is to call, in order: the baseline, then every candidate.     *)
AllCalls == <<Baseline>> \o Scenarios

(* They are one more than the candidates.                                 *)
LEMMA AllCallsInOrder ==
  /\ Len(Scenarios) \in Nat /\ Len(AllCalls) = Len(Scenarios) + 1 /\ AllCalls[1] = Baseline
  /\ \A i \in 1 .. Len(Scenarios) : AllCalls[i + 1] = Scenarios[i]
<1>1. Len(Scenarios) \in Nat /\ Scenarios \in Seq(ScenarioIds)
  BY ScenariosAssumption
<1>2. PICK T : T = {Baseline} \cup ScenarioIds
  OBVIOUS
<1>3. PICK a : a = <<Baseline>>
  OBVIOUS
<1>4. a \in Seq(T) /\ Len(a) = 1 /\ a[1] = Baseline /\ Scenarios \in Seq(T)
  BY <1>1, <1>2, <1>3
<1>5. PICK b : b = a \o Scenarios
  OBVIOUS
<1>6. Len(b) = Len(a) + Len(Scenarios) /\ Len(b) \in Nat
      /\ \A i \in 1 .. Len(a) + Len(Scenarios) :
           b[i] = IF i <= Len(a) THEN a[i] ELSE Scenarios[i - Len(a)]
  <2>1. /\ a \o Scenarios \in Seq(T) /\ Len(a \o Scenarios) = Len(a) + Len(Scenarios)
        /\ \A i \in 1 .. Len(a) + Len(Scenarios) :
             (a \o Scenarios)[i] = IF i <= Len(a) THEN a[i] ELSE Scenarios[i - Len(a)]
    BY <1>4, ConcatProperties, Zenon
  <2>2. Len(a) + Len(Scenarios) \in Nat
    BY <1>1, <1>4
  <2> QED BY <1>5, <2>1, <2>2, Zenon
<1>7. 1 \in 1 .. Len(b) /\ b[1] = Baseline
  BY <1>1, <1>4, <1>6
<1>8. ASSUME NEW i \in 1 .. Len(Scenarios) PROVE b[i + 1] = Scenarios[i]
  <2>1. i + 1 \in 1 .. Len(a) + Len(Scenarios) /\ ~(i + 1 <= Len(a)) /\ i + 1 - Len(a) = i
    BY <1>1, <1>4
  <2> QED BY <1>6, <2>1
<1>9. AllCalls = b
  BY <1>3, <1>5 DEF AllCalls
<1> QED BY <1>1, <1>4, <1>6, <1>7, <1>8, <1>9

----------------------------------------------------------------------------
(* The child as a process of its own; the theorems about continuations     *)
(* hold of it.                                                             *)

(* The child's own calls are those behind the restored ones.               *)
ChildCalls == SubSeq(engine, Len(plan.restored) + 2, Len(engine))

(* The continuations that may be prepared from the file of a stopped run.  *)
Preparable ==
  { p \in Second!Preparations : p = Prepare(p.log, p.expected, p.identity)
                                  /\ Len(p.log.lines) \in Nat }

C == INSTANCE JournaledProcessesProofs WITH
  role <- "child", run <- childRun, lines <- childLines, torn <- childTorn,
  engine <- ChildCalls,
  RunIds <- RunIds \cup {ParentRun}, Identities <- Identities \cup {Identity},
  Logs <- [lines : Seq(First!Entries), torn : BOOLEAN], Plans <- Preparable

(* The parent's calls are the first n of those the engine received.        *)
Behind(n) ==
  /\ n \in Nat /\ n <= Len(engine) /\ Len(plan.restored) + 1 = n /\ Len(plan.restored) \in Nat
  /\ engine \in Seq(C!EngineCalls)

----------------------------------------------------------------------------
(* The calls of the child among those of the chain.                        *)

(* A call of the engine is a call of the child, ...                        *)
LEMMA CallIsMade ==
  ASSUME NEW n, Behind(n), plan' = plan, NEW target \in Targets,
         engine' = Append(engine, [target |-> target, result |-> NoValue])
  PROVE  ChildCalls' = Append(ChildCalls, [target |-> target, result |-> NoValue])
<1>1. PICK s : s = engine
  OBVIOUS
<1>2. PICK t : t = engine'
  OBVIOUS
<1>3. PICK x : x = [target |-> target, result |-> NoValue]
  OBVIOUS
<1>4. x \in C!EngineCalls
  BY <1>3 DEF C!EngineCalls, C!Targets, C!ScenarioIds, Targets, ScenarioIds
<1>5. s \in Seq(C!EngineCalls) /\ n \in Nat /\ n <= Len(s) /\ t = Append(s, x)
  BY <1>1, <1>2, <1>3 DEF Behind
<1>6. SubSeq(t, n + 1, Len(t)) = Append(SubSeq(s, n + 1, Len(s)), x)
  BY <1>4, <1>5, TailGrows
<1>7. Len(plan.restored) + 2 = n + 1 /\ Len(plan.restored)' + 2 = n + 1
  BY DEF Behind
<1>8. ChildCalls = SubSeq(s, n + 1, Len(s)) /\ ChildCalls' = SubSeq(t, n + 1, Len(t))
  BY <1>1, <1>2, <1>7, Zenon DEF ChildCalls
<1> QED BY <1>3, <1>6, <1>8, Zenon

(* ... its return is the return of the child's last one, ...               *)
LEMMA LastCall ==
  ASSUME NEW n, Behind(n), Len(ChildCalls) > 0
  PROVE  n < Len(engine) /\ ChildCalls[Len(ChildCalls)] = engine[Len(engine)]
<1>1. PICK s : s = engine
  OBVIOUS
<1>2. PICK c : c = ChildCalls
  OBVIOUS
<1>3. s \in Seq(C!EngineCalls) /\ n \in Nat /\ n <= Len(s) /\ Len(plan.restored) + 2 = n + 1
  BY <1>1 DEF Behind
<1>4. c = SubSeq(s, n + 1, Len(s))
  BY <1>1, <1>2, <1>3 DEF ChildCalls
<1>5. Len(c) = Len(s) - n /\ Len(c) \in Nat /\ \A i \in 1 .. Len(c) : c[i] = s[n + i]
  BY <1>3, <1>4, TailIs
<1>6. Len(c) \in 1 .. Len(c) /\ n + Len(c) = Len(s) /\ n < Len(s)
  BY <1>2, <1>3, <1>5
<1> QED BY <1>1, <1>2, <1>5, <1>6

(* ... and what it returns is entered in the child's calls alike.          *)
LEMMA CallReturns ==
  ASSUME NEW n, Behind(n), plan' = plan, Len(ChildCalls) > 0, NEW value \in Signatures \cup EngineErrors,
         engine' = [engine EXCEPT ![Len(engine)].result = value]
  PROVE  ChildCalls' = [ChildCalls EXCEPT ![Len(ChildCalls)].result = value]
<1>1. PICK s : s = engine
  OBVIOUS
<1>2. PICK t : t = engine'
  OBVIOUS
<1>3. PICK a : a = ChildCalls
  OBVIOUS
<1>4. s \in Seq(C!EngineCalls) /\ n \in Nat /\ Len(plan.restored) + 2 = n + 1
  BY <1>1 DEF Behind
<1>5. n < Len(s) /\ a[Len(a)] = s[Len(s)] /\ Len(s) \in 1 .. Len(s)
  BY <1>1, <1>3, <1>4, LastCall
<1>6. PICK x : x = [s[Len(s)] EXCEPT !.result = value]
  OBVIOUS
<1>7. x \in C!EngineCalls
  <2>1. s[Len(s)] \in C!EngineCalls
    BY <1>4, <1>5
  <2> QED BY <1>6, <2>1 DEF C!EngineCalls, C!Values
<1>8. t = [s EXCEPT ![Len(s)] = x]
  BY <1>1, <1>2, <1>6
<1>9. a = SubSeq(s, n + 1, Len(s))
  BY <1>1, <1>3, <1>4 DEF ChildCalls
<1>10. SubSeq(t, n + 1, Len(t)) = [a EXCEPT ![Len(a)] = x]
  BY <1>4, <1>5, <1>7, <1>8, <1>9, TailChanges
<1>11. ChildCalls' = SubSeq(t, n + 1, Len(t))
  BY <1>2, <1>4, Zenon DEF ChildCalls
<1>12. [a EXCEPT ![Len(a)] = x] = [a EXCEPT ![Len(a)].result = value]
  BY <1>5, <1>6
<1> QED BY <1>3, <1>10, <1>11, <1>12

(* Whatever the child does is a step of a continuation.                    *)
LEMMA ChildRuns ==
  ASSUME NEW n, Behind(n), C!JournalInv, C!Sent, C!Awaited, Child!Process
  PROVE  C!Next /\ plan' = plan
<1>0. plan' = plan
  BY DEF Child!Process, Child!Caller, Child!Evaluate, Child!RestoreBaseline, Child!ReturnRestored,
     Child!Intend, Child!Invoke, Child!EngineReturns, Child!RecordReturn, Child!CodecFails,
     Child!Answer, Child!AnswerBlocked, Child!Close, Child!Emit, Child!Crash, Child!Request,
     Child!journal
<1>00. ASSUME engine' = engine PROVE ChildCalls' = ChildCalls
  BY <1>0, <1>00 DEF ChildCalls
<1>1. Child!Emit => C!Child!Emit
  BY <1>0, <1>00
  DEF Child!Emit, C!Child!Emit, Child!Journal!Emit, C!Child!Journal!Emit, Child!evaluation,
      C!Child!evaluation, Child!Journal!EmitBlocked, C!Child!Journal!EmitBlocked,
      Child!Journal!EmitOverLimit, C!Child!Journal!EmitOverLimit, Child!Journal!WriteEntry,
      C!Child!Journal!WriteEntry, Child!Journal!WriteFails, C!Child!Journal!WriteFails,
      Child!Journal!SyncEntry, C!Child!Journal!SyncEntry, Child!Journal!SyncFails,
      C!Child!Journal!SyncFails, Child!Journal!NoError, C!Child!Journal!NoError,
      Child!Journal!Resume, C!Child!Journal!Resume, Child!Journal!file, C!Child!Journal!file,
      Child!Journal!emitter, C!Child!Journal!emitter, Child!MaxContinuationEntries,
      C!Child!MaxContinuationEntries, Child!Journal!Appended, C!Child!Journal!Appended,
      Child!Journal!NextEntry, C!Child!Journal!NextEntry, Child!Journal!Digest,
      C!Child!Journal!Digest, Child!Journal!Entry, C!Child!Journal!Entry
<1>2. Child!Evaluate => C!Child!Evaluate
  BY <1>0, <1>00
  DEF Child!Evaluate, C!Child!Evaluate, Child!Eval!Admit, C!Child!Eval!Admit,
      Child!Eval!ReadClock, C!Child!Eval!ReadClock, Child!Eval!Checkpoint,
      C!Child!Eval!Checkpoint, Child!Eval!Exhaust, C!Child!Eval!Exhaust, Child!Eval!Progress,
      C!Child!Eval!Progress, Child!Eval!Finish, C!Child!Eval!Finish, Child!journal,
      C!Child!journal, Child!Eval!HasDuplicate, C!Child!Eval!HasDuplicate,
      Child!Eval!DuplicateScenarioId, C!Child!Eval!DuplicateScenarioId,
      Child!Eval!FirstRepeat, C!Child!Eval!FirstRepeat, Child!Eval!control,
      C!Child!Eval!control, Child!Eval!environment, C!Child!Eval!environment,
      Child!Eval!report, C!Child!Eval!report, Child!Eval!InterruptionAt,
      C!Child!Eval!InterruptionAt, Child!Eval!Interrupted, C!Child!Eval!Interrupted,
      Child!Eval!StateOf, C!Child!Eval!StateOf, Child!file, C!Child!file, Child!emitter,
      C!Child!emitter, Child!Eval!RepeatAt, C!Child!Eval!RepeatAt
<1>3. Child!RestoreBaseline => C!Child!RestoreBaseline
  BY <1>0, <1>00
  DEF Child!RestoreBaseline, C!Child!RestoreBaseline, Child!Eval!CallBaseline,
      C!Child!Eval!CallBaseline, Child!file, C!Child!file, Child!emitter, C!Child!emitter,
      Child!Eval!Call, C!Child!Eval!Call, Child!Eval!control, C!Child!Eval!control,
      Child!Eval!environment, C!Child!Eval!environment
<1>4. Child!ReturnRestored => C!Child!ReturnRestored
  BY <1>0, <1>00
  DEF Child!ReturnRestored, C!Child!ReturnRestored, Child!Eval!ReturnBaseline,
      C!Child!Eval!ReturnBaseline, Child!file, C!Child!file, Child!emitter, C!Child!emitter,
      Child!Eval!Answered, C!Child!Eval!Answered, Child!Eval!control, C!Child!Eval!control,
      Child!Eval!environment, C!Child!Eval!environment
<1>5. Child!Intend => C!Child!Intend
  BY <1>0, <1>00
  DEF Child!Intend, C!Child!Intend, Child!Eval!CallScenario, C!Child!Eval!CallScenario,
      Child!NoError, C!Child!NoError, Child!CallStarted, C!Child!CallStarted, Child!file,
      C!Child!file, Child!emitter, C!Child!emitter, Child!Eval!Call, C!Child!Eval!Call,
      Child!Eval!control, C!Child!Eval!control, Child!Eval!environment,
      C!Child!Eval!environment
<1>6. Child!CodecFails => C!Child!CodecFails
  BY <1>0, <1>00
  DEF Child!CodecFails, C!Child!CodecFails, Child!evaluation, C!Child!evaluation, Child!file,
      C!Child!file, Child!emitter, C!Child!emitter
<1>7. Child!AnswerBlocked => C!Child!AnswerBlocked
  BY <1>0, <1>00
  DEF Child!AnswerBlocked, C!Child!AnswerBlocked, Child!Eval!Fail, C!Child!Eval!Fail,
      Child!file, C!Child!file, Child!emitter, C!Child!emitter, Child!Eval!EngineFailed,
      C!Child!Eval!EngineFailed, Child!Eval!Answered, C!Child!Eval!Answered,
      Child!Eval!control, C!Child!Eval!control, Child!Eval!environment,
      C!Child!Eval!environment
<1>8. Child!Close => C!Child!Close
  BY <1>0, <1>00
  DEF Child!Close, C!Child!Close, Child!NoError, C!Child!NoError, Child!Terminal,
      C!Child!Terminal, Child!evaluation, C!Child!evaluation, Child!file, C!Child!file,
      Child!emitter, C!Child!emitter, Child!Finished, C!Child!Finished
<1>9. Child!Crash => C!Child!Crash
  BY <1>0, <1>00
  DEF Child!Crash, C!Child!Crash, Child!Journal!Lost, C!Child!Journal!Lost, Child!evaluation,
      C!Child!evaluation, Child!Journal!file, C!Child!Journal!file, Child!Journal!NoError,
      C!Child!Journal!NoError, Child!Journal!emitter, C!Child!Journal!emitter
<1>10. Child!Request => C!Child!Request
  BY <1>0, <1>00
  DEF Child!Request, C!Child!Request, Child!Eval!Cancel, C!Child!Eval!Cancel,
      Child!Eval!PassDeadline, C!Child!Eval!PassDeadline, Child!journal, C!Child!journal,
      Child!Eval!control, C!Child!Eval!control, Child!Eval!report, C!Child!Eval!report,
      Child!file, C!Child!file, Child!emitter, C!Child!emitter
<1>11. Child!Invoke => C!Child!Invoke
  <2>1. SUFFICES ASSUME Child!Invoke PROVE C!Child!Invoke
    OBVIOUS
  <2>2. wpc = "engine" /\ engine' = Append(engine, [target |-> current, result |-> NoValue])
    BY <2>1 DEF Child!Invoke
  <2>3. current \in Targets
    BY <2>2 DEF C!Sent, C!Pending, C!JournalInv, C!ProcessType, C!Targets, C!ScenarioIds, Targets, ScenarioIds
  <2>4. ChildCalls' = Append(ChildCalls, [target |-> current, result |-> NoValue])
    BY <1>0, <2>2, <2>3, CallIsMade
  <2> QED BY <2>1, <2>4
      DEF Child!Invoke, C!Child!Invoke, Child!evaluation, C!Child!evaluation, Child!file, C!Child!file,
          Child!emitter, C!Child!emitter
<1>12. Child!EngineReturns => C!Child!EngineReturns
  <2>1. SUFFICES ASSUME Child!EngineReturns PROVE C!Child!EngineReturns
    OBVIOUS
  <2>2. PICK value \in Signatures \cup EngineErrors :
          engine' = [engine EXCEPT ![Len(engine)].result = value]
    BY <2>1 DEF Child!EngineReturns
  <2>3. Len(ChildCalls) > 0
    BY <2>1 DEF Child!EngineReturns, C!Awaited, C!Calls
  <2>4. ChildCalls' = [ChildCalls EXCEPT ![Len(ChildCalls)].result = value]
    BY <1>0, <2>2, <2>3, CallReturns
  <2> QED BY <2>1, <2>2, <2>4
      DEF Child!EngineReturns, C!Child!EngineReturns, Child!evaluation, C!Child!evaluation, Child!file,
          C!Child!file, Child!emitter, C!Child!emitter
<1>13. Child!RecordReturn => C!Child!RecordReturn
  <2>1. SUFFICES ASSUME Child!RecordReturn PROVE C!Child!RecordReturn
    OBVIOUS
  <2>2. Len(ChildCalls) > 0
    BY <2>1 DEF Child!RecordReturn, C!Sent, C!Inside, C!Calls
  <2>3. C!Child!Result = Child!Result
    BY <2>2, LastCall DEF C!Child!Result, Child!Result
  <2> QED BY <1>0, <1>00, <2>1, <2>3
      DEF Child!RecordReturn, C!Child!RecordReturn, Child!CallSucceeded, C!Child!CallSucceeded,
          Child!Encode, C!Child!Encode, Child!CallFailed, C!Child!CallFailed, Child!evaluation,
          C!Child!evaluation, Child!file, C!Child!file, Child!emitter, C!Child!emitter
<1>14. Child!Answer => C!Child!Answer
  <2>1. SUFFICES ASSUME Child!Answer PROVE C!Child!Answer
    OBVIOUS
  <2>2. Len(ChildCalls) > 0
    BY <2>1 DEF Child!Answer, C!Sent, C!Inside, C!Calls
  <2>3. C!Child!Result = Child!Result
    BY <2>2, LastCall DEF C!Child!Result, Child!Result
  <2> QED BY <1>0, <1>00, <2>1, <2>3
      DEF Child!Answer, C!Child!Answer, Child!Eval!ReturnScenario, C!Child!Eval!ReturnScenario,
          Child!Eval!Fail, C!Child!Eval!Fail, Child!file, C!Child!file, Child!emitter, C!Child!emitter,
          Child!Eval!Answered, C!Child!Eval!Answered, Child!Eval!control, C!Child!Eval!control,
          Child!Eval!environment, C!Child!Eval!environment, Child!ScenarioIds, C!Child!ScenarioIds,
          Child!Eval!EngineFailed, C!Child!Eval!EngineFailed
<1>15. Child!Stopped <=> C!Child!Stopped
  BY DEF Child!Stopped, C!Child!Stopped
<1>16. Child!Caller => C!Child!Caller
  BY <1>1, <1>2, <1>3, <1>4, <1>5, <1>6, <1>7, <1>8, <1>9, <1>10, <1>11, <1>12, <1>13, <1>14
  DEF Child!Caller, C!Child!Caller
<1>17. C!Child!Process
  BY <1>1, <1>2, <1>3, <1>4, <1>5, <1>6, <1>7, <1>8, <1>9, <1>10, <1>11, <1>12, <1>13, <1>14,
     <1>15, <1>16
  DEF Child!Process, C!Child!Process
<1> QED BY <1>0, <1>17 DEF C!Next, C!IsParent, C!Child!Next

----------------------------------------------------------------------------
(* Reading a file means the same to a process and to the controller.       *)

(* The child inspects a log as the controller does, ...                    *)
LEMMA ChildInspects ==
  ASSUME NEW log, NEW tail
  PROVE  C!Inspect(log, tail) = Inspect(log, tail)
BY DEF C!Inspect, Inspect, C!Summarize, Summarize, C!SummaryState, SummaryState,
   C!LifecycleOf, LifecycleOf, C!FreshLifecycle, FreshLifecycle,
   C!ReadLine, ReadLine, C!Accepts, Accepts, C!After, After,
   C!StartAllowed, StartAllowed, C!FinishAllowed, FinishAllowed,
   C!MaxEntries, MaxEntries, C!Digest, Digest

(* ... reads the same values from it, ...                                  *)
LEMMA ChildRestores ==
  ASSUME NEW log, NEW i
  PROVE  C!Restored(log, i) = Restored(log, i)
<1>1. C!Successes(log) = Successes(log)
  BY DEF C!Successes, Successes
<1> QED BY <1>1 DEF C!Restored, Restored, C!Decode, Decode

(* ... makes the same plan of it, ...                                      *)
LEMMA ChildPlans ==
  ASSUME NEW log, NEW given, NEW n
  PROVE  C!PlanOf(log, given, n) = PlanOf(log, given, n)
<1> DEFINE r(k) == Restored(log.lines, k)
<1>1. \A k : C!Restored(log.lines, k) = r(k)
  BY ChildRestores
<1>2. C!Restored(log.lines, 1).signature = r(1).signature
  BY <1>1
<1>3. C!Suffix(n) = Suffix(n)
  BY DEF C!Suffix, Suffix
<1>4. [k \in 1 .. n |-> C!Restored(log.lines, k + 1)] = [k \in 1 .. n |-> r(k + 1)]
  BY <1>1, Zenon
<1> QED BY <1>2, <1>3, <1>4, Zenon DEF C!PlanOf, PlanOf

(* ... and prepares the same continuation.                                 *)
LEMMA ChildPrepares ==
  ASSUME NEW log, NEW given, NEW artifact
  PROVE  C!Prepare(log, given, artifact) = Prepare(log, given, artifact)
<1>1. ASSUME NEW s PROVE C!Preflighted(s, given) = Preflighted(s, given)
  BY DEF C!Preflighted, Preflighted, C!Anchored, Anchored, C!Blockers, Blockers
<1>2. C!Preflight(log, given, artifact) = Preflight(log, given, artifact)
  BY <1>1, ChildInspects DEF C!Preflight, Preflight
<1>3. ASSUME NEW p PROVE C!Prepared(p, log, given) = Prepared(p, log, given)
  BY ChildPlans DEF C!Prepared, Prepared, C!Continuable, Continuable
<1> QED BY <1>2, <1>3 DEF C!Prepare, Prepare

(* So it is with a child's file.                                           *)
LEMMA ChildInspectsChild ==
  ASSUME NEW child, NEW log, NEW anchors
  PROVE  C!InspectChild(child, log, anchors) = InspectChild(child, log, anchors)
<1>1. C!Inspect(log.lines, log.torn) = Inspect(log.lines, log.torn)
  BY ChildInspects
<1>2. ASSUME NEW parent
      PROVE  C!ChildLifecycleOf(child.lines, anchors, parent)
               = ChildLifecycleOf(child.lines, anchors, parent)
  BY DEF C!ChildLifecycleOf, ChildLifecycleOf, C!FreshChild, FreshChild, C!ChildReadLine,
         ChildReadLine, C!Digest, Digest, C!MaxContinuationEntries, MaxContinuationEntries,
         C!ChildAccepts, ChildAccepts, C!ChildAfter, ChildAfter, C!HeaderMatches, HeaderMatches,
         C!ChildFinishAllowed, ChildFinishAllowed, C!Suffix, Suffix
<1>3. ASSUME NEW parent PROVE C!InspectBelow(parent, child, anchors) = InspectBelow(parent, child, anchors)
  BY <1>2
  DEF C!InspectBelow, InspectBelow, C!Anchored, Anchored, C!ParentAdmissible, ParentAdmissible,
      C!ChildSummary, ChildSummary, C!ChildState, ChildState
<1> QED BY <1>1, <1>3 DEF C!InspectChild, InspectChild

(* The assumptions of the chain are those of the child.                     *)
LEMMA ChildAssumptions == C!ScenariosAssumption /\ C!ValuesAssumption /\ C!PlansAssumption
<1>1. C!ScenariosAssumption
  BY ScenariosAssumption DEF ScenariosAssumption, C!ScenariosAssumption, C!ScenarioIds, ScenarioIds
<1>2. C!ValuesAssumption
  BY ValuesAssumption
  DEF ValuesAssumption, Second!ValuesAssumption, C!ValuesAssumption, Second!Entries, C!Entries,
      Second!Headers, C!Headers, Second!ChildHeaders, C!ChildHeaders, Second!Events, C!Events,
      Second!Preparations, C!Preparations, Second!Lifecycles, C!Lifecycles,
      Second!ChildLifecycles, C!ChildLifecycles, Second!Summaries, C!Summaries,
      Second!ChildSummaries, C!ChildSummaries, Second!Clearances, C!Clearances, Second!Anchors,
      C!Anchors, Second!ScenarioIds, C!ScenarioIds, Second!Targets, C!Targets, Second!Payloads,
      C!Payloads, Second!Outcomes, C!Outcomes, Second!States, C!States
<1>3. C!PlansAssumption
  <2>1. C!Preparations = Second!Preparations
    BY DEF Second!Preparations, C!Preparations, Second!Anchors, C!Anchors, Second!Outcomes,
           C!Outcomes, Second!ScenarioIds, C!ScenarioIds
  <2>2. \A p \in Preparable :
          /\ p \in C!Preparations /\ p = C!Prepare(p.log, p.expected, p.identity)
          /\ Len(p.log.lines) \in Nat
    BY <2>1, ChildPrepares DEF Preparable
  <2> QED BY <2>2, Zenon DEF C!PlansAssumption
<1> QED BY <1>1, <1>2, <1>3

----------------------------------------------------------------------------
(* So it is with the parent.                                               *)

P == INSTANCE JournaledProcessesProofs WITH
  role <- "parent", plan <- NoValue,
  RunIds <- {ParentRun}, Identities <- {Identity}, Logs <- {}, Plans <- {}

(* Whatever the parent does is a step of a run that keeps a journal.       *)
LEMMA ParentRuns ==
  ASSUME Parent!Process
  PROVE  P!Next
<1>1. Parent!Emit => P!Parent!Emit
  BY DEF Parent!Emit, P!Parent!Emit, Parent!Journal!Emit, P!Parent!Journal!Emit,
         Parent!evaluation, P!Parent!evaluation, Parent!Journal!EmitBlocked,
         P!Parent!Journal!EmitBlocked, Parent!Journal!EmitOverLimit,
         P!Parent!Journal!EmitOverLimit, Parent!Journal!WriteEntry, P!Parent!Journal!WriteEntry,
         Parent!Journal!WriteFails, P!Parent!Journal!WriteFails, Parent!Journal!SyncEntry,
         P!Parent!Journal!SyncEntry, Parent!Journal!SyncFails, P!Parent!Journal!SyncFails,
         Parent!Journal!NoError, P!Parent!Journal!NoError, Parent!Journal!Resume,
         P!Parent!Journal!Resume, Parent!Journal!file, P!Parent!Journal!file,
         Parent!Journal!emitter, P!Parent!Journal!emitter, Parent!MaxEntries,
         P!Parent!MaxEntries, Parent!Journal!Appended, P!Parent!Journal!Appended,
         Parent!Journal!NextEntry, P!Parent!Journal!NextEntry, Parent!Journal!Digest,
         P!Parent!Journal!Digest, Parent!Journal!Entry, P!Parent!Journal!Entry
<1>2. Parent!Evaluate => P!Parent!Evaluate
  BY DEF Parent!Evaluate, P!Parent!Evaluate, Parent!Eval!Admit, P!Parent!Eval!Admit,
         Parent!Eval!ReadClock, P!Parent!Eval!ReadClock, Parent!Eval!Checkpoint,
         P!Parent!Eval!Checkpoint, Parent!Eval!Exhaust, P!Parent!Eval!Exhaust,
         Parent!Eval!Progress, P!Parent!Eval!Progress, Parent!Eval!Finish, P!Parent!Eval!Finish,
         Parent!journal, P!Parent!journal, Parent!Eval!HasDuplicate, P!Parent!Eval!HasDuplicate,
         Parent!Eval!DuplicateScenarioId, P!Parent!Eval!DuplicateScenarioId,
         Parent!Eval!FirstRepeat, P!Parent!Eval!FirstRepeat, Parent!Eval!control,
         P!Parent!Eval!control, Parent!Eval!environment, P!Parent!Eval!environment,
         Parent!Eval!report, P!Parent!Eval!report, Parent!Eval!InterruptionAt,
         P!Parent!Eval!InterruptionAt, Parent!Eval!Interrupted, P!Parent!Eval!Interrupted,
         Parent!Eval!StateOf, P!Parent!Eval!StateOf, Parent!file, P!Parent!file, Parent!emitter,
         P!Parent!emitter, Parent!session, P!Parent!session, Parent!Eval!RepeatAt,
         P!Parent!Eval!RepeatAt
<1>3. Parent!Request => P!Parent!Request
  BY DEF Parent!Request, P!Parent!Request, Parent!Eval!Cancel, P!Parent!Eval!Cancel,
         Parent!Eval!PassDeadline, P!Parent!Eval!PassDeadline, Parent!journal, P!Parent!journal,
         Parent!Eval!control, P!Parent!Eval!control, Parent!Eval!report, P!Parent!Eval!report,
         Parent!file, P!Parent!file, Parent!emitter, P!Parent!emitter, Parent!session,
         P!Parent!session
<1>4. Parent!IntendBaseline => P!Parent!IntendBaseline
  BY DEF Parent!IntendBaseline, P!Parent!IntendBaseline, Parent!Eval!CallBaseline,
         P!Parent!Eval!CallBaseline, Parent!CallStarted, P!Parent!CallStarted, Parent!file,
         P!Parent!file, Parent!emitter, P!Parent!emitter, Parent!session, P!Parent!session,
         Parent!Eval!Call, P!Parent!Eval!Call, Parent!Eval!control, P!Parent!Eval!control,
         Parent!Eval!environment, P!Parent!Eval!environment
<1>5. Parent!IntendScenario => P!Parent!IntendScenario
  BY DEF Parent!IntendScenario, P!Parent!IntendScenario, Parent!Eval!CallScenario,
         P!Parent!Eval!CallScenario, Parent!NoError, P!Parent!NoError, Parent!session,
         P!Parent!session, Parent!CallStarted, P!Parent!CallStarted, Parent!file, P!Parent!file,
         Parent!emitter, P!Parent!emitter, Parent!Eval!Call, P!Parent!Eval!Call,
         Parent!Eval!control, P!Parent!Eval!control, Parent!Eval!environment,
         P!Parent!Eval!environment
<1>6. Parent!Invoke => P!Parent!Invoke
  BY DEF Parent!Invoke, P!Parent!Invoke, Parent!evaluation, P!Parent!evaluation, Parent!file,
         P!Parent!file, Parent!emitter, P!Parent!emitter, Parent!session, P!Parent!session
<1>7. Parent!EngineReturns => P!Parent!EngineReturns
  BY DEF Parent!EngineReturns, P!Parent!EngineReturns, Parent!evaluation, P!Parent!evaluation,
         Parent!file, P!Parent!file, Parent!emitter, P!Parent!emitter, Parent!session,
         P!Parent!session
<1>8. Parent!RecordReturn => P!Parent!RecordReturn
  BY DEF Parent!RecordReturn, P!Parent!RecordReturn, Parent!Result, P!Parent!Result,
         Parent!CallSucceeded, P!Parent!CallSucceeded, Parent!Encode, P!Parent!Encode,
         Parent!CallFailed, P!Parent!CallFailed, Parent!evaluation, P!Parent!evaluation,
         Parent!file, P!Parent!file, Parent!emitter, P!Parent!emitter, Parent!session,
         P!Parent!session
<1>9. Parent!CodecFails => P!Parent!CodecFails
  BY DEF Parent!CodecFails, P!Parent!CodecFails, Parent!evaluation, P!Parent!evaluation,
         Parent!file, P!Parent!file, Parent!emitter, P!Parent!emitter
<1>10. Parent!Answer => P!Parent!Answer
  BY DEF Parent!Answer, P!Parent!Answer, Parent!Result, P!Parent!Result,
         Parent!Eval!ReturnBaseline, P!Parent!Eval!ReturnBaseline, Parent!Eval!ReturnScenario,
         P!Parent!Eval!ReturnScenario, Parent!Eval!Fail, P!Parent!Eval!Fail, Parent!file,
         P!Parent!file, Parent!emitter, P!Parent!emitter, Parent!session, P!Parent!session,
         Parent!Eval!Answered, P!Parent!Eval!Answered, Parent!Eval!control,
         P!Parent!Eval!control, Parent!Eval!environment, P!Parent!Eval!environment,
         Parent!ScenarioIds, P!Parent!ScenarioIds, Parent!Eval!EngineFailed,
         P!Parent!Eval!EngineFailed
<1>11. Parent!AnswerBlocked => P!Parent!AnswerBlocked
  BY DEF Parent!AnswerBlocked, P!Parent!AnswerBlocked, Parent!Eval!Fail, P!Parent!Eval!Fail,
         Parent!file, P!Parent!file, Parent!emitter, P!Parent!emitter, Parent!session,
         P!Parent!session, Parent!Eval!EngineFailed, P!Parent!Eval!EngineFailed,
         Parent!Eval!Answered, P!Parent!Eval!Answered, Parent!Eval!control,
         P!Parent!Eval!control, Parent!Eval!environment, P!Parent!Eval!environment
<1>12. Parent!Close => P!Parent!Close
  BY DEF Parent!Close, P!Parent!Close, Parent!NoError, P!Parent!NoError, Parent!Terminal,
         P!Parent!Terminal, Parent!evaluation, P!Parent!evaluation, Parent!file, P!Parent!file,
         Parent!emitter, P!Parent!emitter, Parent!Finished, P!Parent!Finished
<1>13. Parent!Crash => P!Parent!Crash
  BY DEF Parent!Crash, P!Parent!Crash, Parent!Journal!Lost, P!Parent!Journal!Lost,
         Parent!evaluation, P!Parent!evaluation, Parent!Journal!file, P!Parent!Journal!file,
         Parent!Journal!NoError, P!Parent!Journal!NoError, Parent!Journal!emitter,
         P!Parent!Journal!emitter
<1>14. P!Parent!Process
  <2>1. Parent!Stopped <=> P!Parent!Stopped
    BY DEF Parent!Stopped, P!Parent!Stopped
  <2>2. Parent!Caller => P!Parent!Caller
    BY <1>1, <1>2, <1>4, <1>5, <1>6, <1>7, <1>8, <1>9, <1>10, <1>11, <1>12
       DEF Parent!Caller, P!Parent!Caller
  <2> QED BY <1>3, <1>13, <2>1, <2>2 DEF Parent!Process, P!Parent!Process
<1> QED BY <1>14 DEF P!Next, P!IsParent, P!Parent!Next

(* It starts as one.                                                       *)
LEMMA ParentStarts ==
  ASSUME Parent!Init
  PROVE  P!Init
<1>1. P!Parent!Init
  BY DEF Parent!Init, P!Parent!Init, Parent!Eval!Init, P!Parent!Eval!Init, Parent!Initialized,
         P!Parent!Initialized, Parent!Header, P!Parent!Header, Parent!Journal!Init,
         P!Parent!Journal!Init, Parent!Eval!Completed, P!Parent!Eval!Completed,
         Parent!Journal!NoError, P!Parent!Journal!NoError
<1> QED BY <1>1 DEF P!Init

(* The parent inspects a log as the controller does, ...                   *)
LEMMA SameInspect ==
  ASSUME NEW log, NEW tail
  PROVE  P!Inspect(log, tail) = Inspect(log, tail)
BY DEF P!Inspect, Inspect, P!Summarize, Summarize, P!SummaryState, SummaryState,
   P!LifecycleOf, LifecycleOf, P!FreshLifecycle, FreshLifecycle,
   P!ReadLine, ReadLine, P!Accepts, Accepts, P!After, After,
   P!StartAllowed, StartAllowed, P!FinishAllowed, FinishAllowed,
   P!MaxEntries, MaxEntries, P!Digest, Digest

(* ... reads the same values from it, ...                                  *)
LEMMA SameRestored ==
  ASSUME NEW log, NEW i
  PROVE  P!Restored(log, i) = Restored(log, i)
<1>1. P!Successes(log) = Successes(log)
  BY DEF P!Successes, Successes
<1> QED BY <1>1 DEF P!Restored, Restored, P!Decode, Decode

(* ... makes the same plan of it, ...                                      *)
LEMMA SamePlanOf ==
  ASSUME NEW log, NEW given, NEW n
  PROVE  P!PlanOf(log, given, n) = PlanOf(log, given, n)
<1> DEFINE r(k) == Restored(log.lines, k)
<1>1. \A k : P!Restored(log.lines, k) = r(k)
  BY SameRestored
<1>2. P!Restored(log.lines, 1).signature = r(1).signature
  BY <1>1
<1>3. P!Suffix(n) = Suffix(n)
  BY DEF P!Suffix, Suffix
<1>4. [k \in 1 .. n |-> P!Restored(log.lines, k + 1)] = [k \in 1 .. n |-> r(k + 1)]
  BY <1>1, Zenon
<1> QED BY <1>2, <1>3, <1>4, Zenon DEF P!PlanOf, PlanOf

(* ... and prepares the same continuation.                                 *)
LEMMA SamePrepare ==
  ASSUME NEW log, NEW given, NEW artifact
  PROVE  P!Prepare(log, given, artifact) = Prepare(log, given, artifact)
<1>1. ASSUME NEW s PROVE P!Preflighted(s, given) = Preflighted(s, given)
  BY DEF P!Preflighted, Preflighted, P!Anchored, Anchored, P!Blockers, Blockers
<1>2. P!Preflight(log, given, artifact) = Preflight(log, given, artifact)
  BY <1>1, SameInspect DEF P!Preflight, Preflight
<1>3. ASSUME NEW p PROVE P!Prepared(p, log, given) = Prepared(p, log, given)
  BY SamePlanOf DEF P!Prepared, Prepared, P!Continuable, Continuable
<1> QED BY <1>2, <1>3 DEF P!Prepare, Prepare

(* The assumptions of the chain are those of the parent.                    *)
LEMMA ParentAssumptions == P!ScenariosAssumption /\ P!ValuesAssumption /\ P!PlansAssumption
<1>1. P!ScenariosAssumption
  BY ScenariosAssumption DEF ScenariosAssumption, P!ScenariosAssumption, P!ScenarioIds, ScenarioIds
<1>2. P!ValuesAssumption
  BY ValuesAssumption
  DEF ValuesAssumption, First!ValuesAssumption, P!ValuesAssumption, First!Entries, P!Entries,
      First!Headers, P!Headers, First!ChildHeaders, P!ChildHeaders, First!Events, P!Events,
      First!Preparations, P!Preparations, First!Lifecycles, P!Lifecycles, First!ChildLifecycles,
      P!ChildLifecycles, First!Summaries, P!Summaries, First!ChildSummaries, P!ChildSummaries,
      First!Clearances, P!Clearances, First!Anchors, P!Anchors, First!ScenarioIds,
      P!ScenarioIds, First!Targets, P!Targets, First!Payloads, P!Payloads, First!Outcomes,
      P!Outcomes, First!States, P!States
<1>3. P!PlansAssumption
  BY Zenon DEF P!PlansAssumption
<1> QED BY <1>1, <1>2, <1>3
----------------------------------------------------------------------------
(* The invariant of the chain.                                             *)

(* What is known of the parent while it runs, and of the child while it    *)
(* does.                                                                   *)
Running == P!JournalInv /\ P!InspectionInv /\ P!Sent /\ P!Kept /\ P!Awaited /\ P!FromTheEngine
Continuing == C!JournalInv /\ C!InspectionInv /\ C!Sent /\ C!Kept /\ C!Awaited

(* No child yet: its file, and the memory of a process that has not begun. *)
NoFile == childRun = NoValue /\ childLines = <<>> /\ childTorn = FALSE
Fresh ==
  /\ NoFile
  /\ input = <<>> /\ limit = 0 /\ deadline = FALSE /\ cancelled = FALSE /\ expired = FALSE
  /\ pc = "admit" /\ late = FALSE /\ baseline = NoValue /\ outcomes = <<>> /\ taken = 0
  /\ current = NoValue /\ status = [kind |-> "Completed"] /\ called = <<>> /\ notices = <<>>
  /\ wpc = "idle" /\ event = NoValue /\ sequence = 0 /\ previous = NoValue /\ poisoned = FALSE
  /\ error = NoValue /\ next = 0 /\ crashed = FALSE

(* A plan says the truth of the first n calls that the engine received.    *)
Truthful(p, n) ==
  /\ n \in Nat /\ n > 0 /\ n - 1 < Len(Scenarios) /\ n <= Len(engine)
  /\ engine \in Seq(C!EngineCalls)
  /\ \A i \in 1 .. n : engine[i].result \in Signatures
  /\ \A i \in 1 .. n - 1 : engine[i + 1].target = Scenarios[i]
  /\ p.baseline = engine[1].result
  /\ p.restored = [i \in 1 .. n - 1 |->
                     [scenario |-> engine[i + 1].target, signature |-> engine[i + 1].result]]
  /\ p.remaining = Suffix(n - 1)
  /\ p \in Preparable /\ p = Prepare(ParentLog, expected, Identity)
  /\ p.log = ParentLog /\ p.expected = expected

(* Once the parent has stopped, what can be prepared is the truth, and     *)
(* nothing can be prepared of a run that yielded its batch.                *)
Captured ==
  /\ expected.log = ParentLog /\ expected.identity = Identity
  /\ LET p == Prepare(ParentLog, expected, Identity) IN
       p # NoValue => Truthful(p, Len(engine)) /\ ranked = NoValue
  /\ Fresh

(* What is known in each phase of the chain.                               *)
ChainInv ==
  /\ phase # "assembled" => batch = NoValue
  /\ phase = "parent" => Running /\ NoFile
  /\ phase = "captured" => Captured
  /\ phase = "prepared" => Truthful(plan, Len(engine)) /\ Fresh /\ ranked = NoValue
  /\ phase = "child" => Truthful(plan, Len(plan.restored) + 1) /\ Continuing /\ ranked = NoValue

(* The steps of each process keep what is known of it.                     *)
LEMMA RunningKept ==
  ASSUME Running, [P!Next]_(P!vars)
  PROVE  Running'
BY ParentAssumptions, P!StepKeepsJournal, P!StepKeepsInspection, P!SentKept, P!KeptKept,
   P!AwaitedKept, P!FromTheEngineKept
   DEF Running

(* So do the child's.                                                      *)
LEMMA ContinuingKept ==
  ASSUME Continuing, [C!Next]_(C!vars)
  PROVE  Continuing'
BY ChildAssumptions, C!StepKeepsJournal, C!StepKeepsInspection, C!SentKept, C!KeptKept,
   C!AwaitedKept
   DEF Continuing

(* A truthful plan tells which calls were the parent's.                    *)
LEMMA TruthfulIsBehind ==
  ASSUME NEW n, Truthful(plan, n)
  PROVE  Behind(n) /\ plan \in Preparable
<1>1. n - 1 \in Nat /\ n \in Nat /\ n <= Len(engine)
  BY DEF Truthful
<1>2. Len(plan.restored) = n - 1
  BY <1>1 DEF Truthful
<1> QED BY <1>1, <1>2 DEF Behind, Truthful

(* A child that has not begun is one that begins.                          *)
LEMMA ChildStarts ==
  ASSUME Truthful(plan, Len(engine)), Fresh
  PROVE  Continuing
<1>1. Behind(Len(engine)) /\ plan \in Preparable
  BY TruthfulIsBehind
<1>2. ChildCalls = <<>>
  <2>1. PICK s : s = engine
    OBVIOUS
  <2>2. s \in Seq(C!EngineCalls) /\ Len(s) \in Nat /\ Len(plan.restored) + 2 = Len(s) + 1
    BY <1>1, <2>1 DEF Behind
  <2>3. SubSeq(s, Len(s) + 1, Len(s)) = <<>>
    BY <2>2
  <2> QED BY <2>1, <2>2, <2>3 DEF ChildCalls
<1>3. C!Init
  BY <1>1, <1>2 DEF Fresh, NoFile, C!Init, C!Child!Init, C!Child!Eval!Completed, C!Child!Journal!Init,
     C!Child!Journal!NoError
<1>4. C!JournalInv /\ C!InspectionInv /\ C!ReportInv /\ C!Awaited
  BY <1>3, ChildAssumptions, C!InitialJournal, C!InitialInspection, C!InitialReport, C!InitialAwaiting
<1> QED BY <1>4 DEF Continuing, C!ReportInv

(* Its execution is its first step.                                        *)
LEMMA ChildExecutes ==
  ASSUME ExecuteChild, Fresh
  PROVE  C!Next
<1>1. UNCHANGED <<plan, childLines, childTorn, engine>>
  BY DEF ExecuteChild
<1>2. ChildCalls' = ChildCalls
  BY <1>1 DEF ChildCalls
<1>3. PICK id \in RunIds, identity \in Identities, quota \in Limits, timed \in BOOLEAN, stop \in BOOLEAN :
        \E late_ \in {FALSE, timed} : Child!Execute(plan, id, identity, quota, timed, stop, late_)
  BY DEF ExecuteChild
<1>4. PICK late_ \in {FALSE, timed} : Child!Execute(plan, id, identity, quota, timed, stop, late_)
  BY <1>3
<1>5. C!Child!Execute(plan, id, identity, quota, timed, stop, late_)
  BY <1>4
  DEF Child!Execute, C!Child!Execute, Child!Admitted, C!Child!Admitted, Child!NewEvaluation,
      C!Child!NewEvaluation, Child!Eval!Completed, C!Child!Eval!Completed, Child!Initialized,
      C!Child!Initialized, Child!ChildHeader, C!Child!ChildHeader, Child!NoError, C!Child!NoError
<1>6. C!Child!Start
  <2>1. wpc = "idle"
    BY DEF Fresh
  <2>2. UNCHANGED <<plan, C!Child!file, ChildCalls>>
    BY <1>1, <1>2 DEF C!Child!file
  <2>3. id \in RunIds \cup {ParentRun} /\ identity \in Identities \cup {Identity}
    OBVIOUS
  <2> QED BY <1>5, <2>1, <2>2, <2>3 DEF C!Child!Start
<1> QED BY <1>6 DEF C!Next, C!IsParent, C!Child!Next

(* The engine hears of the child only by its calls.                        *)
LEMMA ChildAndEngine ==
  ASSUME Child!Process
  PROVE  engine' = engine \/ Child!Invoke \/ Child!EngineReturns
BY DEF Child!Process, Child!Caller, Child!Evaluate, Child!RestoreBaseline, Child!ReturnRestored,
   Child!Intend, Child!RecordReturn, Child!CodecFails, Child!Answer, Child!AnswerBlocked,
   Child!Close, Child!Emit, Child!Crash, Child!Request, Child!journal

(* What the parent's calls returned, no call of the child changes.         *)
LEMMA FirstCallsStay ==
  ASSUME NEW n, Behind(n), n > 0, Continuing, Child!Process
  PROVE  /\ engine' \in Seq(C!EngineCalls) /\ n <= Len(engine') /\ Len(engine) <= Len(engine')
         /\ \A i \in 1 .. n : engine'[i] = engine[i]
<1>1. engine \in Seq(C!EngineCalls) /\ n \in Nat /\ n <= Len(engine) /\ Len(engine) \in Nat
  BY DEF Behind
<1>2. CASE Child!Invoke
  <2>1. wpc = "engine" /\ engine' = Append(engine, [target |-> current, result |-> NoValue])
    BY <1>2 DEF Child!Invoke
  <2>2. current \in Targets
    BY <2>1 DEF Continuing, C!Sent, C!Pending, C!JournalInv, C!ProcessType, C!Targets, C!ScenarioIds,
       Targets, ScenarioIds
  <2>3. [target |-> current, result |-> NoValue] \in C!EngineCalls
    BY <2>2 DEF C!EngineCalls, C!Targets, C!ScenarioIds, Targets, ScenarioIds
  <2> QED BY <1>1, <2>1, <2>3
<1>3. CASE Child!EngineReturns
  <2>1. PICK value \in Signatures \cup EngineErrors :
          wpc = "in engine" /\ engine' = [engine EXCEPT ![Len(engine)].result = value]
    BY <1>3 DEF Child!EngineReturns
  <2>2. Len(ChildCalls) > 0
    BY <2>1 DEF Continuing, C!Awaited, C!Calls
  <2>3. n < Len(engine)
    BY <2>2, LastCall
  <2>4. engine[Len(engine)] \in C!EngineCalls /\ Len(engine) \in 1 .. Len(engine)
    BY <1>1, <2>3
  <2>5. PICK x : x = [engine[Len(engine)] EXCEPT !.result = value]
    OBVIOUS
  <2>6. x \in C!EngineCalls
    BY <2>4, <2>5 DEF C!EngineCalls, C!Values
  <2>7. engine' = [engine EXCEPT ![Len(engine)] = x]
    BY <2>1, <2>5
  <2>8. /\ engine' \in Seq(C!EngineCalls) /\ Len(engine') = Len(engine)
        /\ \A j \in 1 .. Len(engine) : engine'[j] = IF j = Len(engine) THEN x ELSE engine[j]
    BY <1>1, <2>4, <2>6, <2>7, ExceptSeq
  <2> QED BY <1>1, <2>3, <2>8
<1> QED BY <1>1, <1>2, <1>3, ChildAndEngine

(* So the plan stays the truth about the parent while the child runs.      *)
LEMMA StaysTruthful ==
  ASSUME NEW n, n = Len(plan.restored) + 1, Truthful(plan, n), Continuing, Child!Process,
         UNCHANGED <<lines, torn, expected>>
  PROVE  plan' = plan /\ Truthful(plan, n)'
<1>1. Behind(n) /\ n \in Nat /\ n > 0
  BY TruthfulIsBehind DEF Truthful
<1>2. plan' = plan
  BY <1>1, ChildRuns DEF Continuing
<1>3. /\ engine' \in Seq(C!EngineCalls) /\ n <= Len(engine')
      /\ \A i \in 1 .. n : engine'[i] = engine[i]
  BY <1>1, FirstCallsStay
<1>4. \A i \in 1 .. n - 1 : i + 1 \in 1 .. n /\ engine'[i + 1] = engine[i + 1]
  BY <1>1, <1>3
<1>5. engine'[1] = engine[1]
  BY <1>1, <1>3
<1>6. [i \in 1 .. n - 1 |-> [scenario |-> engine'[i + 1].target, signature |-> engine'[i + 1].result]]
       = [i \in 1 .. n - 1 |-> [scenario |-> engine[i + 1].target, signature |-> engine[i + 1].result]]
  BY <1>4
<1>7. ParentLog' = ParentLog /\ expected' = expected
  BY DEF ParentLog
<1>8. /\ n \in Nat /\ n > 0 /\ n - 1 < Len(Scenarios)
      /\ \A i \in 1 .. n : engine[i].result \in Signatures
      /\ \A i \in 1 .. n - 1 : engine[i + 1].target = Scenarios[i]
      /\ plan.baseline = engine[1].result
      /\ plan.restored = [i \in 1 .. n - 1 |->
                     [scenario |-> engine[i + 1].target, signature |-> engine[i + 1].result]]
      /\ plan.remaining = Suffix(n - 1)
      /\ plan \in Preparable /\ plan = Prepare(ParentLog, expected, Identity)
      /\ plan.log = ParentLog /\ plan.expected = expected
  BY DEF Truthful
<1>9. /\ \A i \in 1 .. n : engine'[i].result \in Signatures
      /\ \A i \in 1 .. n - 1 : engine'[i + 1].target = Scenarios[i]
      /\ plan.baseline = engine'[1].result
  BY <1>3, <1>4, <1>5, <1>8
<1> QED BY <1>2, <1>3, <1>6, <1>7, <1>8, <1>9, Zenon DEF Truthful

(* A stopped parent's log can only be prepared into the truth.             *)
LEMMA StoppedIsTruthful ==
  ASSUME Running, NEW semantics \in {"PureIndependent", "RequiresReconciliation"}, NEW retained,
         retained = Expectations(run, ParentLog, Identity, semantics),
         P!Continuable(P!Preflight(ParentLog, retained, Identity)),
         NEW p, p = Prepare(ParentLog, retained, Identity)
  PROVE  LET n == Len(engine) IN
           /\ n \in Nat /\ n > 0 /\ n - 1 < Len(Scenarios)
           /\ engine \in Seq(C!EngineCalls)
           /\ \A i \in 1 .. n : engine[i].result \in Signatures
           /\ \A i \in 1 .. n - 1 : engine[i + 1].target = Scenarios[i]
           /\ p.baseline = engine[1].result
           /\ p.restored = [i \in 1 .. n - 1 |->
                              [scenario |-> engine[i + 1].target, signature |-> engine[i + 1].result]]
           /\ p.remaining = Suffix(n - 1)
           /\ p \in Preparable /\ p.log = ParentLog /\ p.expected = retained
<1>1. p = P!Prepare(ParentLog, retained, Identity)
  BY SamePrepare
<1>2. P!JournalInv /\ P!InspectionInv /\ P!IsParent
  BY DEF Running, P!IsParent
<1>3. P!Calls = Len(engine)
  BY DEF P!Calls
<1>4. P!Suffix(Len(engine) - 1) = Suffix(Len(engine) - 1)
  BY DEF P!Suffix, Suffix
<1>5. ParentLog = [lines |-> lines, torn |-> torn]
  BY DEF ParentLog
<1>6. /\ P!Calls \in Nat /\ P!Calls > 0 /\ P!Calls - 1 < Len(Scenarios)
      /\ \A i \in 1 .. P!Calls : engine[i].result \in Signatures
      /\ p.baseline = engine[1].result
      /\ p.restored = [i \in 1 .. P!Calls - 1 |->
                         [scenario |-> engine[i + 1].target, signature |-> engine[i + 1].result]]
      /\ p.remaining = P!Suffix(P!Calls - 1)
      /\ p.expected = retained /\ p.log = ParentLog
      /\ p.run = retained.run /\ p.identity = retained.identity
      /\ retained.run \in {ParentRun}
      /\ p.baseline \in Signatures /\ p.restored \in Seq(P!Outcomes)
      /\ p.remaining \in Seq(P!ScenarioIds)
      /\ p = [run |-> p.run, log |-> p.log, identity |-> p.identity, expected |-> p.expected,
              baseline |-> p.baseline, restored |-> p.restored, remaining |-> p.remaining]
  <2>1. P!Continuable(P!Preflight([lines |-> lines, torn |-> torn], retained, Identity))
    BY <1>5, Zenon
  <2>2. p = P!Prepare([lines |-> lines, torn |-> torn], retained, Identity)
    BY <1>1, <1>5, Zenon
  <2>3. P!ScenariosAssumption /\ P!ValuesAssumption /\ P!PlansAssumption
    BY ParentAssumptions
  <2>4. /\ P!Calls \in Nat /\ P!Calls > 0 /\ P!Calls - 1 < Len(Scenarios)
        /\ \A i \in 1 .. P!Calls : engine[i].result \in Signatures
        /\ p.baseline = engine[1].result
        /\ p.restored = [i \in 1 .. P!Calls - 1 |->
                           [scenario |-> engine[i + 1].target, signature |-> engine[i + 1].result]]
        /\ p.remaining = P!Suffix(P!Calls - 1)
        /\ p.expected = retained /\ p.log = [lines |-> lines, torn |-> torn]
        /\ p.run = retained.run /\ p.identity = retained.identity
        /\ retained.run \in {ParentRun}
        /\ p.baseline \in Signatures /\ p.restored \in Seq(P!Outcomes)
        /\ p.remaining \in Seq(P!ScenarioIds)
        /\ p = [run |-> p.run, log |-> p.log, identity |-> p.identity, expected |-> p.expected,
                baseline |-> p.baseline, restored |-> p.restored, remaining |-> p.remaining]
    BY <1>2, <2>1, <2>2, <2>3, P!PlanTellsTheTruth
  <2> QED BY <1>5, <2>4, Zenon
<1>7. engine \in Seq(P!EngineCalls) /\ lines \in Seq(P!Entries) /\ torn \in BOOLEAN
  BY <1>2 DEF P!JournalInv, P!ProcessType
<1>8. engine \in Seq(C!EngineCalls)
  BY <1>7 DEF P!EngineCalls, C!EngineCalls, P!Targets, C!Targets, P!ScenarioIds, C!ScenarioIds,
     P!Values, C!Values
<1>9. \A i \in 1 .. Len(engine) - 1 : engine[i + 1].target = Scenarios[i]
  <2>1. SUFFICES ASSUME NEW i \in 1 .. Len(engine) - 1 PROVE engine[i + 1].target = Scenarios[i]
    OBVIOUS
  <2>2. i + 1 \in DOMAIN engine /\ i \in Nat /\ i + 1 # 1 /\ i + 1 - 1 = i
    BY <1>7
  <2>3. engine[i + 1].target = P!Due(i + 1)
    BY <1>2, <2>2 DEF P!JournalInv, P!Filed
  <2> QED BY <1>2, <2>2, <2>3 DEF P!Due
<1>10. P!Entries = First!Entries
  BY DEF P!Entries, First!Entries, P!Events, First!Events, P!Headers, First!Headers,
     P!ChildHeaders, First!ChildHeaders, P!Anchors, First!Anchors, P!Targets, First!Targets,
     P!ScenarioIds, First!ScenarioIds, P!Payloads, First!Payloads
<1>11. ParentLog \in [lines : Seq(First!Entries), torn : BOOLEAN] /\ Len(ParentLog.lines) \in Nat
  BY <1>5, <1>7, <1>10
<1>12. /\ retained = [run |-> run, log |-> ParentLog, bundle |-> Scenarios, identity |-> Identity,
                      semantics |-> semantics]
       /\ retained.run = run /\ retained.identity = Identity
  BY DEF Expectations
<1>13. run = ParentRun
  BY <1>6, <1>12
<1>14. retained \in Second!Anchors
  BY <1>11, <1>12, <1>13 DEF Second!Anchors
<1>15. P!Outcomes = Second!Outcomes /\ P!ScenarioIds = Second!ScenarioIds
  BY DEF P!Outcomes, Second!Outcomes, P!ScenarioIds, Second!ScenarioIds
<1>16. /\ p.run \in RunIds \cup {ParentRun} /\ p.identity \in Identities \cup {Identity}
       /\ p.expected \in Second!Anchors /\ p.log \in [lines : Seq(First!Entries), torn : BOOLEAN]
       /\ p.restored \in Seq(Second!Outcomes) /\ p.remaining \in Seq(Second!ScenarioIds)
       /\ p.baseline \in Signatures
  BY <1>6, <1>11, <1>12, <1>13, <1>14, <1>15
<1>17. p \in Second!Preparations
  <2>1. PICK q : q = p
    OBVIOUS
  <2>2. q = [run |-> q.run, log |-> q.log, identity |-> q.identity, expected |-> q.expected,
             baseline |-> q.baseline, restored |-> q.restored, remaining |-> q.remaining]
    BY <1>6, <2>1, Zenon
  <2> QED BY <1>16, <2>1, <2>2 DEF Second!Preparations
<1>18. p = Prepare(p.log, p.expected, p.identity) /\ Len(p.log.lines) \in Nat
  BY <1>6, <1>11, <1>12, Zenon
<1>19. p \in Preparable
  BY <1>17, <1>18 DEF Preparable
<1> QED BY <1>3, <1>4, <1>6, <1>8, <1>9, <1>19, Zenon

----------------------------------------------------------------------------
(* What the two of them have called, and what assembly makes of it.        *)

(* The whole of what the engine returned, as a batch.                      *)
Whole(b) ==
  /\ Len(engine) = Len(Scenarios) + 1
  /\ \A i \in 1 .. Len(engine) : engine[i].result \in Signatures
  /\ b = [baseline |-> engine[1].result,
          outcomes |-> [i \in 1 .. Len(Scenarios) |->
                          [scenario |-> Scenarios[i], signature |-> engine[i + 1].result]]]

(* What a truthful plan leaves over.                                       *)
LEMMA PlanLeavesTheRest ==
  ASSUME NEW p, NEW n, Truthful(p, n)
  PROVE  /\ n \in Nat /\ n > 0 /\ Len(p.remaining) = Len(Scenarios) - (n - 1) /\ Len(Scenarios) \in Nat
         /\ \A i \in 1 .. Len(p.remaining) : p.remaining[i] = Scenarios[n - 1 + i]
<1>1. n \in Nat /\ n > 0 /\ n - 1 \in Nat /\ n - 1 <= Len(Scenarios) /\ p.remaining = Suffix(n - 1)
  BY ScenariosAssumption DEF Truthful
<1>2. PICK s : s = Scenarios
  OBVIOUS
<1>3. PICK m : m = n - 1
  OBVIOUS
<1>4. PICK r : r = p.remaining
  OBVIOUS
<1>5. s \in Seq(ScenarioIds) /\ Len(s) \in Nat
  BY <1>2, ScenariosAssumption
<1>6. r = SubSeq(s, m + 1, Len(s))
  BY <1>1, <1>2, <1>3, <1>4 DEF Suffix
<1>7. Len(r) = Len(s) - m /\ \A i \in 1 .. Len(r) : r[i] = s[m + i]
  BY <1>1, <1>2, <1>3, <1>5, <1>6, TailIs
<1> QED BY <1>1, <1>2, <1>3, <1>4, <1>5, <1>7

(* The calls of the chain are the parent's and the child's.                *)
LEMMA CallsOfBoth ==
  ASSUME NEW n, Truthful(plan, n)
  PROVE  /\ engine \in Seq(C!EngineCalls) /\ n \in Nat /\ n > 0 /\ n <= Len(engine)
         /\ Len(engine) \in Nat /\ Len(ChildCalls) = Len(engine) - n
         /\ \A i \in 1 .. Len(ChildCalls) : ChildCalls[i] = engine[n + i]
<1>1. Behind(n) /\ n > 0
  BY TruthfulIsBehind DEF Truthful
<1>2. PICK s : s = engine
  OBVIOUS
<1>3. PICK c : c = ChildCalls
  OBVIOUS
<1>4. s \in Seq(C!EngineCalls) /\ n \in Nat /\ n <= Len(s) /\ Len(plan.restored) + 2 = n + 1
  BY <1>1, <1>2 DEF Behind
<1>5. c = SubSeq(s, n + 1, Len(s))
  BY <1>2, <1>3, <1>4 DEF ChildCalls
<1>6. Len(c) = Len(s) - n /\ \A i \in 1 .. Len(c) : c[i] = s[n + i]
  BY <1>4, <1>5, TailIs
<1>7. Len(s) \in Nat
  BY <1>4
<1> QED BY <1>1, <1>2, <1>3, <1>4, <1>6, <1>7

(* What assembly accepts is the whole of what the engine returned to both. *)
LEMMA AssembledIsWhole ==
  ASSUME NEW n, Truthful(plan, n), Continuing, NEW b,
         b = Assemble(ParentLog, ChildLog, [run |-> childRun, log |-> ChildLog], expected, Identity),
         b # NoValue
  PROVE  Whole(b)
<1>1. PICK s : s = InspectChild(ChildLog, ParentLog, expected)
  OBVIOUS
<1>2. plan = Prepare(ParentLog, expected, Identity) /\ plan.log = ParentLog /\ plan.expected = expected
  BY DEF Truthful
<1>3. b = Joined(plan, s, ChildLog, childRun)
  BY <1>1, <1>2 DEF Assemble
<1>4. Finishes(plan, s, childRun)
  BY <1>3 DEF Joined
<1>5. s = C!InspectChild([lines |-> childLines, torn |-> childTorn], plan.log, plan.expected)
  BY <1>1, <1>2, ChildInspectsChild DEF ChildLog
<1>6. C!Finishes(plan, s, childRun)
  BY <1>4 DEF C!Finishes, Finishes
<1>7. PICK m : m = Len(ChildCalls)
  OBVIOUS
<1>8. /\ m = Len(plan.remaining) /\ s.successful = m
      /\ \A i \in 1 .. m :
           /\ ChildCalls[i].result \in Signatures
           /\ C!Restored(childLines, i)
                = [scenario |-> plan.remaining[i], signature |-> ChildCalls[i].result]
  <2>1. C!JournalInv /\ C!InspectionInv /\ ~C!IsParent
    BY DEF Continuing, C!IsParent
  <2>2. C!ScenariosAssumption /\ C!ValuesAssumption /\ C!PlansAssumption
    BY ChildAssumptions
  <2>3. C!Calls = m
    BY <1>7 DEF C!Calls
  <2> QED BY <1>5, <1>6, <2>1, <2>2, <2>3, C!FinishedIsWhole
<1>9. /\ n \in Nat /\ n > 0 /\ Len(Scenarios) \in Nat /\ m = Len(Scenarios) - (n - 1)
      /\ \A i \in 1 .. m : plan.remaining[i] = Scenarios[n - 1 + i]
  BY <1>8, PlanLeavesTheRest
<1>10. /\ Len(engine) \in Nat /\ n <= Len(engine) /\ m = Len(engine) - n
       /\ \A i \in 1 .. m : ChildCalls[i] = engine[n + i]
  BY <1>7, CallsOfBoth
<1>11. PICK f : f = [i \in 1 .. Len(Scenarios) |->
                       [scenario |-> Scenarios[i], signature |-> engine[i + 1].result]]
  OBVIOUS
<1>12. PICK r : r = plan.restored
  OBVIOUS
<1>13. PICK c : c = [k \in 1 .. m |-> Restored(childLines, k)]
  OBVIOUS
<1>14. /\ r = [i \in 1 .. n - 1 |->
                 [scenario |-> engine[i + 1].target, signature |-> engine[i + 1].result]]
       /\ \A i \in 1 .. n - 1 : engine[i + 1].target = Scenarios[i]
       /\ \A i \in 1 .. n : engine[i].result \in Signatures
       /\ plan.baseline = engine[1].result
  BY <1>12 DEF Truthful
<1>15. /\ n \in Nat /\ m \in Nat /\ n - 1 \in Nat
       /\ n - 1 + m = Len(Scenarios) /\ n - 1 <= Len(Scenarios) /\ n + m = Len(Scenarios) + 1
  <2>1. n \in Nat /\ n > 0 /\ Len(Scenarios) \in Nat /\ m = Len(Scenarios) - (n - 1)
    BY <1>9
  <2>2. Len(engine) \in Nat /\ n <= Len(engine) /\ m = Len(engine) - n
    BY <1>10
  <2> QED BY <2>1, <2>2
<1>16. ASSUME NEW i \in 1 .. m
       PROVE  /\ n - 1 + i \in 1 .. Len(Scenarios)
              /\ c[i] = f[n - 1 + i]
  <2>1. n - 1 + i \in 1 .. Len(Scenarios) /\ n - 1 + i + 1 = n + i
    BY <1>15
  <2>2. f[n - 1 + i] = [scenario |-> Scenarios[n - 1 + i], signature |-> engine[n + i].result]
    BY <1>11, <2>1
  <2>3. c[i] = [scenario |-> plan.remaining[i], signature |-> ChildCalls[i].result]
    BY <1>8, <1>13, ChildRestores
  <2> QED BY <1>9, <1>10, <2>1, <2>2, <2>3
<1>17. r \o c = f
  <2>1. PICK T : T = { f[i] : i \in 1 .. Len(Scenarios) }
    OBVIOUS
  <2>2. \A i \in 1 .. Len(Scenarios) : f[i] \in T
    BY <2>1, Zenon
  <2>3. f \in [1 .. n - 1 + m -> T]
    BY <1>11, <1>15, <2>2
  <2>4. \A i \in 1 .. n - 1 : i \in 1 .. Len(Scenarios) /\ r[i] = f[i]
    BY <1>11, <1>14, <1>15
  <2>5. r \in [1 .. n - 1 -> T]
    BY <1>14, <2>2, <2>4
  <2>6. c \in [1 .. m -> T]
    BY <1>13, <1>16, <2>2
  <2>7. PICK q : q = n - 1
    OBVIOUS
  <2>8. q \in Nat /\ m \in Nat /\ f \in [1 .. q + m -> T] /\ r \in [1 .. q -> T] /\ c \in [1 .. m -> T]
    BY <1>15, <2>3, <2>5, <2>6, <2>7
  <2>9. /\ f \in Seq(T) /\ r \in Seq(T) /\ c \in Seq(T)
        /\ Len(f) = q + m /\ Len(r) = q /\ Len(c) = m
    BY <2>8
  <2>10. \A i \in 1 .. Len(r) : r[i] = f[i]
    BY <2>4, <2>7, <2>9, Zenon
  <2>11. \A i \in 1 .. Len(c) : c[i] = f[Len(r) + i]
    BY <1>16, <2>7, <2>9, Zenon
  <2>12. Len(f) = Len(r) + Len(c)
    BY <2>9, Zenon
  <2> QED BY <2>9, <2>10, <2>11, <2>12, TwoParts, Zenon
<1>18. b = [baseline |-> engine[1].result, outcomes |-> f]
  <2>1. b = [baseline |-> plan.baseline, outcomes |-> plan.restored
               \o [k \in 1 .. s.successful |-> Restored(childLines, k)]]
    BY <1>3, <1>4, Zenon DEF Joined, ChildLog
  <2>2. c = [k \in 1 .. s.successful |-> Restored(childLines, k)]
    BY <1>8, <1>13
  <2> QED BY <1>12, <1>14, <1>17, <2>1, <2>2
<1>19. Len(engine) = Len(Scenarios) + 1
  BY <1>9, <1>10
<1>20. ASSUME NEW i \in 1 .. Len(engine) PROVE engine[i].result \in Signatures
  <2>1. CASE i <= n
    BY <1>9, <1>10, <1>14, <2>1
  <2>2. CASE ~(i <= n)
    <3>1. i - n \in 1 .. m /\ n + (i - n) = i
      BY <1>9, <1>10, <2>2
    <3> QED BY <1>8, <1>10, <3>1
  <2> QED BY <2>1, <2>2
<1> QED BY <1>11, <1>18, <1>19, <1>20 DEF Whole
=============================================================================
