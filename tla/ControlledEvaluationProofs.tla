--------------------- MODULE ControlledEvaluationProofs ---------------------
(***************************************************************************)
(* Theorems about ControlledEvaluation, for every batch, quota, engine and *)
(* schedule of cancellations and clock readings.                           *)
(*                                                                         *)
(* One inductive invariant, Inv, carries the safety theorems.  It says     *)
(* where the report, the iterator and the history of calls stand relative  *)
(* to each other at every control point (Shape), that a batch with a       *)
(* repeated id is rejected before any call (Admitted), that the calls made *)
(* and the outcomes kept are the input's prefix (Ordered, Awaiting), that *)
(* the quota admits what was taken (Quota), what the evaluator has not yet *)
(* had a chance to see of a request to stop (Requests), and what it has    *)
(* seen of the one it reports (Justified, Notified).  Told adds to it that *)
(* a verdict has its ground: from it follows that a record of the report   *)
(* is accepted by the reader of records.                                   *)
(***************************************************************************)
EXTENDS MCControlledEvaluation, TLAPS, FiniteSetTheorems, SequenceTheorems,
        WellFoundedInduction

----------------------------------------------------------------------------
(* Every non-empty set of naturals has a least element.                    *)
LEMMA LeastElement ==
  ASSUME NEW T, T \subseteq Nat, T # {}
  PROVE  \E x \in T : \A y \in T : ~ (y < x)
<1> DEFINE R == OpToRel(<, Nat)
<1>1. \E x \in T : \A y \in T : ~ (<<y, x>> \in R)
  <2> HIDE DEF R
  <2>1. IsWellFoundedOn(R, Nat)
    BY NatLessThanWellFounded DEF R
  <2> QED BY <2>1, WFMin
<1>2. \A x, y \in Nat : <<y, x>> \in R <=> y < x
  BY DEF OpToRel
<1> QED BY <1>1, <1>2

(* The position the duplicate scan stops at exists.                        *)
LEMMA FirstRepeatExists ==
  ASSUME input \in Seq(Ids), HasDuplicate
  PROVE  /\ FirstRepeat \in DOMAIN input
         /\ input[FirstRepeat] \in Ids
<1> DEFINE T == { i \in DOMAIN input : RepeatAt(i) }
<1>1. T \subseteq Nat /\ T # {}
  BY DEF HasDuplicate
<1>2. PICK i \in T : \A j \in T : ~ (j < i)
  BY <1>1, LeastElement
<1>3. \A j \in 1 .. i - 1 : j < i /\ j \in DOMAIN input
  BY <1>2
<1>4. RepeatAt(i) /\ \A j \in 1 .. i - 1 : ~RepeatAt(j)
  BY <1>2, <1>3
<1> QED BY <1>2, <1>4 DEF FirstRepeat

----------------------------------------------------------------------------
(* Type correctness.                                                       *)

(* The initial states are typed.                                           *)
LEMMA TypeInit == Init => TypeOK
<1> SUFFICES ASSUME Init PROVE TypeOK
  OBVIOUS
<1>1. input \in Seq(Ids) /\ limit \in Nat
  BY InputsAssumption, LimitsAssumption DEF Init
<1>2. Completed \in Statuses
  BY DEF Statuses
<1>3. <<>> \in Seq(Outcomes) /\ <<>> \in Seq(Calls) /\ <<>> \in Seq(Notices)
  BY EmptySeq
<1>4. taken \in 0 .. Len(input)
  BY <1>1 DEF Init
<1> QED BY <1>1, <1>2, <1>3, <1>4 DEF Init, TypeOK

(* A failure that names a candidate, or the baseline, is a status.         *)
LEMMA FailureIsStatus ==
  ASSUME NEW s \in Ids \cup {NoValue}, NEW e \in Errors
  PROVE  EngineFailed(s, e) \in Statuses
BY DEF Statuses, EngineFailed

(* Every step keeps every variable's type.                                *)
LEMMA TypeStep == TypeOK /\ [Next]_vars => TypeOK'
<1> SUFFICES ASSUME TypeOK, [Next]_vars PROVE TypeOK'
  OBVIOUS
<1> USE DEF TypeOK, control, environment, report
<1>1. CASE Admit
  <2>1. HasDuplicate => DuplicateScenarioId(input[FirstRepeat]) \in Statuses
    BY FirstRepeatExists DEF Statuses, DuplicateScenarioId
  <2> QED BY <1>1, <2>1 DEF Admit
<1>2. CASE ReadClock
  BY <1>2 DEF ReadClock
<1>3. CASE Checkpoint
  <2>1. InterruptionAt # NoValue => Interrupted(InterruptionAt) \in Statuses
    BY DEF InterruptionAt, Statuses, Reasons, Interrupted
  <2> QED BY <1>3, <2>1 DEF Checkpoint
<1>4. ASSUME NEW target \in Ids \cup {Baseline}, Call(target)
      PROVE  called' \in Seq(Calls) /\ current' \in Ids \cup {Baseline, NoValue}
  <2>1. [target |-> target, cancelled |-> cancelled, expired |-> expired,
         result |-> NoValue] \in Calls
    BY DEF Calls
  <2> QED BY <1>4, <2>1, AppendProperties DEF Call
<1>5. CASE CallBaseline
  BY <1>4, <1>5 DEF CallBaseline, Call
<1>6. CASE CallScenario
  <2>1. input[taken + 1] \in Ids /\ taken + 1 \in 0 .. Len(input)
    BY <1>6 DEF CallScenario
  <2> QED BY <1>4, <1>6, <2>1 DEF CallScenario, Call
<1>7. CASE Exhaust
  BY <1>7 DEF Exhaust
<1>8. ASSUME NEW value \in Signatures \cup Errors, Answered(value)
      PROVE  called' \in Seq(Calls)
  <2> DEFINE last == called[Len(called)]
              answered == [last EXCEPT !.result = value]
  <2>1. last \in Calls => answered \in Calls
    BY DEF Calls
  <2>2. called' = [called EXCEPT ![Len(called)] = answered]
    BY <1>8 DEF Answered
  <2> HIDE DEF answered
  <2>3. CASE Len(called) \in 1 .. Len(called)
    BY <2>1, <2>2, <2>3, ElementOfSeq, ExceptSeq
  <2>4. CASE Len(called) \notin 1 .. Len(called)
    <3>1. DOMAIN called = 1 .. Len(called)
      BY LenProperties
    <3>2. called' = called
      BY <2>2, <2>4, <3>1
    <3> QED BY <3>2
  <2> QED BY <2>3, <2>4
<1>9. CASE \E s \in Signatures : ReturnBaseline(s)
  BY <1>8, <1>9 DEF ReturnBaseline
<1>10. CASE \E s \in Signatures : ReturnScenario(s)
  <2>1. PICK s \in Signatures : ReturnScenario(s)
    BY <1>10
  <2>2. [scenario |-> current, signature |-> s] \in Outcomes
    BY <2>1 DEF ReturnScenario, Outcomes
  <2> QED BY <1>8, <2>1, <2>2 DEF ReturnScenario
<1>11. CASE \E e \in Errors : Fail(e)
  <2>1. PICK e \in Errors : Fail(e)
    BY <1>11
  <2> DEFINE scenario == IF current = Baseline THEN NoValue ELSE current
  <2>2. scenario \in Ids \cup {NoValue} /\ status' = EngineFailed(scenario, e)
    BY <2>1 DEF Fail
  <2> HIDE DEF scenario
  <2>3. status' \in Statuses
    BY <2>2, FailureIsStatus
  <2> QED BY <1>8, <2>1, <2>3 DEF Fail
<1>12. CASE Progress
  BY <1>12 DEF Progress, Notices
<1>13. CASE Finish
  <2>1. StateOf(status) \in {"Completed", "Interrupted", "Failed", "Rejected"}
    BY DEF StateOf, Statuses, Completed, Interrupted, EngineFailed, DuplicateScenarioId
  <2> QED BY <1>13, <2>1 DEF Finish, Notices
<1>14. CASE Cancel \/ PassDeadline \/ Done \/ UNCHANGED vars
  BY <1>14 DEF Cancel, PassDeadline, Done, vars
<1> QED
  BY <1>1, <1>2, <1>3, <1>5, <1>6, <1>7, <1>9, <1>10, <1>11, <1>12, <1>13, <1>14
  DEF Next, Evaluator, EngineReturns

(* Every variable keeps its type, for all values of the constants.         *)
THEOREM TypeCorrect == Spec => []TypeOK
BY TypeInit, TypeStep, PTL DEF Spec

----------------------------------------------------------------------------
(* The inductive invariant.                                                *)

(* Engine calls answered with a signature; calls begun and not so answered. *)
Answers == Len(outcomes) + (IF baseline = NoValue THEN 0 ELSE 1)
Unanswered == IF pc = "calling" \/ status.kind = "EngineFailed" THEN 1 ELSE 0

Ended == pc \in {"report", "done"}

Shape ==
  /\ baseline = NoValue => outcomes = <<>> /\ taken = 0
  /\ baseline # NoValue => taken = Len(outcomes) + Unanswered
  /\ Len(called) = Answers + Unanswered
  /\ current = IF pc # "calling" THEN NoValue
               ELSE IF baseline = NoValue THEN Baseline ELSE input[taken]
  /\ status.kind # "Completed" => Ended
  /\ status.kind = "EngineFailed" =>
       status.scenario = IF baseline = NoValue THEN NoValue ELSE input[taken]
  /\ pc = "progress" => baseline # NoValue
  /\ pc = "admit" => called = <<>>
  /\ Ended /\ status.kind = "Completed" => baseline # NoValue /\ taken = Len(input)

Admitted ==
  /\ status.kind = "DuplicateScenarioId" => called = <<>>
  /\ pc # "admit" /\ status.kind # "DuplicateScenarioId" => ~HasDuplicate

Ordered ==
  /\ \A i \in DOMAIN outcomes :
       /\ outcomes[i].scenario = input[i]
       /\ called[i + 1].result = outcomes[i].signature
  /\ baseline # NoValue => called[1].result = baseline
  /\ \A i \in DOMAIN called :
       called[i].target = IF i = 1 THEN Baseline ELSE input[i - 1]

Awaiting == pc = "calling" => called[Len(called)].result = NoValue

Quota ==
  /\ taken <= limit
  /\ limit = 0 /\ input # <<>> => called = <<>>
  /\ pc = "step" /\ taken < Len(input) => Len(outcomes) < limit

(* A stop had been requested when call i began.                            *)
Stopped(i) == called[i].cancelled \/ (called[i].expired /\ deadline)

Requests ==
  /\ \A i \in DOMAIN called :
       /\ called[i].cancelled => cancelled
       /\ called[i].expired => expired
       /\ pc = "token" /\ called[i].expired => late
       /\ Stopped(i) =>
            /\ i = Len(called) /\ pc # "step"
            /\ Ended => status.kind # "Completed"

(* An interruption has its cause.                                          *)
Justified ==
  /\ (expired => deadline) /\ (late => deadline)
  /\ status.kind = "Interrupted" =>
       /\ status.reason = "Cancelled" => cancelled
       /\ status.reason = "DeadlineReached" => deadline /\ late
       /\ status.reason = "EvaluationLimitReached" =>
            ~late /\ taken < Len(input) /\ Len(outcomes) >= limit

(* Progress callbacks that returned with cancellation requested.           *)
Obeyed(i) ==
  notices[i].event \in {"BaselineCompleted", "ScenarioCompleted"} /\ notices[i].cancelled

Notified ==
  /\ pc # "done" => Len(notices) = Answers - (IF pc = "progress" THEN 1 ELSE 0)
  /\ \A i \in DOMAIN notices :
       Obeyed(i) =>
         /\ cancelled /\ pc \in {"clock", "token", "report", "done"}
         /\ Len(called) = i /\ Answers = i
         /\ Ended => status = Interrupted("Cancelled")

Inv ==
  /\ TypeOK /\ Shape /\ Admitted /\ Ordered /\ Awaiting /\ Quota /\ Requests
  /\ Justified /\ Notified

(* The inductive invariant holds before the first step.                    *)
LEMMA InvInit == Init => Inv
<1> SUFFICES ASSUME Init PROVE Inv
  OBVIOUS
<1>1. TypeOK
  BY TypeInit
<1>2. Shape /\ Admitted /\ Ordered /\ Awaiting /\ Requests /\ Notified
  BY NoValueAssumption
  DEF Init, Shape, Admitted, Ordered, Awaiting, Requests, Notified, Answers, Unanswered,
      Ended, Completed
<1>3. Quota
  BY <1>1 DEF Init, Quota, TypeOK
<1>4. Justified
  <2>1. expired => deadline
    BY Zenon DEF Init
  <2>2. status.kind # "Interrupted"
    BY DEF Init, Completed
  <2> QED BY <2>1, <2>2 DEF Init, Justified
<1> QED BY <1>1, <1>2, <1>3, <1>4 DEF Inv

(* The request never changes.                                              *)
LEMMA RequestConstant ==
  ASSUME [Next]_vars
  PROVE  UNCHANGED control /\ (HasDuplicate' <=> HasDuplicate)
<1>1. UNCHANGED control
  BY DEF Next, Evaluator, EngineReturns, vars, Admit, ReadClock, Checkpoint, CallBaseline,
     CallScenario, Call, Exhaust, ReturnBaseline, ReturnScenario, Fail, Progress, Finish,
     Cancel, PassDeadline, Done
<1> QED BY <1>1 DEF control, HasDuplicate, RepeatAt

(* A call is appended to the history, with what had been requested by then. *)
LEMMA NewCall ==
  ASSUME called \in Seq(Calls), cancelled \in BOOLEAN, expired \in BOOLEAN,
         NEW target \in Ids \cup {Baseline}, Call(target)
  PROVE  /\ called' \in Seq(Calls) /\ Len(called') = Len(called) + 1
         /\ \A i \in 1 .. Len(called) : called'[i] = called[i]
         /\ called'[Len(called) + 1].target = target
         /\ called'[Len(called) + 1].cancelled = cancelled
         /\ called'[Len(called) + 1].expired = expired
         /\ called'[Len(called) + 1].result = NoValue
         /\ current' = target /\ pc' = "calling"
         /\ UNCHANGED <<control, environment, late, baseline, outcomes, status, notices>>
<1> DEFINE call == [target |-> target, cancelled |-> cancelled, expired |-> expired,
                    result |-> NoValue]
<1>1. /\ call \in Calls
      /\ call.target = target /\ call.cancelled = cancelled /\ call.expired = expired
      /\ call.result = NoValue
  BY DEF Calls
<1>2. called' = Append(called, call)
  BY DEF Call
<1>3. /\ current' = target /\ pc' = "calling"
      /\ UNCHANGED <<control, environment, late, baseline, outcomes, status, notices>>
  BY DEF Call
<1> HIDE DEF call
<1> QED BY <1>1, <1>2, <1>3, AppendProperties

(* The return of a call touches the report and nothing a request uses.     *)
LEMMA ReturnFrame ==
  ASSUME EngineReturns
  PROVE  /\ pc = "calling" /\ UNCHANGED <<cancelled, expired, late, taken>>
         /\ \E value \in Signatures \cup Errors : Answered(value)
         /\ \/ pc' = "progress" /\ status' = status
            \/ pc' = "report" /\ status'.kind = "EngineFailed"
<1>1. CASE \E s \in Signatures : ReturnBaseline(s) \/ ReturnScenario(s)
  BY <1>1 DEF ReturnBaseline, ReturnScenario, environment
<1>2. CASE \E e \in Errors : Fail(e)
  <2>1. status'.kind = "EngineFailed"
    BY <1>2 DEF Fail, EngineFailed
  <2> QED BY <1>2, <2>1 DEF Fail, environment
<1> QED BY <1>1, <1>2 DEF EngineReturns

(* A return fills in the result of the last call and changes nothing else. *)
LEMMA AnsweredCall ==
  ASSUME called \in Seq(Calls), Len(called) > 0,
         NEW value \in Signatures \cup Errors, Answered(value)
  PROVE  /\ called' \in Seq(Calls) /\ Len(called') = Len(called)
         /\ \A i \in 1 .. Len(called) - 1 : called'[i] = called[i]
         /\ called'[Len(called)].result = value
         /\ \A i \in 1 .. Len(called) :
              /\ called'[i].target = called[i].target
              /\ called'[i].cancelled = called[i].cancelled
              /\ called'[i].expired = called[i].expired
<1> DEFINE last == called[Len(called)]
            answered == [last EXCEPT !.result = value]
<1>1. last \in Calls
  BY ElementOfSeq
<1>2. /\ answered \in Calls
      /\ answered.result = value /\ answered.target = last.target
      /\ answered.cancelled = last.cancelled /\ answered.expired = last.expired
  BY <1>1 DEF Calls
<1>3. called' = [called EXCEPT ![Len(called)] = answered]
  BY DEF Answered
<1> HIDE DEF answered
<1>4. called' \in Seq(Calls) /\ Len(called') = Len(called)
  BY <1>2, <1>3, ExceptSeq
<1>5. \A i \in 1 .. Len(called) :
        called'[i] = IF i = Len(called) THEN answered ELSE called[i]
  BY <1>3
<1> QED BY <1>2, <1>4, <1>5

(* What the evaluator's position says of the report.                       *)
LEMMA ShapeStep == TypeOK /\ Shape /\ [Next]_vars => Shape'
<1> SUFFICES ASSUME TypeOK, Shape, [Next]_vars PROVE Shape'
  OBVIOUS
<1> USE DEF TypeOK, Shape, Answers, Unanswered, Ended, control, environment, report
<1>0. UNCHANGED control
  BY RequestConstant
<1>1. CASE Admit
  <2>1. status.kind = "Completed" /\ called = <<>> /\ current = NoValue
    BY <1>1 DEF Admit
  <2>2. status' = status \/ status'.kind = "DuplicateScenarioId"
    BY <1>1 DEF Admit, DuplicateScenarioId
  <2>3. /\ UNCHANGED <<called, current, outcomes, taken, baseline>>
        /\ pc' \in {"clock", "report"}
        /\ pc' = "clock" => status' = status
        /\ pc' = "report" => status'.kind = "DuplicateScenarioId"
    BY <1>1 DEF Admit, DuplicateScenarioId
  <2> QED BY <1>0, <1>1, <2>1, <2>2, <2>3 DEF Admit
<1>2. CASE ReadClock
  BY <1>0, <1>2 DEF ReadClock
<1>3. CASE Checkpoint
  <2>1. status.kind = "Completed" /\ current = NoValue
    BY <1>3 DEF Checkpoint
  <2>2. /\ UNCHANGED <<called, current, outcomes, taken, baseline>>
        /\ pc' \in {"step", "report"}
        /\ pc' = "step" => status' = status
        /\ pc' = "report" => status'.kind = "Interrupted"
    BY <1>3 DEF Checkpoint, Interrupted
  <2> QED BY <1>0, <1>3, <2>1, <2>2 DEF Checkpoint
<1>4. CASE CallBaseline
  <2>1. Len(called') = Len(called) + 1
    BY <1>4, NewCall DEF CallBaseline
  <2> QED BY <1>0, <1>4, <2>1, NoValueAssumption DEF CallBaseline, Call
<1>5. CASE CallScenario
  BY <1>0, <1>5 DEF CallScenario, Call
<1>6. CASE Exhaust
  BY <1>0, <1>6 DEF Exhaust
<1>7. CASE \E s \in Signatures : ReturnBaseline(s)
  <2>1. PICK s \in Signatures : ReturnBaseline(s)
    BY <1>7
  <2>2. Len(called') = Len(called)
    BY <2>1, AnsweredCall DEF ReturnBaseline
  <2>3. baseline = NoValue /\ outcomes = <<>> /\ taken = 0 /\ Len(called) = 1
    BY <2>1, BaselineAssumption DEF ReturnBaseline
  <2> QED BY <1>0, <2>1, <2>2, <2>3, NoValueAssumption DEF ReturnBaseline
<1>8. CASE \E s \in Signatures : ReturnScenario(s)
  <2>1. PICK s \in Signatures : ReturnScenario(s)
    BY <1>8
  <2>2. Len(called') = Len(called)
    BY <2>1, AnsweredCall DEF ReturnScenario
  <2> QED BY <1>0, <2>1, <2>2, NoValueAssumption, BaselineAssumption DEF ReturnScenario
<1>9. CASE \E e \in Errors : Fail(e)
  <2>1. PICK e \in Errors : Fail(e)
    BY <1>9
  <2>2. Len(called') = Len(called)
    BY <2>1, AnsweredCall DEF Fail
  <2> QED BY <1>0, <2>1, <2>2, NoValueAssumption, BaselineAssumption DEF Fail, EngineFailed
<1>10. CASE Progress
  BY <1>0, <1>10 DEF Progress
<1>11. CASE Finish
  BY <1>0, <1>11 DEF Finish
<1>12. CASE Cancel \/ PassDeadline \/ Done \/ UNCHANGED vars
  BY <1>0, <1>12 DEF Cancel, PassDeadline, Done, vars
<1> QED
  BY <1>1, <1>2, <1>3, <1>4, <1>5, <1>6, <1>7, <1>8, <1>9, <1>10, <1>11, <1>12
  DEF Next, Evaluator, EngineReturns

(* A batch with a repeated id is rejected before any call, any other is    *)
(* admitted.                                                               *)
LEMMA AdmittedStep == TypeOK /\ Shape /\ Admitted /\ [Next]_vars => Admitted'
<1> SUFFICES ASSUME TypeOK, Shape, Admitted, [Next]_vars PROVE Admitted'
  OBVIOUS
<1>0. HasDuplicate' <=> HasDuplicate
  BY RequestConstant
<1> USE <1>0 DEF Admitted, Shape, Ended, control, environment, report
<1>1. CASE Admit
  BY <1>1 DEF Admit, DuplicateScenarioId
<1>2. CASE Checkpoint
  <2>1. status'.kind = "Interrupted" \/ status' = status
    BY <1>2 DEF Checkpoint, Interrupted
  <2> QED BY <1>2, <2>1 DEF Checkpoint
<1>3. CASE ReadClock \/ Exhaust \/ Progress \/ Finish
  BY <1>3 DEF ReadClock, Exhaust, Progress, Finish
<1>4. CASE CallBaseline \/ CallScenario
  BY <1>4 DEF CallBaseline, CallScenario, Call
<1>5. CASE \E s \in Signatures : ReturnBaseline(s) \/ ReturnScenario(s)
  BY <1>5 DEF ReturnBaseline, ReturnScenario
<1>6. CASE \E e \in Errors : Fail(e)
  <2>1. status'.kind = "EngineFailed"
    BY <1>6 DEF Fail, EngineFailed
  <2> QED BY <1>6, <2>1 DEF Fail
<1>7. CASE Cancel \/ PassDeadline \/ Done \/ UNCHANGED vars
  BY <1>7 DEF Cancel, PassDeadline, Done, vars
<1> QED
  BY <1>1, <1>2, <1>3, <1>4, <1>5, <1>6, <1>7 DEF Next, Evaluator, EngineReturns

(* The arithmetic of Shape, for the lemmas that follow.                    *)
LEMMA Positions ==
  ASSUME Shape
  PROVE  /\ Len(called) = Len(outcomes) + (IF baseline = NoValue THEN 0 ELSE 1) + Unanswered
         /\ Unanswered \in {0, 1}
         /\ pc = "step" => Unanswered = 0
         /\ pc = "calling" => Unanswered = 1
         /\ baseline = NoValue => Len(outcomes) = 0 /\ taken = 0 /\ outcomes = <<>>
         /\ baseline # NoValue => taken = Len(outcomes) + Unanswered
         /\ pc = "calling" => current = IF baseline = NoValue THEN Baseline ELSE input[taken]
BY DEF Shape, Answers, Unanswered, Ended

(* The calls made and the outcomes kept are the input's prefix.            *)
LEMMA PrefixesStep == TypeOK /\ Shape /\ Ordered /\ [Next]_vars => Ordered'
<1> SUFFICES ASSUME TypeOK, Shape, Ordered, [Next]_vars PROVE Ordered'
  OBVIOUS
<1>0. UNCHANGED control
  BY RequestConstant
<1>a. /\ called \in Seq(Calls) /\ outcomes \in Seq(Outcomes) /\ input \in Seq(Ids)
      /\ taken \in 0 .. Len(input) /\ cancelled \in BOOLEAN /\ expired \in BOOLEAN
      /\ input' = input
  BY <1>0 DEF TypeOK, control
<1>b. /\ Len(called) = Len(outcomes) + (IF baseline = NoValue THEN 0 ELSE 1) + Unanswered
      /\ Unanswered \in {0, 1}
      /\ pc = "step" => Unanswered = 0
      /\ pc = "calling" => Unanswered = 1
      /\ baseline = NoValue => Len(outcomes) = 0 /\ taken = 0 /\ outcomes = <<>>
      /\ baseline # NoValue => taken = Len(outcomes) + Unanswered
      /\ pc = "calling" => current = IF baseline = NoValue THEN Baseline ELSE input[taken]
  BY Positions
<1> USE <1>a
<1>1. CASE CallBaseline \/ CallScenario
  <2>1. PICK target \in Ids \cup {Baseline} :
          /\ Call(target)
          /\ target = IF Len(called) = 0 THEN Baseline ELSE input[Len(called)]
    <3>1. CASE CallBaseline
      BY <1>b, <3>1 DEF CallBaseline
    <3>2. CASE CallScenario
      <4>1. taken + 1 \in 1 .. Len(input) /\ Len(called) = taken + 1
        BY <1>b, <3>2 DEF CallScenario
      <4>2. input[taken + 1] \in Ids
        BY <4>1
      <4> QED BY <4>2, <3>2, <4>1 DEF CallScenario
    <3> QED BY <1>1, <3>1, <3>2
  <2>2. /\ Len(called') = Len(called) + 1 /\ called'[Len(called) + 1].target = target
        /\ \A i \in 1 .. Len(called) : called'[i] = called[i]
        /\ outcomes' = outcomes /\ baseline' = baseline
    BY <2>1, NewCall
  <2>3. called' \in Seq(Calls) /\ Len(outcomes) + (IF baseline = NoValue THEN 0 ELSE 1) <= Len(called)
    BY <1>b, <2>1, NewCall
  <2>4. \A i \in DOMAIN called' : called'[i].target = IF i = 1 THEN Baseline ELSE input[i - 1]
    <3> TAKE i \in DOMAIN called'
    <3>1. CASE i \in 1 .. Len(called)
      <4>1. called[i].target = IF i = 1 THEN Baseline ELSE input[i - 1]
        BY <3>1 DEF Ordered
      <4> QED BY <2>2, <3>1, <4>1
    <3>2. CASE i = Len(called) + 1
      BY <2>1, <2>2, <3>2
    <3> QED BY <2>2, <2>3, <3>1, <3>2
  <2>5. baseline' # NoValue => called'[1].result = baseline'
    <3>1. baseline # NoValue => 1 \in 1 .. Len(called)
      BY <2>3
    <3> QED BY <2>2, <3>1 DEF Ordered
  <2>6. \A i \in DOMAIN outcomes' :
          outcomes'[i].scenario = input[i] /\ called'[i + 1].result = outcomes'[i].signature
    <3> TAKE i \in DOMAIN outcomes'
    <3>1. i \in DOMAIN outcomes /\ outcomes'[i] = outcomes[i]
      BY <2>2
    <3>2. i + 1 \in 1 .. Len(called)
      BY <1>b, <2>3, <3>1
    <3> QED BY <2>2, <3>1, <3>2 DEF Ordered
  <2> QED BY <2>4, <2>5, <2>6 DEF Ordered
<1>2. CASE \E s \in Signatures : ReturnBaseline(s)
  <2>1. PICK s \in Signatures : ReturnBaseline(s)
    BY <1>2
  <2>2. outcomes' = <<>> /\ Len(called) = 1 /\ baseline' = s
    BY <1>b, <2>1, BaselineAssumption DEF report, ReturnBaseline
  <2>3. /\ Len(called') = 1 /\ called'[1].result = s /\ called'[1].target = called[1].target
        /\ called' \in Seq(Calls)
    BY <2>1, <2>2, AnsweredCall DEF report, ReturnBaseline
  <2>4. called'[1].target = Baseline
    BY <2>2, <2>3 DEF Ordered
  <2> QED BY <2>2, <2>3, <2>4 DEF Ordered
<1>3. CASE \E s \in Signatures : ReturnScenario(s)
  <2>1. PICK s \in Signatures : ReturnScenario(s)
    BY <1>3
  <2>2. /\ baseline # NoValue /\ baseline' = baseline
        /\ Len(called) = Len(outcomes) + 2 /\ taken = Len(outcomes) + 1
        /\ current = input[taken]
    BY <1>b, <2>1, BaselineAssumption DEF report, ReturnScenario
  <2> DEFINE outcome == [scenario |-> current, signature |-> s]
  <2>3. /\ outcome \in Outcomes /\ outcome.scenario = current /\ outcome.signature = s
        /\ outcomes' = Append(outcomes, outcome)
    BY <2>1 DEF report, ReturnScenario, Outcomes
  <2> HIDE DEF outcome
  <2>4. /\ Len(outcomes') = Len(outcomes) + 1 /\ DOMAIN outcomes' = 1 .. Len(outcomes) + 1
        /\ \A i \in 1 .. Len(outcomes) : outcomes'[i] = outcomes[i]
        /\ outcomes'[Len(outcomes) + 1] = outcome
    BY <2>3, AppendProperties
  <2>5. /\ called' \in Seq(Calls) /\ Len(called') = Len(called)
        /\ \A i \in 1 .. Len(called) - 1 : called'[i] = called[i]
        /\ called'[Len(called)].result = s
        /\ \A i \in 1 .. Len(called) : called'[i].target = called[i].target
    BY <2>1, <2>2, AnsweredCall DEF report, ReturnScenario
  <2>6. \A i \in DOMAIN called' : called'[i].target = IF i = 1 THEN Baseline ELSE input[i - 1]
    <3> TAKE i \in DOMAIN called'
    <3>1. i \in DOMAIN called /\ called'[i].target = called[i].target
      BY <2>5
    <3> QED BY <3>1 DEF Ordered
  <2>7. baseline' # NoValue => called'[1].result = baseline'
    BY <2>2, <2>5 DEF Ordered
  <2>8. \A i \in DOMAIN outcomes' :
          outcomes'[i].scenario = input[i] /\ called'[i + 1].result = outcomes'[i].signature
    <3> TAKE i \in DOMAIN outcomes'
    <3>1. CASE i = Len(outcomes) + 1
      BY <2>2, <2>3, <2>4, <2>5, <3>1
    <3>2. CASE i \in 1 .. Len(outcomes)
      <4>1. i + 1 \in 1 .. Len(called) - 1
        BY <2>2, <3>2
      <4>2. outcomes[i].scenario = input[i] /\ called[i + 1].result = outcomes[i].signature
        BY <3>2 DEF Ordered
      <4> QED BY <2>4, <2>5, <3>2, <4>1, <4>2
    <3> QED BY <2>4, <3>1, <3>2
  <2> QED BY <2>6, <2>7, <2>8 DEF Ordered
<1>4. CASE \E e \in Errors : Fail(e)
  <2>1. PICK e \in Errors : Fail(e)
    BY <1>4
  <2>2. /\ outcomes' = outcomes /\ baseline' = baseline
        /\ Len(called) = Len(outcomes) + (IF baseline = NoValue THEN 0 ELSE 1) + 1
        /\ baseline = NoValue => Len(outcomes) = 0
    BY <1>b, <2>1 DEF Fail, report
  <2>3. /\ called' \in Seq(Calls) /\ Len(called') = Len(called)
        /\ \A i \in 1 .. Len(called) - 1 : called'[i] = called[i]
        /\ \A i \in 1 .. Len(called) : called'[i].target = called[i].target
    BY <2>1, <2>2, AnsweredCall DEF Fail
  <2>4. \A i \in DOMAIN called' : called'[i].target = IF i = 1 THEN Baseline ELSE input[i - 1]
    BY <2>3 DEF Ordered
  <2>5. baseline' # NoValue => called'[1].result = baseline'
    BY <2>2, <2>3 DEF Ordered
  <2>6. \A i \in DOMAIN outcomes' :
          outcomes'[i].scenario = input[i] /\ called'[i + 1].result = outcomes'[i].signature
    <3> TAKE i \in DOMAIN outcomes'
    <3>1. baseline # NoValue /\ i \in 1 .. Len(outcomes)
      BY <2>2
    <3>2. i + 1 \in 1 .. Len(called) - 1
      BY <2>2, <3>1
    <3> QED BY <2>2, <2>3, <3>1, <3>2 DEF Ordered
  <2> QED BY <2>4, <2>5, <2>6 DEF Ordered
<1>5. CASE UNCHANGED <<called, outcomes, baseline>>
  BY <1>5 DEF Ordered
<1> QED
  BY <1>1, <1>2, <1>3, <1>4, <1>5
  DEF report, Next, Evaluator, EngineReturns, Admit, ReadClock, Checkpoint, Exhaust, Progress,
      Finish, Cancel, PassDeadline, Done, vars

(* The quota admits every candidate taken.                                 *)
LEMMA QuotaStep == TypeOK /\ Shape /\ Quota /\ [Next]_vars => Quota'
<1> SUFFICES ASSUME TypeOK, Shape, Quota, [Next]_vars PROVE Quota'
  OBVIOUS
<1>0. UNCHANGED control
  BY RequestConstant
<1>a. /\ called \in Seq(Calls) /\ outcomes \in Seq(Outcomes) /\ input \in Seq(Ids)
      /\ taken \in 0 .. Len(input) /\ cancelled \in BOOLEAN /\ expired \in BOOLEAN
      /\ input' = input /\ limit' = limit /\ limit \in Nat
  BY <1>0 DEF TypeOK, control
<1>b. /\ Len(called) = Len(outcomes) + (IF baseline = NoValue THEN 0 ELSE 1) + Unanswered
      /\ Unanswered \in {0, 1}
      /\ pc = "step" => Unanswered = 0
      /\ pc = "calling" => Unanswered = 1
      /\ baseline = NoValue => Len(outcomes) = 0 /\ taken = 0 /\ outcomes = <<>>
      /\ baseline # NoValue => taken = Len(outcomes) + Unanswered
      /\ pc = "calling" => current = IF baseline = NoValue THEN Baseline ELSE input[taken]
  BY Positions
<1> USE <1>a DEF report
<1>1. CASE Checkpoint
  <2>1. UNCHANGED <<taken, called, outcomes>>
    BY <1>1 DEF Checkpoint
  <2>2. pc' = "step" => InterruptionAt = NoValue
    BY <1>1 DEF Checkpoint
  <2>3. InterruptionAt = NoValue /\ taken # Len(input) => Len(outcomes) < limit
    BY ReasonAssumption DEF InterruptionAt, Reasons
  <2> QED BY <2>1, <2>2, <2>3 DEF Quota
<1>2. CASE CallBaseline
  <2>1. /\ taken' = taken /\ outcomes' = outcomes /\ pc' = "calling"
        /\ taken = 0 /\ pc = "step"
    BY <1>2, <1>b, NewCall DEF CallBaseline
  <2>2. input # <<>> => 0 < Len(input)
    BY EmptySeq
  <2> QED BY <2>1, <2>2 DEF Quota
<1>3. CASE CallScenario
  <2>1. taken + 1 \in 1 .. Len(input) /\ taken' = taken + 1 /\ taken = Len(outcomes)
    BY <1>b, <1>3 DEF CallScenario
  <2>2. pc' = "calling" /\ pc = "step" /\ input # <<>>
    BY <1>3, <2>1, NewCall DEF CallScenario
  <2>3. Len(outcomes) < limit
    BY <2>1, <2>2 DEF Quota
  <2> QED BY <2>1, <2>2, <2>3 DEF Quota
<1>4. CASE EngineReturns
  <2>1. taken' = taken /\ pc' # "step" /\ pc = "calling"
    BY <1>4 DEF EngineReturns, ReturnBaseline, ReturnScenario, Fail
  <2>2. Len(called) > 0
    BY <1>b, <2>1
  <2> QED BY <2>1, <2>2, EmptySeq DEF Quota
<1>5. CASE pc' # "step" /\ UNCHANGED <<taken, called, outcomes>>
  BY <1>5 DEF Quota
<1>6. CASE Cancel \/ PassDeadline \/ Done \/ UNCHANGED vars
  BY <1>6 DEF Quota, Cancel, PassDeadline, Done, vars
<1> QED
  BY <1>1, <1>2, <1>3, <1>4, <1>5, <1>6
  DEF report, Next, Evaluator, Admit, ReadClock, Exhaust, Progress, Finish

(* Only the last call can have begun after a request to stop, and the next *)
(* checkpoint sees that request.                                           *)
LEMMA RequestsStep == TypeOK /\ Shape /\ Requests /\ [Next]_vars => Requests'
<1> SUFFICES ASSUME TypeOK, Shape, Requests, [Next]_vars PROVE Requests'
  OBVIOUS
<1>0. UNCHANGED control
  BY RequestConstant
<1>a. /\ called \in Seq(Calls) /\ cancelled \in BOOLEAN /\ expired \in BOOLEAN
      /\ deadline' = deadline
  BY <1>0 DEF TypeOK, control
<1>b. Len(called) = Len(outcomes) + (IF baseline = NoValue THEN 0 ELSE 1) + Unanswered
  BY Positions
<1> USE <1>a DEF environment
<1>1. CASE CallBaseline \/ CallScenario
  <2>1. PICK target \in Ids \cup {Baseline} : Call(target)
    BY <1>1 DEF CallBaseline, CallScenario, TypeOK
  <2>2. pc = "step" /\ cancelled' = cancelled /\ expired' = expired
    BY <1>1, <2>1, NewCall DEF CallBaseline, CallScenario
  <2>3. /\ called' \in Seq(Calls) /\ Len(called') = Len(called) + 1
        /\ \A i \in 1 .. Len(called) : called'[i] = called[i]
        /\ called'[Len(called) + 1].cancelled = cancelled
        /\ called'[Len(called) + 1].expired = expired
        /\ pc' = "calling"
    BY <2>1, NewCall
  <2> QED BY <2>2, <2>3 DEF Requests, Stopped, Ended
<1>2. CASE EngineReturns
  <2>1. PICK value \in Signatures \cup Errors : Answered(value)
    BY <1>2, ReturnFrame
  <2>2. /\ pc = "calling" /\ pc' \in {"progress", "report"}
        /\ cancelled' = cancelled /\ expired' = expired
        /\ pc' = "report" => status'.kind = "EngineFailed"
    BY <1>2, ReturnFrame
  <2>3. Len(called) > 0
    BY <1>a, <2>2, Positions DEF TypeOK
  <2>4. /\ called' \in Seq(Calls) /\ Len(called') = Len(called)
        /\ \A i \in 1 .. Len(called) :
             called'[i].cancelled = called[i].cancelled /\ called'[i].expired = called[i].expired
    BY <2>1, <2>3, AnsweredCall
  <2> QED BY <2>2, <2>4 DEF Requests, Stopped, Ended
<1>3. CASE Checkpoint
  <2>1. /\ pc = "token" /\ UNCHANGED <<called, cancelled, expired, late>>
        /\ pc' \in {"step", "report"}
        /\ pc' = "step" => InterruptionAt = NoValue
        /\ pc' = "report" => status'.kind = "Interrupted"
    BY <1>3 DEF Checkpoint, Interrupted
  <2>2. InterruptionAt = NoValue => ~cancelled /\ ~(deadline /\ late)
    BY ReasonAssumption DEF InterruptionAt, Reasons
  <2> QED BY <2>1, <2>2 DEF Requests, Stopped, Ended
<1>4. CASE ReadClock
  BY <1>4 DEF ReadClock, Requests, Stopped, Ended
<1>5. CASE Admit
  BY <1>5, EmptySeq DEF Admit, Requests, Stopped, Ended, Shape
<1>6. CASE Exhaust \/ Progress \/ Finish
  BY <1>6 DEF Exhaust, Progress, Finish, Requests, Stopped, Ended, report
<1>7. CASE Cancel \/ PassDeadline \/ Done \/ UNCHANGED vars
  BY <1>7 DEF Cancel, PassDeadline, Done, vars, Requests, Stopped, Ended, report
<1> QED
  BY <1>1, <1>2, <1>3, <1>4, <1>5, <1>6, <1>7 DEF Next, Evaluator

(* A call in flight has no result yet.                                     *)
LEMMA AwaitingStep == TypeOK /\ Awaiting /\ [Next]_vars => Awaiting'
<1> SUFFICES ASSUME TypeOK, Awaiting, [Next]_vars PROVE Awaiting'
  OBVIOUS
<1>1. CASE CallBaseline \/ CallScenario
  <2>1. PICK target \in Ids \cup {Baseline} : Call(target)
    BY <1>1 DEF CallBaseline, CallScenario, TypeOK
  <2> QED BY <2>1, NewCall DEF TypeOK, Awaiting
<1>2. CASE EngineReturns
  BY <1>2 DEF EngineReturns, ReturnBaseline, ReturnScenario, Fail, Awaiting
<1>3. CASE pc' # "calling"
  BY <1>3 DEF Awaiting
<1>4. CASE UNCHANGED <<pc, called>>
  BY <1>4 DEF Awaiting
<1> QED
  BY <1>1, <1>2, <1>3, <1>4
  DEF Next, Evaluator, Admit, ReadClock, Checkpoint, Exhaust, Progress, Finish, Cancel,
      PassDeadline, Done, vars

(* The cause of an interruption is still there when the report is read.    *)
LEMMA JustifiedStep == TypeOK /\ Shape /\ Justified /\ [Next]_vars => Justified'
<1> SUFFICES ASSUME TypeOK, Shape, Justified, [Next]_vars PROVE Justified'
  OBVIOUS
<1>0. UNCHANGED control
  BY RequestConstant
<1>a. /\ cancelled \in BOOLEAN /\ expired \in BOOLEAN /\ late \in BOOLEAN
      /\ deadline \in BOOLEAN /\ deadline' = deadline /\ limit' = limit /\ input' = input
      /\ input \in Seq(Ids) /\ taken \in 0 .. Len(input) /\ limit \in Nat
      /\ outcomes \in Seq(Outcomes)
      /\ ~Ended => status.kind = "Completed"
  BY <1>0 DEF TypeOK, Shape, control
<1> USE <1>a DEF report, environment
<1>1. CASE Checkpoint
  <2>1. /\ UNCHANGED <<cancelled, expired, late, taken, outcomes>>
        /\ \/ status' = status
           \/ /\ InterruptionAt # NoValue
              /\ status'.kind = "Interrupted" /\ status'.reason = InterruptionAt
    BY <1>1 DEF Checkpoint, Interrupted
  <2>2. /\ InterruptionAt = "Cancelled" => cancelled
        /\ InterruptionAt = "DeadlineReached" => deadline /\ late
        /\ InterruptionAt = "EvaluationLimitReached" =>
             ~(deadline /\ late) /\ taken # Len(input) /\ Len(outcomes) >= limit
        /\ InterruptionAt \in Reasons \cup {NoValue}
    BY ReasonAssumption DEF InterruptionAt, Reasons
  <2> QED BY <2>1, <2>2 DEF Justified
<1>2. CASE ReadClock
  BY <1>2 DEF ReadClock, Justified, Ended
<1>3. CASE Admit
  <2>1. UNCHANGED <<cancelled, expired, late>> /\ status'.kind # "Interrupted"
    BY <1>3 DEF Admit, DuplicateScenarioId, Ended
  <2> QED BY <2>1 DEF Justified
<1>4. CASE CallBaseline \/ CallScenario
  <2>1. UNCHANGED <<cancelled, expired, late, status>> /\ pc = "step"
    BY <1>4 DEF CallBaseline, CallScenario, Call
  <2> QED BY <2>1 DEF Justified, Ended
<1>5. CASE EngineReturns
  <2>1. UNCHANGED <<cancelled, expired, late>> /\ status'.kind \in {"Completed", "EngineFailed"}
    BY <1>5, ReturnFrame DEF Ended
  <2> QED BY <2>1 DEF Justified
<1>6. CASE Exhaust \/ Progress \/ Finish
  BY <1>6 DEF Exhaust, Progress, Finish, Justified
<1>7. CASE Cancel \/ PassDeadline \/ Done \/ UNCHANGED vars
  BY <1>7 DEF Cancel, PassDeadline, Done, vars, Justified
<1> QED
  BY <1>1, <1>2, <1>3, <1>4, <1>5, <1>6, <1>7 DEF Next, Evaluator

(* A progress callback that returns cancelled is the last thing before the *)
(* verdict.                                                                *)
LEMMA NotifiedStep == TypeOK /\ Shape /\ Notified /\ [Next]_vars => Notified'
<1> SUFFICES ASSUME TypeOK, Shape, Notified, [Next]_vars PROVE Notified'
  OBVIOUS
<1>a. /\ notices \in Seq(Notices) /\ cancelled \in BOOLEAN /\ outcomes \in Seq(Outcomes)
      /\ called \in Seq(Calls)
  BY DEF TypeOK
<1>b. /\ Len(called) = Answers + Unanswered /\ Answers \in Nat
      /\ pc \in {"clock", "token"} => Unanswered = 0
      /\ pc = "calling" => Unanswered = 1
  BY <1>a DEF Shape, Answers, Unanswered, Ended
<1> USE <1>a DEF environment, report
<1>1. CASE CallBaseline \/ CallScenario
  <2>1. pc = "step" /\ pc' = "calling"
        /\ UNCHANGED <<notices, outcomes, baseline>>
    BY <1>1 DEF CallBaseline, CallScenario, Call
  <2> QED BY <2>1 DEF Notified, Obeyed, Answers
<1>2. CASE \E s \in Signatures : ReturnBaseline(s) \/ ReturnScenario(s)
  <2>1. pc = "calling" /\ pc' = "progress" /\ UNCHANGED notices
    BY <1>2 DEF ReturnBaseline, ReturnScenario
  <2>2. Answers' = Answers + 1
    <3>1. CASE \E s \in Signatures : ReturnBaseline(s)
      <4>1. current = Baseline /\ baseline' # NoValue /\ UNCHANGED outcomes
        BY <3>1, NoValueAssumption DEF ReturnBaseline
      <4>2. baseline # NoValue => taken \in 1 .. Len(input) /\ current = input[taken]
        BY <2>1, Positions DEF TypeOK
      <4>3. baseline = NoValue
        BY <4>1, <4>2, BaselineAssumption DEF TypeOK
      <4> QED BY <4>1, <4>3 DEF Answers
    <3>2. CASE \E s \in Signatures : ReturnScenario(s)
      <4>1. UNCHANGED baseline /\ Len(outcomes') = Len(outcomes) + 1
        BY <3>2 DEF ReturnScenario, Outcomes
      <4> QED BY <4>1 DEF Answers
    <3> QED BY <1>2, <3>1, <3>2
  <2> QED BY <1>b, <2>1, <2>2 DEF Notified, Obeyed
<1>3. CASE \E e \in Errors : Fail(e)
  <2>1. pc = "calling" /\ pc' = "report" /\ UNCHANGED <<notices, outcomes, baseline>>
    BY <1>3 DEF Fail
  <2> QED BY <2>1 DEF Notified, Obeyed, Answers
<1>4. CASE Progress
  <2>1. /\ pc = "progress" /\ pc' = "clock"
        /\ UNCHANGED <<outcomes, baseline, called, cancelled, status>>
    BY <1>4 DEF Progress
  <2>2. PICK notice \in Notices : notices' = Append(notices, notice) /\ notice.cancelled = cancelled
    <3> DEFINE notice == [event |-> IF outcomes = <<>> THEN "BaselineCompleted" ELSE "ScenarioCompleted",
                          completed |-> Len(outcomes), cancelled |-> cancelled]
    <3>1. notice \in Notices /\ notice.cancelled = cancelled
      BY DEF Notices
    <3>2. notices' = Append(notices, notice)
      BY <1>4 DEF Progress
    <3> HIDE DEF notice
    <3> QED BY <3>1, <3>2
  <2>3. /\ Len(notices') = Len(notices) + 1 /\ DOMAIN notices' = 1 .. Len(notices) + 1
        /\ \A i \in 1 .. Len(notices) : notices'[i] = notices[i]
        /\ notices'[Len(notices) + 1] = notice
    BY <2>2, AppendProperties
  <2>4. Len(notices) + 1 = Answers /\ Len(called) = Answers /\ Answers' = Answers
    BY <1>b, <2>1 DEF Notified, Answers, Shape, Unanswered, Ended
  <2>5. \A i \in 1 .. Len(notices) : ~Obeyed(i)
    BY <2>1 DEF Notified
  <2> QED BY <2>1, <2>2, <2>3, <2>4, <2>5 DEF Notified, Obeyed, Ended
<1>5. CASE Finish
  <2>1. /\ pc = "report" /\ pc' = "done"
        /\ UNCHANGED <<outcomes, baseline, called, cancelled, status>>
    BY <1>5 DEF Finish
  <2>2. StateOf(status) \notin {"BaselineCompleted", "ScenarioCompleted"}
    BY DEF StateOf, TypeOK, Statuses, Completed
  <2>3. PICK notice \in Notices :
          /\ notices' = Append(notices, notice)
          /\ notice.event \notin {"BaselineCompleted", "ScenarioCompleted"}
    <3> DEFINE notice == [event |-> StateOf(status), completed |-> Len(outcomes),
                          cancelled |-> cancelled]
    <3>1. StateOf(status) \in {"Completed", "Interrupted", "Failed", "Rejected"}
      BY DEF StateOf, TypeOK, Statuses, Completed
    <3>2. notice \in Notices /\ notice.event = StateOf(status)
      BY <3>1 DEF Notices
    <3>3. notices' = Append(notices, notice)
      BY <1>5 DEF Finish
    <3> HIDE DEF notice
    <3> QED BY <2>2, <3>2, <3>3
  <2>4. /\ DOMAIN notices' = 1 .. Len(notices) + 1
        /\ \A i \in 1 .. Len(notices) : notices'[i] = notices[i]
        /\ notices'[Len(notices) + 1] = notice
    BY <2>3, AppendProperties
  <2> QED BY <2>1, <2>3, <2>4 DEF Notified, Obeyed, Ended, Answers
<1>6. CASE Checkpoint
  <2>1. /\ pc = "token" /\ UNCHANGED <<outcomes, baseline, called, notices, cancelled>>
        /\ pc' \in {"step", "report"}
        /\ pc' = "step" => InterruptionAt = NoValue
        /\ pc' = "report" => InterruptionAt # NoValue /\ status' = Interrupted(InterruptionAt)
    BY <1>6 DEF Checkpoint
  <2>2. cancelled => InterruptionAt = "Cancelled" /\ InterruptionAt # NoValue
    BY ReasonAssumption DEF InterruptionAt, Reasons
  <2> QED BY <2>1, <2>2 DEF Notified, Obeyed, Ended, Answers
<1>7. CASE Admit \/ ReadClock \/ Exhaust
  BY <1>7 DEF Admit, ReadClock, Exhaust, Notified, Obeyed, Ended, Answers, Shape
<1>8. CASE Cancel \/ PassDeadline \/ Done \/ UNCHANGED vars
  BY <1>8 DEF Cancel, PassDeadline, Done, vars, Notified, Obeyed, Ended, Answers
<1> QED
  BY <1>1, <1>2, <1>3, <1>4, <1>5, <1>6, <1>7, <1>8 DEF Next, Evaluator, EngineReturns

(* The inductive invariant holds of every behaviour.                       *)
THEOREM Invariance == Spec => []Inv
<1>1. Init => Inv
  BY InvInit
<1>2. Inv /\ [Next]_vars => Inv'
  BY TypeStep, ShapeStep, AdmittedStep, PrefixesStep, AwaitingStep, QuotaStep, RequestsStep,
     JustifiedStep, NotifiedStep
  DEF Inv
<1> QED BY <1>1, <1>2, PTL DEF Spec

----------------------------------------------------------------------------
(* The theorems.  Each property follows from the invariant.                *)

(* However cancellations, the clock and engine errors fall, the evaluator  *)
(* never calls more candidates than the quota allows, and with a zero      *)
(* quota a non-empty batch does not even call its baseline.                *)
THEOREM QuotaHolds == Spec => []QuotaRespected
<1>1. Inv => QuotaRespected
  <2> SUFFICES ASSUME Inv PROVE QuotaRespected
    OBVIOUS
  <2>a. /\ called \in Seq(Calls) /\ outcomes \in Seq(Outcomes) /\ taken \in Nat /\ limit \in Nat
        /\ input \in Seq(Ids) /\ taken <= Len(input)
    BY DEF Inv, TypeOK
  <2>1. Len(called) <= taken + 1
    BY <2>a, Positions DEF Inv
  <2>2. \A i \in DOMAIN called : i # 1 => called[i].target # Baseline
    <3> TAKE i \in DOMAIN called
    <3>1. i # 1 => i - 1 \in 1 .. Len(input)
      BY <2>a, <2>1
    <3> QED BY <2>a, <3>1, BaselineAssumption DEF Inv, Ordered
  <2>3. { i \in DOMAIN called : called[i].target # Baseline } = 2 .. Len(called)
    BY <2>a, <2>2 DEF Inv, Ordered
  <2>4. Cardinality(2 .. Len(called)) <= taken
    <3>1. Len(called) \in Int
      BY <2>a, LenProperties
    <3>2. Cardinality(2 .. Len(called)) =
            IF 2 > Len(called) THEN 0 ELSE Len(called) - 2 + 1
      BY <3>1, FS_Interval
    <3> QED BY <2>a, <2>1, <3>1, <3>2
  <2>5. Cardinality(2 .. Len(called)) \in Nat
    BY FS_Interval, FS_CardinalityType, LenProperties, <2>a
  <2>6. /\ taken <= limit
        /\ limit = 0 /\ input # <<>> => called = <<>>
    BY DEF Inv, Quota
  <2>7. Cardinality(2 .. Len(called)) <= limit
    BY <2>a, <2>4, <2>5, <2>6
  <2> QED BY <2>3, <2>6, <2>7 DEF QuotaRespected
<1> QED BY <1>1, Invariance, PTL

(* A request to stop that comes too late for a checkpoint costs at most    *)
(* the one call that checkpoint admitted.                                  *)
THEOREM StopIsHonoured == Spec => []StopHonoured
<1>1. Inv => StopHonoured
  BY DEF Inv, Requests, Stopped, StopHonoured
<1> QED BY <1>1, Invariance, PTL

(* A progress callback that returns with cancellation requested is always  *)
(* obeyed, and the report says Cancelled.                                  *)
THEOREM CallbackIsObeyed == Spec => []CallbackCancellationWins
<1>1. Inv => CallbackCancellationWins
  BY DEF Inv, Notified, Obeyed, Ended, CallbackCancellationWins
<1> QED BY <1>1, Invariance, PTL

(* Every call the report has accounted for returned a signature.           *)
LEMMA AnsweredResults ==
  ASSUME Inv
  PROVE  \A i \in DOMAIN called : i <= Answers => called[i].result \in Signatures
<1>a. /\ called \in Seq(Calls) /\ outcomes \in Seq(Outcomes)
      /\ baseline \in Signatures \cup {NoValue}
      /\ baseline = NoValue => Len(outcomes) = 0
      /\ baseline # NoValue => called[1].result = baseline
      /\ \A i \in DOMAIN outcomes : called[i + 1].result = outcomes[i].signature
  BY Positions DEF Inv, TypeOK, Ordered
<1> TAKE i \in DOMAIN called
<1>1. CASE i <= Answers /\ i = 1
  BY <1>a, <1>1 DEF Answers
<1>2. CASE i <= Answers /\ i # 1
  <2>1. i - 1 \in DOMAIN outcomes
    BY <1>a, <1>2 DEF Answers
  <2>2. called[i].result = outcomes[i - 1].signature
    BY <1>a, <2>1
  <2>3. outcomes[i - 1] \in Outcomes
    BY <1>a, <2>1
  <2> QED BY <2>2, <2>3 DEF Outcomes
<1> QED BY <1>1, <1>2

(* The pending candidates are what the iterator has not yielded: the       *)
(* successes, the failed or in-flight candidate and the pending ones are   *)
(* the input, in its order, at every step.                                 *)
THEOREM NothingIsLost == Spec => []Accounting
<1>1. Inv => Accounting
  <2> SUFFICES ASSUME Inv PROVE Accounting
    OBVIOUS
  <2> DEFINE kept == [i \in DOMAIN outcomes |-> outcomes[i].scenario]
             yielded == kept \o FailedCandidate \o InFlight
  <2>a. /\ input \in Seq(Ids) /\ outcomes \in Seq(Outcomes) /\ taken \in 0 .. Len(input)
        /\ Len(outcomes) \in Nat /\ Len(outcomes) <= taken
    BY Positions DEF Inv, TypeOK
  <2>1. \A i \in 1 .. Len(outcomes) : outcomes[i].scenario = input[i] /\ input[i] \in Ids
    BY <2>a DEF Inv, Ordered
  <2>2. kept \in Seq(Ids) /\ Len(kept) = Len(outcomes)
    BY <2>a, <2>1, IsASeq
  <2>3. \A i \in 1 .. Len(outcomes) : kept[i] = input[i]
    BY <2>a, <2>1
  <2> HIDE DEF kept
  <2>4. \/ FailedCandidate = <<>> /\ InFlight = <<>> /\ taken = Len(outcomes)
        \/ /\ taken = Len(outcomes) + 1 /\ taken \in 1 .. Len(input)
           /\ \/ FailedCandidate = <<input[taken]>> /\ InFlight = <<>>
              \/ FailedCandidate = <<>> /\ InFlight = <<input[taken]>>
    <3>1. CASE baseline = NoValue
      <4>1. taken = 0 /\ Len(outcomes) = 0 /\ current \notin Ids
        BY <3>1, Positions, BaselineAssumption, NoValueAssumption DEF Inv, Shape
      <4>2. status.kind = "EngineFailed" => status.scenario = NoValue
        BY <3>1 DEF Inv, Shape
      <4> QED BY <4>1, <4>2 DEF FailedCandidate, InFlight
    <3>2. CASE baseline # NoValue /\ pc = "calling"
      <4>1. /\ taken = Len(outcomes) + 1 /\ current = input[taken]
            /\ status.kind # "EngineFailed"
        BY <3>2, Positions DEF Inv, Shape, Ended
      <4>2. taken \in 1 .. Len(input) /\ current \in Ids
        BY <2>a, <4>1
      <4> QED BY <4>1, <4>2 DEF FailedCandidate, InFlight
    <3>3. CASE baseline # NoValue /\ pc # "calling"
      <4>1. /\ current \notin Ids /\ taken = Len(outcomes) + Unanswered
            /\ status.kind = "EngineFailed" => status.scenario = input[taken]
        BY <3>3, Positions, NoValueAssumption DEF Inv, Shape
      <4>2. CASE status.kind = "EngineFailed"
        <5>1. taken = Len(outcomes) + 1
          BY <4>1, <4>2 DEF Unanswered
        <5>2. taken \in 1 .. Len(input) /\ input[taken] \in Ids
          BY <2>a, <5>1
        <5> QED BY <4>1, <4>2, <5>1, <5>2, NoValueAssumption DEF FailedCandidate, InFlight
      <4>3. CASE status.kind # "EngineFailed"
        BY <2>a, <3>3, <4>1, <4>3 DEF Unanswered, FailedCandidate, InFlight
      <4> QED BY <4>2, <4>3
    <3> QED BY <3>1, <3>2, <3>3
  <2>5. /\ yielded \in Seq(Ids) /\ Len(yielded) = taken
        /\ \A i \in 1 .. taken : yielded[i] = input[i]
    <3>1. CASE FailedCandidate = <<>> /\ InFlight = <<>> /\ taken = Len(outcomes)
      <4>1. yielded = kept
        BY <2>2, <3>1, ConcatEmptySeq
      <4> QED BY <2>2, <2>3, <3>1, <4>1
    <3>2. CASE /\ taken = Len(outcomes) + 1 /\ taken \in 1 .. Len(input)
               /\ \/ FailedCandidate = <<input[taken]>> /\ InFlight = <<>>
                  \/ FailedCandidate = <<>> /\ InFlight = <<input[taken]>>
      <4> DEFINE one == <<input[taken]>>
      <4>1. one \in Seq(Ids) /\ Len(one) = 1 /\ one[1] = input[taken]
        BY <2>a, <3>2
      <4> HIDE DEF one
      <4>2. yielded = kept \o one
        <5>1. kept \o one \in Seq(Ids)
          BY <2>2, <4>1, ConcatProperties
        <5>2. CASE FailedCandidate = one /\ InFlight = <<>>
          BY <5>1, <5>2, ConcatEmptySeq
        <5>3. CASE FailedCandidate = <<>> /\ InFlight = one
          BY <2>2, <5>3, ConcatEmptySeq
        <5> QED BY <3>2, <5>2, <5>3 DEF one
      <4>3. /\ yielded \in Seq(Ids) /\ Len(yielded) = Len(kept) + 1
            /\ \A i \in 1 .. Len(kept) + 1 :
                 yielded[i] = IF i <= Len(kept) THEN kept[i] ELSE one[i - Len(kept)]
        <5> HIDE DEF yielded
        <5>1. kept \o one \in Seq(Ids) /\ Len(kept \o one) = Len(kept) + Len(one)
          BY <2>2, <4>1, ConcatProperties
        <5>2. \A i \in 1 .. Len(kept) + Len(one) :
                (kept \o one)[i] = IF i <= Len(kept) THEN kept[i] ELSE one[i - Len(kept)]
          BY <2>2, <4>1, ConcatProperties
        <5> QED BY <4>1, <4>2, <5>1, <5>2
      <4> HIDE DEF yielded
      <4>4. \A i \in 1 .. taken : yielded[i] = input[i]
        <5> TAKE i \in 1 .. taken
        <5>1. CASE i \in 1 .. Len(outcomes)
          BY <2>2, <2>3, <3>2, <4>3, <5>1
        <5>2. CASE i = Len(outcomes) + 1
          BY <2>2, <2>a, <3>2, <4>1, <4>3, <5>2
        <5> QED BY <2>a, <3>2, <5>1, <5>2
      <4> QED BY <2>2, <3>2, <4>3, <4>4
    <3> QED BY <2>4, <3>1, <3>2
  <2> HIDE DEF yielded
  <2>6. yielded = SubSeq(input, 1, taken)
    BY <2>a, <2>5, SubSeqProperties, SeqEqual
  <2>7. SubSeq(input, 1, taken) \o SubSeq(input, taken + 1, Len(input)) = input
    <3>1. /\ 1 \in 1 .. Len(input) + 1 /\ taken \in 1 - 1 .. Len(input)
          /\ Len(input) \in taken .. Len(input)
      BY <2>a, LenProperties
    <3>2. SubSeq(input, 1, taken) \o SubSeq(input, taken + 1, Len(input))
            = SubSeq(input, 1, Len(input))
      BY <2>a, <3>1, ConcatAdjacentSubSeq
    <3> QED BY <2>a, <3>2, SubSeqFull
  <2> QED BY <2>6, <2>7 DEF Accounting, Pending, yielded, kept
<1> QED BY <1>1, Invariance, PTL

(* Each outcome is paired with what the engine returned for that scenario, *)
(* in call order, and no call is missing from a final report.              *)
THEOREM ReportIsTrue == Spec => []ReportMatchesCalls
<1>1. Inv => ReportMatchesCalls
  <2> SUFFICES ASSUME Inv PROVE ReportMatchesCalls
    OBVIOUS
  <2>a. /\ called \in Seq(Calls) /\ outcomes \in Seq(Outcomes) /\ input \in Seq(Ids)
        /\ Len(called) = Len(outcomes) + (IF baseline = NoValue THEN 0 ELSE 1) + Unanswered
        /\ Unanswered \in {0, 1}
        /\ baseline = NoValue => Len(outcomes) = 0
    BY Positions DEF Inv, TypeOK
  <2>1. baseline # NoValue => called[1].target = Baseline /\ called[1].result = baseline
    <3>1. baseline # NoValue => 1 \in DOMAIN called
      BY <2>a
    <3> QED BY <3>1 DEF Inv, Ordered
  <2>2. \A i \in DOMAIN outcomes : /\ called[i + 1].target = outcomes[i].scenario
                                   /\ called[i + 1].result = outcomes[i].signature
    <3> TAKE i \in DOMAIN outcomes
    <3>1. i + 1 \in DOMAIN called /\ i + 1 # 1 /\ (i + 1) - 1 = i
      BY <2>a
    <3>2. called[i + 1].target = input[(i + 1) - 1]
      BY <3>1 DEF Inv, Ordered
    <3> QED BY <3>1, <3>2 DEF Inv, Ordered
  <2>3. pc = "done" => Unanswered = IF status.kind = "EngineFailed" THEN 1 ELSE 0
    BY DEF Unanswered
  <2> QED BY <2>a, <2>1, <2>2, <2>3 DEF ReportMatchesCalls
<1> QED BY <1>1, Invariance, PTL

(* An interruption has its cause, respects the precedence of the controls, *)
(* and follows no failed call.                                             *)
THEOREM InterruptionIsJustified == Spec => []InterruptionJustified
<1>1. Inv => InterruptionJustified
  <2> SUFFICES ASSUME Inv, status.kind = "Interrupted" PROVE InterruptionJustified
    BY DEF InterruptionJustified
  <2>a. /\ called \in Seq(Calls) /\ outcomes \in Seq(Outcomes) /\ input \in Seq(Ids)
        /\ taken \in 0 .. Len(input) /\ limit \in Nat /\ taken <= limit
    BY DEF Inv, TypeOK, Quota
  <2>1. Unanswered = 0 /\ Len(called) = Answers
    <3>1. pc # "calling"
      BY DEF Inv, Shape, Ended
    <3>2. Unanswered = 0
      BY <3>1 DEF Unanswered
    <3>3. Len(called) = Answers + Unanswered /\ Answers \in Nat
      BY <2>a DEF Inv, Shape, Answers
    <3> QED BY <3>2, <3>3
  <2>2. \A i \in DOMAIN called : called[i].result \in Signatures
    BY <2>a, <2>1, AnsweredResults
  <2>3. Len(outcomes) <= limit
    BY <2>a, <2>1, Positions DEF Inv
  <2>4. taken < Len(input) => Pending # <<>>
    <3>1. \A i \in taken + 1 .. Len(input) : input[i] \in Ids
      BY <2>a
    <3>2. taken < Len(input) => Len(Pending) > 0
      BY <2>a, <3>1, SubSeqProperties DEF Pending
    <3> QED BY <3>2
  <2> QED BY <2>a, <2>2, <2>3, <2>4 DEF Inv, Justified, InterruptionJustified
<1> QED BY <1>1, Invariance, PTL

(* The report accounts for every candidate and every call, within the      *)
(* quota, at every step.                                                   *)
THEOREM ReportIsAlwaysFaithful == Spec => []ReportIsFaithful
<1>1. Accounting /\ ReportMatchesCalls /\ QuotaRespected => ReportIsFaithful
  BY DEF ReportIsFaithful
<1> QED BY <1>1, NothingIsLost, ReportIsTrue, QuotaHolds, PTL

(* A stop is obeyed at the next checkpoint, at once when a callback asked  *)
(* for it, and every interruption has the cause the report names.          *)
THEOREM StopsAreAlwaysObeyed == Spec => []StopsAreObeyed
<1>1. StopHonoured /\ CallbackCancellationWins /\ InterruptionJustified => StopsAreObeyed
  BY DEF StopsAreObeyed
<1> QED BY <1>1, StopIsHonoured, CallbackIsObeyed, InterruptionIsJustified, PTL

(* A rankable batch is the whole input, free of repetitions and within the *)
(* quota, and no stop had been seen before its last call.                  *)
THEOREM RankableBatchIsComplete == Spec => []RankableIsComplete
<1>1. Inv => RankableIsComplete
  <2> SUFFICES ASSUME Inv, CompletedBatch # NoValue
               PROVE  /\ [i \in DOMAIN outcomes |-> outcomes[i].scenario] = input
                      /\ ~HasDuplicate
                      /\ Len(input) <= limit
                      /\ \A i \in DOMAIN called :
                           ~called[i].cancelled /\ called[i].result \in Signatures
    BY DEF RankableIsComplete
  <2>a. /\ called \in Seq(Calls) /\ outcomes \in Seq(Outcomes) /\ input \in Seq(Ids)
        /\ taken \in 0 .. Len(input) /\ limit \in Nat /\ taken <= limit
    BY DEF Inv, TypeOK, Quota
  <2>b. pc = "done" /\ status.kind = "Completed" /\ baseline # NoValue
    BY DEF CompletedBatch, Completed
  <2>1. Unanswered = 0 /\ Len(called) = Answers
    BY <2>a, <2>b DEF Inv, Shape, Unanswered, Answers
  <2>2. taken = Len(input) /\ Len(outcomes) = Len(input)
    BY <2>a, <2>b, <2>1, Positions DEF Inv, Shape, Ended
  <2>3. [i \in DOMAIN outcomes |-> outcomes[i].scenario] = input
    <3>1. \A i \in DOMAIN outcomes : outcomes[i].scenario = input[i]
      BY DEF Inv, Ordered
    <3>2. DOMAIN outcomes = DOMAIN input
      BY <2>a, <2>2
    <3>3. input = [i \in DOMAIN input |-> input[i]]
      BY <2>a
    <3> QED BY <3>1, <3>2, <3>3
  <2>4. ~HasDuplicate
    BY <2>b DEF Inv, Admitted
  <2>5. \A i \in DOMAIN called : ~called[i].cancelled
    BY <2>b DEF Inv, Requests, Stopped, Ended
  <2>6. \A i \in DOMAIN called : called[i].result \in Signatures
    BY <2>a, <2>1, AnsweredResults
  <2> QED BY <2>a, <2>2, <2>3, <2>4, <2>5, <2>6
<1> QED BY <1>1, Invariance, PTL

(* Once a call has failed the report is final and says so.                 *)
THEOREM FailureIsFinal == Spec => FailureNotMasked
<1> DEFINE Masking == (\E i \in DOMAIN called : called[i].result \in Errors) =>
                        status.kind = "EngineFailed" /\ UNCHANGED <<report, called>>
<1>1. ASSUME Inv, [Next]_vars, NEW j \in DOMAIN called, called[j].result \in Errors
      PROVE  status.kind = "EngineFailed" /\ UNCHANGED <<report, called>>
  <2>a. called \in Seq(Calls) /\ outcomes \in Seq(Outcomes)
    BY <1>1 DEF Inv, TypeOK
  <2>1. ~(j <= Answers)
    BY <1>1, AnsweredResults, ResultAssumption
  <2>2. j = Len(called) /\ Unanswered = 1
    BY <1>1, <2>a, <2>1, Positions DEF Inv, Answers
  <2>3. pc # "calling"
    BY <1>1, <2>2, NoValueAssumption DEF Inv, Awaiting
  <2>4. status.kind = "EngineFailed" /\ Ended
    BY <1>1, <2>2, <2>3 DEF Inv, Shape, Unanswered
  <2>5. UNCHANGED <<report, called>>
    BY <1>1, <2>4
    DEF Ended, Next, Evaluator, EngineReturns, vars, report, Admit, ReadClock, Checkpoint,
        CallBaseline, CallScenario, Exhaust, ReturnBaseline, ReturnScenario, Fail, Progress,
        Finish, Cancel, PassDeadline, Done
  <2> QED BY <2>4, <2>5
<1>2. Inv /\ [Next]_vars => [Masking]_vars
  BY <1>1
<1> QED BY <1>2, Invariance, PTL DEF Spec, FailureNotMasked

----------------------------------------------------------------------------
(* Refinement.  Under the mapping of ControlledEvaluation, a call begun is *)
(* an Issue, a return is an Answer or a Fail, a verdict is reached when    *)
(* the report is final, and everything else stutters.                      *)

verdict == IF Ended THEN StateOf(status) ELSE "open"

(* The verdict of each kind of status.                                     *)
LEMMA States ==
  ASSUME NEW s
  PROVE  /\ s.kind = "Completed" => StateOf(s) = "Completed"
         /\ s.kind = "Interrupted" => StateOf(s) = "Interrupted"
         /\ s.kind = "EngineFailed" => StateOf(s) = "Failed"
         /\ s.kind = "DuplicateScenarioId" => StateOf(s) = "Rejected"
BY DEF StateOf

(* Initial states of the evaluator map to those of the contract.           *)
LEMMA ContractInit == Init => Contract!Init
<1> SUFFICES ASSUME Init PROVE Contract!Init
  OBVIOUS
<1>1. Len(input) \in Nat /\ limit \in Nat
  BY InputsAssumption, LimitsAssumption DEF Init
<1>2. /\ Len(called) = 0 /\ pc \notin {"report", "done"}
      /\ Len(outcomes) + (IF baseline # NoValue THEN 1 ELSE 0) = 0
  BY DEF Init
<1> QED BY <1>1, <1>2 DEF Contract!Init, HasDuplicate, RepeatAt

(* Every step of the evaluator is a step of the contract, or a stutter.    *)
LEMMA ContractStep == Inv /\ [Next]_vars => [Contract!Next]_(Contract!contract)
<1> SUFFICES ASSUME Inv, [Next]_vars PROVE [Contract!Next]_(Contract!contract)
  OBVIOUS
<1> DEFINE answered == Len(outcomes) + (IF baseline # NoValue THEN 1 ELSE 0)
           Quiet == UNCHANGED <<Len(called), answered, verdict>>
<1>0. input' = input /\ limit' = limit /\ (HasDuplicate' <=> HasDuplicate)
  BY RequestConstant DEF control
<1>a. /\ called \in Seq(Calls) /\ outcomes \in Seq(Outcomes) /\ input \in Seq(Ids)
      /\ taken \in 0 .. Len(input) /\ limit \in Nat /\ answered \in Nat
      /\ Len(called) = answered + Unanswered
      /\ answered = Answers
  BY Positions DEF Inv, TypeOK, Answers
<1>1. ASSUME Quiet PROVE UNCHANGED Contract!contract
  BY <1>0, <1>1 DEF Contract!contract, Contract!request, verdict, Ended
<1>2. CASE ReadClock \/ Progress \/ Cancel \/ PassDeadline \/ Done \/ UNCHANGED vars
  <2>1. Quiet
    BY <1>2 DEF ReadClock, Progress, Cancel, PassDeadline, Done, vars, report, verdict, Ended
  <2> QED BY <1>1, <2>1
<1>3. CASE Finish
  <2>1. Quiet
    BY <1>3 DEF Finish, report, verdict, Ended
  <2> QED BY <1>1, <2>1
<1>4. CASE Admit
  <2>1. CASE HasDuplicate
    <3>1. /\ pc = "admit" /\ pc' = "report" /\ UNCHANGED <<called, outcomes, baseline>>
          /\ status'.kind = "DuplicateScenarioId"
      BY <1>4, <2>1 DEF Admit, DuplicateScenarioId
    <3>2. verdict = "open" /\ verdict' = "Rejected"
      BY <3>1, States DEF verdict, Ended
    <3> QED
      BY <1>0, <2>1, <3>1, <3>2
      DEF verdict, Ended, Contract!Next, Contract!Reject, Contract!Open, Contract!request
  <2>2. CASE ~HasDuplicate
    <3>1. Quiet
      BY <1>4, <2>2 DEF Admit, verdict, Ended
    <3> QED BY <1>1, <3>1
  <2> QED BY <2>1, <2>2
<1>5. CASE Checkpoint
  <2>1. CASE pc' = "report"
    <3>1. /\ pc = "token" /\ UNCHANGED <<called, outcomes, baseline>>
          /\ status'.kind = "Interrupted"
      BY <1>5, <2>1 DEF Checkpoint, Interrupted
    <3>2. verdict = "open" /\ verdict' = "Interrupted"
      BY <2>1, <3>1, States DEF verdict, Ended
    <3>3. Unanswered = 0 /\ status.kind = "Completed"
      BY <3>1 DEF Unanswered, Ended, Inv, Shape
    <3>4. ~HasDuplicate
      BY <3>1, <3>3 DEF Inv, Admitted
    <3>5. Len(called) = answered
      BY <1>a, <3>3
    <3> QED
      BY <1>0, <3>1, <3>2, <3>4, <3>5
      DEF verdict, Ended, Contract!Next, Contract!Interrupt, Contract!Open, Contract!request
  <2>2. CASE pc' # "report"
    <3>1. Quiet
      BY <1>5, <2>2 DEF Checkpoint, verdict, Ended
    <3> QED BY <1>1, <3>1
  <2> QED BY <2>1, <2>2
<1>6. CASE CallBaseline \/ CallScenario
  <2>1. PICK target \in Ids \cup {Baseline} : Call(target)
    BY <1>6 DEF CallBaseline, CallScenario, Inv, TypeOK
  <2>2. /\ pc = "step" /\ pc' = "calling" /\ Len(called') = Len(called) + 1
        /\ UNCHANGED <<outcomes, baseline, status>>
    BY <1>6, <2>1, NewCall DEF CallBaseline, CallScenario, Inv, TypeOK
  <2>3. Unanswered = 0 /\ status.kind = "Completed"
    BY <2>2, Positions DEF Ended, Inv, Shape
  <2>4. ~HasDuplicate
    BY <2>2, <2>3 DEF Inv, Admitted
  <2>5. Len(called) = answered
    BY <1>a, <2>3
  <2>6. answered <= Len(input) /\ answered <= limit /\ (Len(input) > 0 => limit > 0)
    <3>1. CASE CallBaseline
      BY <1>a, <2>2, <3>1, Positions DEF CallBaseline, Inv, Quota
    <3>2. CASE CallScenario
      BY <1>a, <2>2, <2>3, <3>2, Positions DEF CallScenario, Inv, Quota
    <3> QED BY <1>6, <3>1, <3>2
  <2>7. verdict = "open" /\ verdict' = "open"
    BY <2>2 DEF verdict, Ended
  <2> QED
    BY <1>0, <2>2, <2>4, <2>5, <2>6, <2>7
    DEF verdict, Ended, Contract!Next, Contract!Issue, Contract!Open, Contract!request
<1>7. CASE Exhaust
  <2>1. /\ pc = "step" /\ pc' = "report" /\ baseline # NoValue /\ taken = Len(input)
        /\ UNCHANGED <<called, outcomes, baseline, status>>
    BY <1>7 DEF Exhaust, report
  <2>2. Unanswered = 0 /\ status.kind = "Completed"
    BY <2>1, Positions DEF Ended, Inv, Shape
  <2>3. ~HasDuplicate
    BY <2>1, <2>2 DEF Inv, Admitted
  <2>4. Len(called) = answered /\ answered = Len(input) + 1
    BY <1>a, <2>1, <2>2, Positions DEF Inv
  <2>5. verdict = "open" /\ verdict' = "Completed"
    BY <2>1, <2>2, States DEF verdict, Ended
  <2> QED
    BY <1>0, <2>1, <2>3, <2>4, <2>5
    DEF verdict, Ended, Contract!Next, Contract!Complete, Contract!Open, Contract!request
<1>8. CASE EngineReturns
  <2>1. pc = "calling" /\ Unanswered = 1 /\ Len(called) = answered + 1
    BY <1>8, <1>a, ReturnFrame, Positions DEF Inv
  <2>2. Len(called') = Len(called)
    BY <1>8, <1>a, <2>1, ReturnFrame, AnsweredCall
  <2>3. CASE \E e \in Errors : Fail(e)
    <3>1. pc' = "report" /\ UNCHANGED <<outcomes, baseline>> /\ status'.kind = "EngineFailed"
      BY <2>3 DEF Fail, EngineFailed
    <3>2. verdict = "open" /\ verdict' = "Failed"
      BY <2>1, <3>1, States DEF verdict, Ended
    <3> QED
      BY <1>0, <1>a, <2>1, <2>2, <3>1, <3>2
      DEF verdict, Ended, Contract!Next, Contract!Fail, Contract!Open, Contract!request
  <2>4. CASE \E s \in Signatures : ReturnBaseline(s) \/ ReturnScenario(s)
    <3>1. pc' = "progress"
      BY <2>4 DEF ReturnBaseline, ReturnScenario
    <3>2. answered' = answered + 1
      <4>1. CASE \E s \in Signatures : ReturnBaseline(s)
        <5>1. current = Baseline /\ baseline' # NoValue /\ UNCHANGED outcomes
          BY <4>1, NoValueAssumption DEF ReturnBaseline
        <5>2. baseline # NoValue => taken \in 1 .. Len(input) /\ current = input[taken]
          BY <1>a, <2>1, Positions DEF Inv
        <5>3. baseline = NoValue
          BY <1>a, <5>1, <5>2, BaselineAssumption
        <5> QED BY <5>1, <5>3
      <4>2. CASE \E s \in Signatures : ReturnScenario(s)
        <5>1. UNCHANGED baseline /\ Len(outcomes') = Len(outcomes) + 1
          BY <1>a, <4>2 DEF ReturnScenario, Outcomes
        <5> QED BY <1>a, <5>1
      <4> QED BY <2>4, <4>1, <4>2
    <3>3. verdict = "open" /\ verdict' = "open"
      BY <2>1, <3>1 DEF verdict, Ended
    <3> QED
      BY <1>0, <1>a, <2>1, <2>2, <3>2, <3>3
      DEF verdict, Ended, Contract!Next, Contract!Answer, Contract!Open, Contract!request
  <2> QED BY <1>8, <2>3, <2>4 DEF EngineReturns
<1> QED BY <1>2, <1>3, <1>4, <1>5, <1>6, <1>7, <1>8 DEF Next, Evaluator

(* The evaluator implements the batch contract, for every batch and engine. *)
THEOREM Refinement == Spec => ImplementsContract
<1>1. Init => Contract!Init
  BY ContractInit
<1>2. Inv /\ [Next]_vars => [Contract!Next]_(Contract!contract)
  BY ContractStep
<1> QED BY <1>1, <1>2, Invariance, PTL DEF Spec, Contract!Spec, ImplementsContract

----------------------------------------------------------------------------
(* How the report is told: to the progress callback, step by step, and to  *)
(* a reader of the record that is made of it.                              *)

(* A rejection has a repeated id, a failure a call that failed.            *)
Verdict ==
  /\ status.kind = "DuplicateScenarioId" => HasDuplicate
  /\ status.kind = "EngineFailed" => called[Len(called)].result \in Errors

(* The verdict has its ground at every step.                               *)
LEMMA VerdictStep == Inv /\ Verdict /\ [Next]_vars => Verdict'
<1> SUFFICES ASSUME Inv, Verdict, [Next]_vars PROVE Verdict'
  OBVIOUS
<1>0. HasDuplicate' <=> HasDuplicate
  BY RequestConstant
<1>a. called \in Seq(Calls) /\ Shape
  BY DEF Inv, TypeOK
<1> USE <1>0 DEF Verdict
<1>1. CASE Admit
  <2>1. /\ called' = called
        /\ status' = status \/ (HasDuplicate /\ status'.kind = "DuplicateScenarioId")
    BY <1>1 DEF Admit, DuplicateScenarioId
  <2> QED BY <2>1
<1>2. CASE Checkpoint
  <2>1. called' = called /\ (status' = status \/ status'.kind = "Interrupted")
    BY <1>2 DEF Checkpoint, Interrupted
  <2> QED BY <2>1
<1>3. CASE \/ ReadClock \/ Exhaust \/ Progress \/ Finish
           \/ Cancel \/ PassDeadline \/ Done \/ UNCHANGED vars
  <2>1. called' = called /\ status' = status
    BY <1>3 DEF ReadClock, Exhaust, Progress, Finish, Cancel, PassDeadline, Done, vars, report
  <2> QED BY <2>1
<1>4. CASE CallBaseline \/ CallScenario
  <2>1. pc = "step" /\ status' = status
    BY <1>4 DEF CallBaseline, CallScenario, Call
  <2>2. status.kind = "Completed"
    BY <1>a, <2>1 DEF Shape, Ended
  <2> QED BY <2>1, <2>2
<1>5. CASE \E s \in Signatures : ReturnBaseline(s) \/ ReturnScenario(s)
  <2>1. pc = "calling" /\ status' = status
    BY <1>5 DEF ReturnBaseline, ReturnScenario
  <2>2. status.kind = "Completed"
    BY <1>a, <2>1 DEF Shape, Ended
  <2> QED BY <2>1, <2>2
<1>6. CASE \E e \in Errors : Fail(e)
  <2>1. PICK e \in Errors : Fail(e)
    BY <1>6
  <2>2. status'.kind = "EngineFailed" /\ pc = "calling" /\ Answered(e)
    BY <2>1 DEF Fail, EngineFailed
  <2>3. Len(called) > 0
    BY <1>a, <2>2, Positions
  <2>4. called'[Len(called)].result = e /\ Len(called') = Len(called)
    BY <1>a, <2>2, <2>3, AnsweredCall
  <2> QED BY <2>2, <2>4
<1> QED
  BY <1>1, <1>2, <1>3, <1>4, <1>5, <1>6 DEF Next, Evaluator, EngineReturns

(* The callbacks tell the report at every step.                            *)
LEMMA NoticesStep == Inv /\ NoticesTellTheReport /\ [Next]_vars => NoticesTellTheReport'
<1> SUFFICES ASSUME Inv, NoticesTellTheReport, [Next]_vars PROVE NoticesTellTheReport'
  OBVIOUS
<1>a. /\ notices \in Seq(Notices) /\ outcomes \in Seq(Outcomes) /\ Len(outcomes) \in Nat
      /\ Len(notices) \in Nat /\ DOMAIN notices = 1 .. Len(notices)
  BY DEF Inv, TypeOK
<1>b. /\ pc # "done" => Len(notices) = Answers - (IF pc = "progress" THEN 1 ELSE 0)
      /\ pc = "progress" => baseline # NoValue
  BY DEF Inv, Notified, Shape
<1>c. pc # "done" => \A i \in DOMAIN notices :
        /\ notices[i].event = IF i = 1 THEN "BaselineCompleted" ELSE "ScenarioCompleted"
        /\ notices[i].completed = i - 1
  BY DEF NoticesTellTheReport
<1>1. CASE Progress
  <2>1. PICK note : note = [event |-> IF outcomes = <<>> THEN "BaselineCompleted"
                                      ELSE "ScenarioCompleted",
                            completed |-> Len(outcomes), cancelled |-> cancelled]
    OBVIOUS
  <2>2. /\ note.event = IF outcomes = <<>> THEN "BaselineCompleted" ELSE "ScenarioCompleted"
        /\ note.completed = Len(outcomes)
    BY <2>1
  <2>3. /\ notices' = Append(notices, note) /\ pc = "progress" /\ pc' = "clock"
        /\ note \in Notices
    BY <1>1, <2>1 DEF Progress, Inv, TypeOK, Notices
  <2>4. Len(notices) = Len(outcomes)
    BY <1>a, <1>b, <2>3 DEF Answers
  <2>5. outcomes = <<>> <=> Len(outcomes) + 1 = 1
    BY <1>a
  <2>6. /\ DOMAIN notices' = 1 .. Len(notices) + 1
        /\ \A i \in 1 .. Len(notices) : notices'[i] = notices[i]
        /\ notices'[Len(notices) + 1] = note
    BY <1>a, <2>3, AppendProperties
  <2>7. \A i \in DOMAIN notices' :
          /\ notices'[i].event = IF i = 1 THEN "BaselineCompleted" ELSE "ScenarioCompleted"
          /\ notices'[i].completed = i - 1
    <3> TAKE i \in DOMAIN notices'
    <3>1. i \in 1 .. Len(notices) \/ i = Len(notices) + 1
      BY <1>a, <2>6
    <3>2. CASE i \in 1 .. Len(notices)
      BY <1>a, <1>c, <2>3, <2>6, <3>2
    <3>3. CASE i = Len(notices) + 1
      <4>1. notices'[i] = note /\ (i = 1 <=> outcomes = <<>>) /\ i - 1 = Len(outcomes)
        BY <1>a, <2>4, <2>5, <2>6, <3>3
      <4> QED BY <2>2, <4>1
    <3> QED BY <3>1, <3>2, <3>3
  <2> QED BY <2>3, <2>7 DEF NoticesTellTheReport
<1>2. CASE Finish
  <2>1. PICK note : note = [event |-> StateOf(status), completed |-> Len(outcomes),
                            cancelled |-> cancelled]
    OBVIOUS
  <2>2. note.event = StateOf(status) /\ note.completed = Len(outcomes)
    BY <2>1
  <2>3. /\ notices' = Append(notices, note) /\ pc = "report" /\ pc' = "done"
        /\ UNCHANGED <<outcomes, baseline, status>>
    BY <1>2, <2>1 DEF Finish, report
  <2>4. Len(notices) = Len(outcomes) + (IF baseline # NoValue THEN 1 ELSE 0)
    <3>1. Len(notices) = Answers - 0
      BY <1>b, <2>3
    <3>2. Answers = Len(outcomes) + (IF baseline # NoValue THEN 1 ELSE 0)
      BY <1>a DEF Answers
    <3> QED BY <1>a, <3>1, <3>2
  <2>5. /\ Len(notices') = Len(notices) + 1
        /\ DOMAIN notices' = 1 .. Len(notices) + 1
        /\ \A i \in 1 .. Len(notices) : notices'[i] = notices[i]
        /\ notices'[Len(notices) + 1] = note
    BY <1>a, <2>3
  <2>6. \A i \in DOMAIN notices' : i < Len(notices') =>
          /\ notices'[i].event = IF i = 1 THEN "BaselineCompleted" ELSE "ScenarioCompleted"
          /\ notices'[i].completed = i - 1
    <3> TAKE i \in DOMAIN notices'
    <3> HAVE i < Len(notices')
    <3>1. i \in 1 .. Len(notices)
      BY <1>a, <2>5
    <3> QED BY <1>a, <1>c, <2>3, <2>5, <3>1
  <2>7. Len(notices') = Len(outcomes) + (IF baseline # NoValue THEN 2 ELSE 1)
    BY <1>a, <2>4, <2>5
  <2>8. StateOf(status)' = StateOf(status)
    BY <2>3 DEF StateOf
  <2>9. /\ notices'[Len(notices')].event = StateOf(status)'
        /\ notices'[Len(notices')].completed = Len(outcomes')
    BY <2>2, <2>3, <2>5, <2>8
  <2> QED BY <2>3, <2>6, <2>7, <2>9 DEF NoticesTellTheReport
<1>3. CASE \/ Admit \/ ReadClock \/ Checkpoint \/ CallBaseline \/ CallScenario \/ Exhaust
           \/ EngineReturns
  <2>1. pc # "done" /\ pc' # "done" /\ notices' = notices
    BY <1>3 DEF Admit, ReadClock, Checkpoint, CallBaseline, CallScenario, Call, Exhaust,
                EngineReturns, ReturnBaseline, ReturnScenario, Fail
  <2> QED BY <1>c, <2>1 DEF NoticesTellTheReport
<1>4. CASE Cancel \/ PassDeadline \/ Done \/ UNCHANGED vars
  <2>1. UNCHANGED <<pc, notices, outcomes, baseline, status>>
    BY <1>4 DEF Cancel, PassDeadline, Done, vars, report
  <2>2. StateOf(status)' = StateOf(status)
    BY <2>1 DEF StateOf
  <2> QED BY <2>1, <2>2 DEF NoticesTellTheReport
<1> QED BY <1>1, <1>2, <1>3, <1>4 DEF Next, Evaluator

(* The inductive invariant, with what the record adds to it.               *)
Told == Inv /\ Verdict /\ NoticesTellTheReport

(* ... and it is an invariant.                                             *)
LEMMA ToldHolds == Spec => []Told
<1>1. Init => Told
  <2> SUFFICES ASSUME Init PROVE Told
    OBVIOUS
  <2>1. Verdict
    BY DEF Init, Verdict, Completed
  <2>2. NoticesTellTheReport
    BY DEF Init, NoticesTellTheReport
  <2> QED BY <2>1, <2>2, InvInit DEF Told
<1>2. Inv' /\ Told /\ [Next]_vars => Told'
  BY VerdictStep, NoticesStep DEF Told
<1> QED BY <1>1, <1>2, Invariance, PTL DEF Spec

----------------------------------------------------------------------------
(* The reader's checks.                                                    *)

(* A reader none of whose checks fires reports no error; a list of checks  *)
(* is given by its length.                                                 *)
LEMMA NothingFires ==
  ASSUME NEW checks, \A i \in DOMAIN checks : ~checks[i][1]
  PROVE  FirstError(checks) = NoError
BY DEF FirstError

(* Of two checks that do not fire the first error is none.                 *)
LEMMA NoneOfTwo ==
  ASSUME NEW e1, NEW e2
  PROVE  FirstError(<< <<FALSE, e1>>, <<FALSE, e2>> >>) = NoError
<1>1. PICK list : list = << <<FALSE, e1>>, <<FALSE, e2>> >>
  OBVIOUS
<1>2. DOMAIN list = 1 .. 2 /\ list[1][1] = FALSE /\ list[2][1] = FALSE
  BY <1>1
<1>3. \A i \in 1 .. 2 : i = 1 \/ i = 2
  OBVIOUS
<1>4. \A i \in DOMAIN list : list[i][1] = FALSE
  BY <1>2, <1>3, Zenon
<1> QED BY <1>1, <1>4, NothingFires, Zenon

(* Of four checks that do not fire the first error is none.                *)
LEMMA NoneOfFour ==
  ASSUME NEW e1, NEW e2, NEW e3, NEW e4
  PROVE  FirstError(<< <<FALSE, e1>>, <<FALSE, e2>>, <<FALSE, e3>>, <<FALSE, e4>> >>) = NoError
<1>1. PICK list : list = << <<FALSE, e1>>, <<FALSE, e2>>, <<FALSE, e3>>, <<FALSE, e4>> >>
  OBVIOUS
<1>2. /\ DOMAIN list = 1 .. 4
      /\ list[1][1] = FALSE /\ list[2][1] = FALSE /\ list[3][1] = FALSE /\ list[4][1] = FALSE
  BY <1>1
<1>3. \A i \in 1 .. 4 : i = 1 \/ i = 2 \/ i = 3 \/ i = 4
  OBVIOUS
<1>4. \A i \in DOMAIN list : list[i][1] = FALSE
  BY <1>2, <1>3, Zenon
<1> QED BY <1>1, <1>4, NothingFires, Zenon

(* Of five checks that do not fire the first error is none.                *)
LEMMA NoneOfFive ==
  ASSUME NEW e1, NEW e2, NEW e3, NEW e4, NEW e5
  PROVE  FirstError(<< <<FALSE, e1>>, <<FALSE, e2>>, <<FALSE, e3>>, <<FALSE, e4>>,
                       <<FALSE, e5>> >>) = NoError
<1>1. PICK list : list = << <<FALSE, e1>>, <<FALSE, e2>>, <<FALSE, e3>>, <<FALSE, e4>>, <<FALSE, e5>> >>
  OBVIOUS
<1>2. /\ DOMAIN list = 1 .. 5
      /\ list[1][1] = FALSE /\ list[2][1] = FALSE /\ list[3][1] = FALSE /\ list[4][1] = FALSE
      /\ list[5][1] = FALSE
  BY <1>1
<1>3. \A i \in 1 .. 5 : i = 1 \/ i = 2 \/ i = 3 \/ i = 4 \/ i = 5
  OBVIOUS
<1>4. \A i \in DOMAIN list : list[i][1] = FALSE
  BY <1>2, <1>3, Zenon
<1> QED BY <1>1, <1>4, NothingFires, Zenon

(* Of six checks that do not fire the first error is none.                 *)
LEMMA NoneOfSix ==
  ASSUME NEW e1, NEW e2, NEW e3, NEW e4, NEW e5, NEW e6
  PROVE  FirstError(<< <<FALSE, e1>>, <<FALSE, e2>>, <<FALSE, e3>>, <<FALSE, e4>>,
                       <<FALSE, e5>>, <<FALSE, e6>> >>) = NoError
<1>1. PICK list : list = << <<FALSE, e1>>, <<FALSE, e2>>, <<FALSE, e3>>, <<FALSE, e4>>,
                      <<FALSE, e5>>, <<FALSE, e6>> >>
  OBVIOUS
<1>2. /\ DOMAIN list = 1 .. 6
      /\ list[1][1] = FALSE /\ list[2][1] = FALSE /\ list[3][1] = FALSE /\ list[4][1] = FALSE
      /\ list[5][1] = FALSE /\ list[6][1] = FALSE
  BY <1>1
<1>3. \A i \in 1 .. 6 : i = 1 \/ i = 2 \/ i = 3 \/ i = 4 \/ i = 5 \/ i = 6
  OBVIOUS
<1>4. \A i \in DOMAIN list : list[i][1] = FALSE
  BY <1>2, <1>3, Zenon
<1> QED BY <1>1, <1>4, NothingFires, Zenon

(* Of eleven checks that do not fire the first error is none.              *)
LEMMA NoneOfEleven ==
  ASSUME NEW e1, NEW e2, NEW e3, NEW e4, NEW e5, NEW e6, NEW e7, NEW e8, NEW e9, NEW e10, NEW e11
  PROVE  FirstError(<< <<FALSE, e1>>, <<FALSE, e2>>, <<FALSE, e3>>, <<FALSE, e4>>,
                       <<FALSE, e5>>, <<FALSE, e6>>, <<FALSE, e7>>, <<FALSE, e8>>,
                       <<FALSE, e9>>, <<FALSE, e10>>, <<FALSE, e11>> >>) = NoError
<1>1. PICK list : list = << <<FALSE, e1>>, <<FALSE, e2>>, <<FALSE, e3>>, <<FALSE, e4>>,
                      <<FALSE, e5>>, <<FALSE, e6>>, <<FALSE, e7>>, <<FALSE, e8>>,
                      <<FALSE, e9>>, <<FALSE, e10>>, <<FALSE, e11>> >>
  OBVIOUS
<1>2. /\ DOMAIN list = 1 .. 11
      /\ list[1][1] = FALSE /\ list[2][1] = FALSE /\ list[3][1] = FALSE /\ list[4][1] = FALSE
      /\ list[5][1] = FALSE /\ list[6][1] = FALSE /\ list[7][1] = FALSE /\ list[8][1] = FALSE
      /\ list[9][1] = FALSE /\ list[10][1] = FALSE /\ list[11][1] = FALSE
  BY <1>1
<1>3. \A i \in 1 .. 11 : i = 1 \/ i = 2 \/ i = 3 \/ i = 4 \/ i = 5 \/ i = 6 \/ i = 7 \/ i = 8
                           \/ i = 9 \/ i = 10 \/ i = 11
  OBVIOUS
<1>4. \A i \in DOMAIN list : list[i][1] = FALSE
  BY <1>2, <1>3, Zenon
<1> QED BY <1>1, <1>4, NothingFires, Zenon

(* A reader whose parts report no error reports none.                      *)
LEMMA NothingFailed ==
  ASSUME NEW errors, \A i \in DOMAIN errors : errors[i] = NoError
  PROVE  FirstOf(errors) = NoError
<1>1. PICK list : list = [i \in DOMAIN errors |-> <<errors[i] # NoError, errors[i]>>]
  OBVIOUS
<1>2. \A i \in DOMAIN list : ~list[i][1]
  BY <1>1
<1> QED BY <1>1, <1>2, NothingFires, Zenon DEF FirstOf

(* Two parts that pass.                                                    *)
LEMMA BothPass == FirstOf(<<NoError, NoError>>) = NoError
<1>1. PICK list : list = <<NoError, NoError>>
  OBVIOUS
<1>2. \A i \in DOMAIN list : list[i] = NoError
  BY <1>1
<1> QED BY <1>1, <1>2, NothingFailed, Zenon

(* Three parts that pass.                                                  *)
LEMMA AllThreePass == FirstOf(<<NoError, NoError, NoError>>) = NoError
<1>1. PICK list : list = <<NoError, NoError, NoError>>
  OBVIOUS
<1>2. \A i \in DOMAIN list : list[i] = NoError
  BY <1>1
<1> QED BY <1>1, <1>2, NothingFailed, Zenon

----------------------------------------------------------------------------
(* The binding.                                                            *)

(* The adapter's metadata are as AdapterMetadata::new makes them.          *)
LEMMA MetadataAreGood == MetadataError(Metadata) = NoError
<1>1. PICK m : m = Metadata
  OBVIOUS
<1>2. /\ m.id = 1 /\ m.version = [major |-> 1, minor |-> 0] /\ m.upstream = <<>>
      /\ m.capabilities = <<[id |-> 1, version |-> m.version]>>
  BY <1>1 DEF Metadata, Requirement
<1>3. PICK e : e = [id |-> 1, version |-> m.version]
  OBVIOUS
<1>4. e.id = 1 /\ e.version.major = 1 /\ m.version.major = 1
  BY <1>2, <1>3
<1>5. /\ Len(m.capabilities) = 1 /\ DOMAIN m.capabilities = 1 .. 1
      /\ m.capabilities[1] = e /\ m.capabilities # <<>>
  BY <1>2, <1>3
<1>6. UpstreamError(m.upstream) = NoError
  <2>1. Elements(m.upstream) = {}
    BY <1>2 DEF Elements
  <2>2. /\ (\E u \in Elements(m.upstream) : u.revision = 0) = FALSE
        /\ (\E u \in Elements(m.upstream) : u.component = 0) = FALSE
    BY <2>1
  <2> QED BY <2>2, NoneOfTwo, Zenon DEF UpstreamError
<1>7. EntryError(e) = NoError
  <2>1. (e.version.major = 0) = FALSE /\ (e.id = 0) = FALSE
    BY <1>4
  <2> QED BY <2>1, NoneOfTwo, Zenon DEF EntryError
<1>8. FirstOf([i \in DOMAIN m.capabilities |-> EntryError(m.capabilities[i])]) = NoError
  <2>1. PICK list : list = [i \in DOMAIN m.capabilities |-> EntryError(m.capabilities[i])]
    OBVIOUS
  <2>2. \A i \in DOMAIN list : list[i] = NoError
    <3>1. \A i \in DOMAIN list : i \in DOMAIN m.capabilities /\ list[i] = EntryError(m.capabilities[i])
      BY <2>1
    <3>2. \A i \in DOMAIN m.capabilities : m.capabilities[i] = e
      BY <1>5
    <3> QED BY <3>1, <3>2, <1>7
  <2> QED BY <2>1, <2>2, NothingFailed, Zenon
<1>9. FirstError(<<
        <<m.version.major = 0, "ZeroMajorVersion">>,
        <<m.capabilities = <<>>, "EmptyCapabilities">>,
        <<~Distinct([i \in DOMAIN m.capabilities |-> m.capabilities[i].id]),
          "DuplicateCapability">>,
        <<m.id = 0, "InvalidNamespacedId">> >>) = NoError
  <2>1. Distinct([i \in DOMAIN m.capabilities |-> m.capabilities[i].id])
    <3>1. PICK list : list = [i \in DOMAIN m.capabilities |-> m.capabilities[i].id]
      OBVIOUS
    <3>2. DOMAIN list = 1 .. 1
      BY <1>5, <3>1
    <3>3. Distinct(list)
      BY <3>2 DEF Distinct
    <3> QED BY <3>1, <3>3, Zenon
  <2>2. /\ (m.version.major = 0) = FALSE /\ (m.capabilities = <<>>) = FALSE
        /\ (~Distinct([i \in DOMAIN m.capabilities |-> m.capabilities[i].id])) = FALSE
        /\ (m.id = 0) = FALSE
    <3>1. (m.version.major = 0) = FALSE /\ (m.capabilities = <<>>) = FALSE /\ (m.id = 0) = FALSE
      BY <1>2, <1>4, <1>5
    <3> QED BY <3>1, <2>1, Zenon
  <2> QED BY <2>2, NoneOfFour, Zenon
<1> QED BY <1>1, <1>6, <1>8, <1>9, AllThreePass, Zenon DEF MetadataError

(* ... and sorted.                                                         *)
LEMMA MetadataAreSorted == MetadataOf(Metadata) = Metadata
<1>1. PICK m : m = Metadata
  OBVIOUS
<1>2. PICK s : s = m.capabilities
  OBVIOUS
<1>3. DOMAIN s = {1} /\ s = [k \in {1} |-> s[1]]
  BY <1>1, <1>2 DEF Metadata
<1> DEFINE rank(i) == Cardinality({ j \in DOMAIN s :
                                      s[j].id < s[i].id \/ (s[j].id = s[i].id /\ j <= i) })
<1>4. rank(1) = 1
  <2>1. { j \in DOMAIN s : s[j].id < s[1].id \/ (s[j].id = s[1].id /\ j <= 1) } = {1}
    BY <1>3
  <2> QED BY <2>1, FS_Singleton
<1>5. \A k \in DOMAIN s : (CHOOSE i \in DOMAIN s : rank(i) = k) = 1
  <2> TAKE k \in DOMAIN s
  <2>1. k = 1
    BY <1>3
  <2>2. \E i \in DOMAIN s : rank(i) = k
    BY <1>3, <1>4, <2>1
  <2>3. (CHOOSE i \in DOMAIN s : rank(i) = k) \in DOMAIN s
    BY <2>2
  <2> QED BY <1>3, <2>3
<1>6. ById(s) = s
  <2>1. ById(s) = [k \in DOMAIN s |-> s[CHOOSE i \in DOMAIN s : rank(i) = k]]
    BY DEF ById
  <2>2. ById(s) = [k \in DOMAIN s |-> s[1]]
    BY <1>5, <2>1
  <2> QED BY <1>3, <2>2
<1>7. m = [m EXCEPT !.capabilities = s]
  BY <1>1, <1>2 DEF Metadata
<1>8. MetadataOf(m) = m
  BY <1>2, <1>6, <1>7 DEF MetadataOf
<1> QED BY <1>1, <1>8

(* What a record of the report holds.                                      *)
LEMMA CapturedFields ==
  /\ Captured.form = "good" /\ Captured.run = 1 /\ Captured.codecs = TRUE
  /\ Captured.digest = BundleOf /\ Captured.bundle = BundleOf.id /\ Captured.seed = BundleOf.seed
  /\ Captured.adapter = Metadata
  /\ Captured.baseline = (IF baseline = NoValue THEN <<>> ELSE <<Payload(baseline)>>)
  /\ Captured.outcomes = [i \in DOMAIN outcomes |-> [scenario |-> outcomes[i].scenario,
                                                     payload |-> Payload(outcomes[i].signature)]]
  /\ Captured.pending = Pending /\ Captured.terminal = TerminalOf
  /\ Captured.limit = limit /\ Captured.deadline = deadline
<1>1. PICK o : o = [i \in DOMAIN outcomes |-> [scenario |-> outcomes[i].scenario,
                                               payload |-> Payload(outcomes[i].signature)]]
  OBVIOUS
<1>2. PICK s : s = IF baseline = NoValue THEN <<>> ELSE <<Payload(baseline)>>
  OBVIOUS
<1>3. Captured = Bind(RecordOf(s, o, Pending, TerminalOf, limit, deadline), 1, BundleOf, Metadata)
  BY <1>1, <1>2, Zenon DEF Captured
<1>4. PICK r : r = RecordOf(s, o, Pending, TerminalOf, limit, deadline)
  OBVIOUS
<1>5. /\ r.form = "good" /\ r.baseline = s /\ r.outcomes = o /\ r.pending = Pending
      /\ r.terminal = TerminalOf /\ r.limit = limit /\ r.deadline = deadline
  BY <1>4 DEF RecordOf
<1>6. Captured = Bind(r, 1, BundleOf, Metadata)
  BY <1>3, <1>4
<1>7. /\ Captured.form = r.form /\ Captured.run = 1 /\ Captured.codecs = TRUE
      /\ Captured.digest = BundleOf /\ Captured.bundle = BundleOf.id
      /\ Captured.seed = BundleOf.seed /\ Captured.adapter = Metadata
      /\ Captured.baseline = r.baseline /\ Captured.outcomes = r.outcomes
      /\ Captured.pending = r.pending /\ Captured.terminal = r.terminal
      /\ Captured.limit = r.limit /\ Captured.deadline = r.deadline
  BY <1>6 DEF Bind
<1> QED BY <1>1, <1>2, <1>5, <1>7, Zenon

(* What the bundle lists is the batch.                                     *)
LEMMA ListedIsTheBatch ==
  ASSUME input \in Seq(Ids)
  PROVE  /\ Listed(BundleOf) = input /\ Len(BundleOf.scenarios) = Len(input)
         /\ BundleOf.adapter = Requirement
<1>1. PICK s : s = [i \in DOMAIN input |-> [id |-> input[i]]]
  OBVIOUS
<1>2. BundleOf.scenarios = s /\ BundleOf.adapter = Requirement
  BY <1>1 DEF BundleOf
<1>3. DOMAIN s = DOMAIN input /\ \A i \in DOMAIN input : s[i].id = input[i]
  BY <1>1
<1>4. input = [i \in DOMAIN input |-> input[i]]
  OBVIOUS
<1>5. Listed(BundleOf) = input
  BY <1>2, <1>3, <1>4 DEF Listed
<1>6. Len(s) = Len(input)
  BY <1>1
<1> QED BY <1>2, <1>5, <1>6

(* The record is bound to the bundle.                                      *)
LEMMA RecordIsBound == BindingError(Captured, BundleOf) = NoError
<1>1. PICK r : r = Captured
  OBVIOUS
<1>2. PICK mine : mine = BundleOf
  OBVIOUS
<1>3. /\ r.form = "good" /\ r.run = 1 /\ r.codecs = TRUE
      /\ r.digest = mine /\ r.bundle = mine.id /\ r.seed = mine.seed /\ r.adapter = Metadata
  BY <1>1, <1>2, CapturedFields, Zenon
<1>4. /\ Metadata.id = Requirement.id /\ Metadata.version = Requirement.version
      /\ Requirement.upstream = <<>> /\ mine.adapter = Requirement
      /\ Requirement.version.major = 1 /\ Requirement.version.minor = 0
  BY <1>2 DEF Metadata, Requirement, BundleOf
<1>5. Supports(r.adapter.version, mine.adapter.version) /\ r.adapter.id = mine.adapter.id
  BY <1>3, <1>4 DEF Supports
<1>6. UpstreamFits(r.adapter.upstream, mine.adapter.upstream)
  BY <1>4 DEF UpstreamFits
<1>7. MetadataError(r.adapter) = NoError /\ MetadataOf(r.adapter) = r.adapter
  BY <1>3, MetadataAreGood, MetadataAreSorted, Zenon
<1>8. /\ (r.form = "long") = FALSE /\ (r.form = "shape") = FALSE
      /\ (r.form = "noncanonical") = FALSE /\ (r.form = "schema") = FALSE
      /\ (r.run = 0) = FALSE
      /\ (r.digest # mine \/ r.bundle # mine.id \/ r.seed # mine.seed) = FALSE
      /\ (MetadataError(r.adapter) # NoError) = FALSE
      /\ (MetadataOf(r.adapter) # r.adapter) = FALSE
  BY <1>3, <1>7
<1>9. /\ (r.adapter.id # mine.adapter.id \/ ~Supports(r.adapter.version, mine.adapter.version)) = FALSE
      /\ (~UpstreamFits(r.adapter.upstream, mine.adapter.upstream)) = FALSE
  BY <1>5, <1>6, Zenon
<1>10. (~r.codecs) = FALSE
  BY <1>3
<1>11. BindingError(r, mine) = NoError
  BY <1>8, <1>9, <1>10, NoneOfEleven, Zenon DEF BindingError
<1> QED BY <1>1, <1>2, <1>11

----------------------------------------------------------------------------
(* The end of an evaluation.                                               *)

(* A report that ended, of a batch that could be a bundle's.               *)
LEMMA AtTheEnd ==
  ASSUME Told, pc = "done", IsBundle
  PROVE  /\ input \in Seq(Ids) /\ Len(input) \in Nat \ {0} /\ outcomes \in Seq(Outcomes)
         /\ Len(outcomes) \in 0 .. Len(input) /\ limit \in Nat /\ Len(outcomes) <= limit
         /\ taken \in 0 .. Len(input) /\ taken <= limit
         /\ \A i \in DOMAIN outcomes : outcomes[i].scenario = input[i]
         /\ baseline = NoValue => outcomes = <<>> /\ taken = 0
         /\ limit = 0 => baseline = NoValue /\ status.kind # "EngineFailed"
         /\ status \in Statuses
         /\ \/ status = Completed /\ baseline # NoValue /\ taken = Len(input)
               /\ Len(outcomes) = Len(input)
            \/ /\ status.kind = "Interrupted" /\ taken = Len(outcomes)
               /\ status.reason = "DeadlineReached" => deadline
               /\ status.reason = "EvaluationLimitReached" =>
                    taken < Len(input) /\ Len(outcomes) = limit
            \/ /\ status.kind = "EngineFailed"
               /\ \/ baseline = NoValue /\ status.scenario = NoValue
                  \/ /\ baseline # NoValue /\ taken = Len(outcomes) + 1
                     /\ status.scenario = input[taken] /\ status.scenario \in Ids
<1>a. /\ input \in Seq(Ids) /\ Len(input) \in Nat \ {0} /\ outcomes \in Seq(Outcomes)
      /\ Len(outcomes) \in Nat /\ limit \in Nat /\ taken \in 0 .. Len(input) /\ taken <= limit
      /\ status \in Statuses /\ called \in Seq(Calls)
  <2>1. input # <<>> /\ input \in Seq(Ids)
    BY DEF Told, Inv, TypeOK, IsBundle
  <2>2. Len(input) \in Nat \ {0}
    BY <2>1, EmptySeq
  <2> QED BY <2>1, <2>2 DEF Told, Inv, TypeOK, Quota
<1>b. /\ Shape /\ Quota /\ Justified /\ Ordered /\ Ended /\ input # <<>>
  BY DEF Told, Inv, IsBundle, Ended
<1>1. status.kind # "DuplicateScenarioId"
  BY DEF Told, Verdict, IsBundle
<1>2. status.kind \in {"Completed", "Interrupted", "EngineFailed"}
      /\ (status.kind = "Completed" => status = Completed)
  BY <1>a, <1>1 DEF Statuses, Completed
<1>3. /\ baseline = NoValue => outcomes = <<>> /\ Len(outcomes) = 0 /\ taken = 0
      /\ baseline # NoValue => taken = Len(outcomes) + Unanswered
      /\ Unanswered = IF status.kind = "EngineFailed" THEN 1 ELSE 0
  BY <1>b, Positions DEF Unanswered
<1>4. Len(outcomes) <= taken
  BY <1>a, <1>3
<1>5. limit = 0 => baseline = NoValue /\ status.kind # "EngineFailed"
  <2> HAVE limit = 0
  <2>1. Len(called) = 0
    BY <1>b DEF Quota
  <2>2. Len(called) = Len(outcomes) + (IF baseline = NoValue THEN 0 ELSE 1) + Unanswered
    BY <1>b, Positions
  <2>3. Unanswered \in {0, 1}
    BY <1>b, Positions
  <2>4. PICK u \in {0, 1}, w \in {0, 1} :
          u = Unanswered /\ w = IF baseline = NoValue THEN 0 ELSE 1
    BY <2>3
  <2>5. 0 = Len(outcomes) + w + u
    BY <2>1, <2>2, <2>4
  <2>6. u = 0 /\ w = 0
    BY <1>a, <2>5
  <2> QED BY <1>3, <2>4, <2>6
<1>6. CASE status.kind = "Completed"
  <2>1. baseline # NoValue /\ taken = Len(input)
    BY <1>b, <1>6 DEF Shape
  <2>2. Len(outcomes) = Len(input)
    BY <1>a, <1>3, <1>6, <2>1
  <2> QED BY <1>a, <1>b, <1>2, <1>3, <1>4, <1>5, <1>6, <2>1, <2>2 DEF Ordered
<1>7. CASE status.kind = "Interrupted"
  <2>1. taken = Len(outcomes)
    BY <1>a, <1>3, <1>7
  <2>2. /\ status.reason = "DeadlineReached" => deadline
        /\ status.reason = "EvaluationLimitReached" => taken < Len(input) /\ Len(outcomes) = limit
    BY <1>a, <1>b, <1>7, <2>1 DEF Justified
  <2> QED BY <1>a, <1>b, <1>3, <1>4, <1>5, <1>7, <2>1, <2>2 DEF Ordered
<1>8. CASE status.kind = "EngineFailed"
  <2>1. status.scenario = IF baseline = NoValue THEN NoValue ELSE input[taken]
    BY <1>b, <1>8 DEF Shape
  <2>2. baseline # NoValue => taken = Len(outcomes) + 1
    BY <1>3, <1>8
  <2>3. baseline # NoValue => input[taken] \in Ids
    BY <1>a, <2>2
  <2> QED BY <1>a, <1>b, <1>3, <1>4, <1>5, <1>8, <2>1, <2>2, <2>3 DEF Ordered
<1> QED BY <1>2, <1>6, <1>7, <1>8

(* What is left of the batch after a prefix of it.                         *)
LEMMA Rest ==
  ASSUME input \in Seq(Ids), NEW n \in 0 .. Len(input)
  PROVE  /\ SubSeq(input, n + 1, Len(input)) \in Seq(Ids)
         /\ Len(SubSeq(input, n + 1, Len(input))) = Len(input) - n
         /\ n = Len(input) => SubSeq(input, n + 1, Len(input)) = <<>>
         /\ n < Len(input) => /\ SubSeq(input, n + 1, Len(input)) # <<>>
                              /\ SubSeq(input, n + 1, Len(input))[1] = input[n + 1]
<1>1. \A i \in n + 1 .. Len(input) : input[i] \in Ids
  OBVIOUS
<1>2. n + 1 \in Int /\ Len(input) \in Nat
  OBVIOUS
<1>3. PICK s : s = SubSeq(input, n + 1, Len(input))
  OBVIOUS
<1>4. /\ s \in Seq(Ids)
      /\ Len(s) = IF n + 1 <= Len(input) THEN Len(input) - (n + 1) + 1 ELSE 0
      /\ \A i \in 1 .. Len(input) - (n + 1) + 1 : s[i] = input[n + 1 + i - 1]
  BY <1>1, <1>2, <1>3, SubSeqProperties
<1>5. n < Len(input) => s[1] = input[n + 1] /\ s # <<>>
  BY <1>2, <1>4
<1>6. n = Len(input) => s = <<>>
  BY <1>2, <1>4, EmptySeq
<1>7. Len(s) = Len(input) - n
  BY <1>2, <1>4
<1> QED BY <1>3, <1>4, <1>5, <1>6, <1>7

(* The terminal state of the record.                                       *)
LEMMA TerminalFields ==
  /\ status.kind = "Completed" => TerminalOf.state = "completed"
  /\ status.kind = "Interrupted" =>
       TerminalOf.state = "interrupted" /\ TerminalOf.reason = status.reason
  /\ status.kind = "EngineFailed" =>
       /\ TerminalOf.state = "failed" /\ TerminalOf.error.long = FALSE
       /\ TerminalOf.scenario = Option(status.scenario)
BY DEF TerminalOf, Payload

(* The successes are within the quota, after a baseline, a prefix.         *)
LEMMA PrefixIsAccepted ==
  ASSUME Told, pc = "done", IsBundle
  PROVE  PrefixError(Captured, BundleOf) = NoError
<1>1. PICK r : r = Captured
  OBVIOUS
<1>2. PICK mine : mine = BundleOf
  OBVIOUS
<1>a. /\ input \in Seq(Ids) /\ outcomes \in Seq(Outcomes) /\ Len(outcomes) \in 0 .. Len(input)
      /\ limit \in Nat /\ Len(outcomes) <= limit
      /\ \A i \in DOMAIN outcomes : outcomes[i].scenario = input[i]
      /\ baseline = NoValue => outcomes = <<>>
      /\ Len(input) \in Nat /\ Len(outcomes) \in Nat
  BY AtTheEnd
<1>3. /\ r.baseline = IF baseline = NoValue THEN <<>> ELSE <<Payload(baseline)>>
      /\ r.outcomes = [i \in DOMAIN outcomes |-> [scenario |-> outcomes[i].scenario,
                                                  payload |-> Payload(outcomes[i].signature)]]
      /\ r.limit = limit
  BY <1>1, CapturedFields, Zenon
<1>4. /\ DOMAIN r.outcomes = 1 .. Len(outcomes) /\ Len(r.outcomes) = Len(outcomes)
      /\ \A i \in 1 .. Len(outcomes) :
           r.outcomes[i].scenario = outcomes[i].scenario /\ r.outcomes[i].payload.long = FALSE
  <2>1. \A v : Payload(v).long = FALSE
    BY DEF Payload
  <2> QED BY <1>a, <1>3, <2>1
<1>5. (Len(r.outcomes) > r.limit) = FALSE
  BY <1>a, <1>3, <1>4
<1>6. (r.baseline = <<>> /\ r.outcomes # <<>>) = FALSE
  <2>1. baseline # NoValue => r.baseline # <<>>
    BY <1>3
  <2>2. baseline = NoValue => r.outcomes = <<>>
    BY <1>a, <1>3
  <2> QED BY <2>1, <2>2
<1>7. (\E i \in DOMAIN r.baseline : r.baseline[i].long) = FALSE
  <2>1. CASE baseline = NoValue
    <3>1. r.baseline = <<>>
      BY <1>3, <2>1
    <3> QED BY <3>1
  <2>2. CASE baseline # NoValue
    <3>1. r.baseline = <<Payload(baseline)>> /\ Payload(baseline).long = FALSE
      BY <1>3, <2>2 DEF Payload
    <3>2. \A i \in DOMAIN r.baseline : r.baseline[i].long = FALSE
      BY <3>1
    <3> QED BY <3>2, Zenon
  <2> QED BY <2>1, <2>2
<1>8. IsPrefix(Succeeded(r), Listed(mine))
  <2>1. PICK s : s = Succeeded(r)
    OBVIOUS
  <2>2. s = [i \in DOMAIN r.outcomes |-> r.outcomes[i].scenario]
    BY <2>1 DEF Succeeded
  <2>3. /\ s \in Seq(Ids) /\ Len(s) = Len(outcomes)
        /\ \A i \in 1 .. Len(outcomes) : s[i] = input[i]
    <3>1. \A i \in 1 .. Len(outcomes) : input[i] \in Ids /\ r.outcomes[i].scenario = input[i]
      BY <1>a, <1>4
    <3> QED BY <1>a, <1>4, <2>2, <3>1
  <2>4. Listed(mine) = input
    BY <1>a, <1>2, ListedIsTheBatch
  <2>5. SubSeq(s, 1, Len(s)) = s
    BY <2>3, SubSeqFull
  <2>6. SubSeq(input, 1, Len(s)) = s
    <3>1. PICK t : t = SubSeq(input, 1, Len(s))
      OBVIOUS
    <3>2. \A i \in 1 .. Len(s) : input[i] \in Ids
      BY <1>a, <2>3
    <3>3. /\ t \in Seq(Ids) /\ Len(t) = Len(s)
          /\ \A i \in 1 .. Len(s) : t[i] = s[i]
      <4>1. Len(s) \in Nat
        BY <1>a, <2>3
      <4>2. /\ t \in Seq(Ids) /\ Len(t) = IF 1 <= Len(s) THEN Len(s) - 1 + 1 ELSE 0
            /\ \A i \in 1 .. Len(s) - 1 + 1 : t[i] = input[1 + i - 1]
        BY <3>1, <3>2, <4>1, SubSeqProperties
      <4> QED BY <2>3, <4>1, <4>2
    <3>4. t = s
      BY <2>3, <3>3
    <3> QED BY <3>1, <3>4
  <2>7. Len(s) <= Len(input)
    BY <1>a, <2>3
  <2>8. IsPrefix(s, input)
    BY <2>5, <2>6, <2>7 DEF IsPrefix
  <2> QED BY <2>1, <2>4, <2>8
<1>9. (\E i \in DOMAIN r.outcomes : r.outcomes[i].payload.long) = FALSE
  BY <1>4, Zenon
<1>10. (~IsPrefix(Succeeded(r), Listed(mine))) = FALSE
  BY <1>8, Zenon
<1>11. PrefixError(r, mine) = NoError
  BY <1>5, <1>6, <1>7, <1>9, <1>10, NoneOfFive, Zenon DEF PrefixError
<1> QED BY <1>1, <1>2, <1>11

(* What the record leaves of the bundle is what its lifecycle left.        *)
LEMMA WhatIsLeft ==
  ASSUME Told, pc = "done", IsBundle
  PROVE  /\ Len(Captured.outcomes) = Len(outcomes) /\ Len(BundleOf.scenarios) = Len(input)
         /\ Unfinished(Captured, BundleOf) = SubSeq(input, Len(outcomes) + 1, Len(input))
         /\ Captured.pending = Pending
         /\ NeverStarted(Captured, BundleOf) = Pending
         /\ Pending = SubSeq(input, taken + 1, Len(input))
<1>1. PICK r : r = Captured
  OBVIOUS
<1>2. PICK mine : mine = BundleOf
  OBVIOUS
<1>a. /\ input \in Seq(Ids) /\ outcomes \in Seq(Outcomes) /\ Len(outcomes) \in Nat
      /\ baseline = NoValue => outcomes = <<>> /\ taken = 0
  BY AtTheEnd
<1>3. /\ r.outcomes = [i \in DOMAIN outcomes |-> [scenario |-> outcomes[i].scenario,
                                                  payload |-> Payload(outcomes[i].signature)]]
      /\ r.pending = Pending /\ r.terminal = TerminalOf
  BY <1>1, CapturedFields, Zenon
<1>4. Len(r.outcomes) = Len(outcomes)
  BY <1>a, <1>3
<1>5. Listed(mine) = input /\ Len(mine.scenarios) = Len(input)
  BY <1>a, <1>2, ListedIsTheBatch
<1>6. Unfinished(r, mine) = SubSeq(input, Len(outcomes) + 1, Len(input))
  BY <1>4, <1>5 DEF Unfinished
<1>7. Pending = SubSeq(input, taken + 1, Len(input))
  BY DEF Pending
<1>8. NeverStarted(r, mine) = Pending
  <2>1. CASE status.kind = "EngineFailed" /\ baseline # NoValue
    <3>1. taken = Len(outcomes) + 1 /\ status.scenario \in Ids
      BY <2>1, AtTheEnd DEF Completed
    <3>2. r.terminal.state = "failed" /\ r.terminal.scenario = Option(status.scenario)
      BY <1>3, <2>1, TerminalFields
    <3>3. Option(status.scenario) # <<>>
      BY <3>1, NoValueAssumption DEF Option
    <3>4. taken + 1 = Len(outcomes) + 2
      BY <1>a, <3>1
    <3> QED BY <1>4, <1>5, <1>7, <3>2, <3>3, <3>4 DEF NeverStarted
  <2>2. CASE status.kind = "EngineFailed" /\ baseline = NoValue
    <3>1. status.scenario = NoValue /\ taken = 0 /\ Len(outcomes) = 0
      BY <1>a, <2>2, AtTheEnd DEF Completed
    <3>2. r.terminal.scenario = <<>>
      BY <1>3, <2>2, <3>1, TerminalFields DEF Option
    <3>3. NeverStarted(r, mine) = Unfinished(r, mine)
      BY <3>2 DEF NeverStarted
    <3> QED BY <1>6, <1>7, <3>1, <3>3
  <2>3. CASE status.kind # "EngineFailed"
    <3>1. /\ taken = Len(outcomes) /\ status.kind \in {"Completed", "Interrupted"}
      BY <2>3, AtTheEnd DEF Completed
    <3>2. r.terminal.state # "failed"
      BY <1>3, <3>1, TerminalFields
    <3>3. NeverStarted(r, mine) = Unfinished(r, mine)
      BY <3>2 DEF NeverStarted
    <3> QED BY <1>6, <1>7, <3>1, <3>3
  <2> QED BY <2>1, <2>2, <2>3
<1> QED BY <1>1, <1>2, <1>3, <1>4, <1>5, <1>6, <1>7, <1>8

(* The terminal state is one the successes admit.                          *)
LEMMA TerminalIsAccepted ==
  ASSUME Told, pc = "done", IsBundle
  PROVE  TerminalError(Captured, BundleOf) = NoError
<1>1. PICK r : r = Captured
  OBVIOUS
<1>2. PICK mine : mine = BundleOf
  OBVIOUS
<1>3. PICK t : t = r.terminal
  OBVIOUS
<1>4. PICK left : left = Unfinished(r, mine)
  OBVIOUS
<1>a. /\ input \in Seq(Ids) /\ outcomes \in Seq(Outcomes) /\ Len(outcomes) \in 0 .. Len(input)
      /\ Len(outcomes) \in Nat /\ Len(input) \in Nat /\ limit \in Nat /\ taken \in 0 .. Len(input)
      /\ taken <= limit /\ Len(outcomes) <= limit
      /\ baseline = NoValue => outcomes = <<>> /\ taken = 0
      /\ limit = 0 => baseline = NoValue /\ status.kind # "EngineFailed"
  BY AtTheEnd
<1>5. /\ r.baseline = IF baseline = NoValue THEN <<>> ELSE <<Payload(baseline)>>
      /\ r.limit = limit /\ r.deadline = deadline /\ r.pending = Pending /\ t = TerminalOf
      /\ r.outcomes = [i \in DOMAIN outcomes |-> [scenario |-> outcomes[i].scenario,
                                                  payload |-> Payload(outcomes[i].signature)]]
  BY <1>1, <1>3, CapturedFields, Zenon
<1>6. r.baseline = <<>> <=> baseline = NoValue
  BY <1>5
<1>7. /\ Len(r.outcomes) = Len(outcomes) /\ left = SubSeq(input, Len(outcomes) + 1, Len(input))
      /\ Pending = SubSeq(input, taken + 1, Len(input))
  BY <1>1, <1>2, <1>4, WhatIsLeft
<1>8. baseline = NoValue => r.outcomes = <<>>
  BY <1>a, <1>5
<1>9. CASE status.kind = "Completed"
  <2>1. /\ t.state = "completed" /\ baseline # NoValue
        /\ taken = Len(input) /\ Len(outcomes) = Len(input)
    BY <1>5, <1>9, TerminalFields, AtTheEnd
  <2>2. left = <<>> /\ r.pending = <<>>
    BY <1>a, <1>5, <1>7, <2>1, Rest
  <2>3. (t.state = "completed" /\ (r.baseline = <<>> \/ r.pending # <<>> \/ left # <<>>)) = FALSE
    BY <1>6, <2>1, <2>2
  <2>4. /\ (t.state = "failed" /\ t.error.long) = FALSE
        /\ (t.state = "failed" /\ t.scenario # <<>>
              /\ (r.baseline = <<>> \/ ~IsPrefix(t.scenario, left)
                    \/ Len(r.outcomes) >= r.limit)) = FALSE
        /\ (t.state = "failed" /\ t.scenario = <<>>
              /\ (r.baseline # <<>> \/ r.outcomes # <<>> \/ r.limit = 0)) = FALSE
        /\ (t.state = "interrupted" /\ t.reason = "DeadlineReached" /\ ~r.deadline) = FALSE
        /\ (t.state = "interrupted" /\ t.reason = "EvaluationLimitReached"
              /\ (r.pending = <<>> \/ Len(r.outcomes) # r.limit)) = FALSE
    <3>1. (t.state = "failed") = FALSE /\ (t.state = "interrupted") = FALSE
      BY <2>1
    <3> QED BY <3>1, Zenon
  <2>5. TerminalError(r, mine) = NoError
    BY <1>3, <1>4, <2>3, <2>4, NoneOfSix, Zenon DEF TerminalError
  <2> QED BY <1>1, <1>2, <2>5
<1>10. CASE status.kind = "Interrupted"
  <2>1. /\ t.state = "interrupted" /\ t.reason = status.reason
        /\ t.reason = "DeadlineReached" => deadline
        /\ t.reason = "EvaluationLimitReached" => taken < Len(input) /\ Len(outcomes) = limit
    <3>1. t.state = "interrupted" /\ t.reason = status.reason
      BY <1>5, <1>10, TerminalFields
    <3>2. /\ status.reason = "DeadlineReached" => deadline
          /\ status.reason = "EvaluationLimitReached" => taken < Len(input) /\ Len(outcomes) = limit
      BY <1>10, AtTheEnd DEF Completed
    <3> QED BY <3>1, <3>2
  <2>2. (t.state = "interrupted" /\ t.reason = "DeadlineReached" /\ ~r.deadline) = FALSE
    <3>1. t.reason = "DeadlineReached" => r.deadline
      BY <1>5, <2>1
    <3> QED BY <3>1, Zenon
  <2>3. (t.state = "interrupted" /\ t.reason = "EvaluationLimitReached"
           /\ (r.pending = <<>> \/ Len(r.outcomes) # r.limit)) = FALSE
    <3>1. t.reason = "EvaluationLimitReached" => r.pending # <<>> /\ Len(r.outcomes) = r.limit
      BY <1>a, <1>5, <1>7, <2>1, Rest
    <3> QED BY <3>1, Zenon
  <2>4. /\ (t.state = "completed" /\ (r.baseline = <<>> \/ r.pending # <<>> \/ left # <<>>)) = FALSE
        /\ (t.state = "failed" /\ t.error.long) = FALSE
        /\ (t.state = "failed" /\ t.scenario # <<>>
              /\ (r.baseline = <<>> \/ ~IsPrefix(t.scenario, left)
                    \/ Len(r.outcomes) >= r.limit)) = FALSE
        /\ (t.state = "failed" /\ t.scenario = <<>>
              /\ (r.baseline # <<>> \/ r.outcomes # <<>> \/ r.limit = 0)) = FALSE
    <3>1. (t.state = "failed") = FALSE /\ (t.state = "completed") = FALSE
      BY <2>1
    <3> QED BY <3>1, Zenon
  <2>5. TerminalError(r, mine) = NoError
    BY <1>3, <1>4, <2>2, <2>3, <2>4, NoneOfSix, Zenon DEF TerminalError
  <2> QED BY <1>1, <1>2, <2>5
<1>11. CASE status.kind = "EngineFailed"
  <2>1. /\ t.state = "failed" /\ t.error.long = FALSE /\ t.scenario = Option(status.scenario)
        /\ limit # 0
    BY <1>a, <1>5, <1>11, TerminalFields
  <2>2. (t.state = "failed" /\ t.error.long) = FALSE
    BY <2>1, Zenon
  <2>3. (t.state = "failed" /\ t.scenario # <<>>
           /\ (r.baseline = <<>> \/ ~IsPrefix(t.scenario, left)
                 \/ Len(r.outcomes) >= r.limit)) = FALSE
    <3>1. CASE baseline = NoValue
      <4>1. t.scenario = <<>>
        BY <1>11, <2>1, <3>1, AtTheEnd, NoValueAssumption DEF Option, Completed
      <4> QED BY <4>1, Zenon
    <3>2. CASE baseline # NoValue
      <4>1. /\ taken = Len(outcomes) + 1 /\ status.scenario = input[taken]
            /\ status.scenario \in Ids
        BY <1>11, <3>2, AtTheEnd DEF Completed
      <4>2. PICK id \in Ids : id = status.scenario
        BY <4>1
      <4>3. t.scenario = <<id>>
        BY <2>1, <4>2, NoValueAssumption DEF Option
      <4>4. /\ left \in Seq(Ids) /\ Len(left) = Len(input) - Len(outcomes) /\ left[1] = id
        BY <1>a, <1>7, <4>1, <4>2, Rest
      <4>5. IsPrefix(<<id>>, left)
        <5>1. Len(left) >= 1 /\ Len(left) \in Nat
          BY <1>a, <4>1, <4>4
        <5>2. SubSeq(left, 1, 1) = <<id>>
          <6>1. PICK s : s = SubSeq(left, 1, 1)
            OBVIOUS
          <6>2. \A i \in 1 .. 1 : left[i] \in Ids
            BY <4>4
          <6>3. /\ s \in Seq(Ids) /\ Len(s) = IF 1 <= 1 THEN 1 - 1 + 1 ELSE 0
                /\ \A i \in 1 .. 1 - 1 + 1 : s[i] = left[1 + i - 1]
            BY <6>1, <6>2, SubSeqProperties
          <6>4. Len(s) = 1 /\ s[1] = id
            BY <4>4, <6>3
          <6>5. PICK q \in Seq(Ids) : q = <<id>>
            <7>1. <<id>> \in Seq(Ids)
              OBVIOUS
            <7> QED BY <7>1
          <6>6. Len(q) = 1 /\ \A i \in 1 .. Len(q) : s[i] = q[i]
            BY <6>4, <6>5
          <6>7. s = q
            BY <6>3, <6>4, <6>5, <6>6
          <6> QED BY <6>1, <6>5, <6>7
        <5>3. SubSeq(<<id>>, 1, 1) = <<id>> /\ Len(<<id>>) = 1
          <6>1. <<id>> \in Seq(Ids) /\ Len(<<id>>) = 1
            OBVIOUS
          <6> QED BY <6>1, SubSeqFull
        <5> QED BY <5>1, <5>2, <5>3 DEF IsPrefix
      <4>6. Len(r.outcomes) < r.limit
        BY <1>a, <1>5, <1>7, <4>1
      <4>7. (Len(r.outcomes) >= r.limit) = FALSE
        BY <1>a, <1>5, <1>7, <4>6
      <4>8. (r.baseline = <<>>) = FALSE
        BY <1>6, <3>2
      <4> QED BY <4>3, <4>5, <4>7, <4>8, Zenon
    <3> QED BY <3>1, <3>2, Zenon
  <2>4. (t.state = "failed" /\ t.scenario = <<>>
           /\ (r.baseline # <<>> \/ r.outcomes # <<>> \/ r.limit = 0)) = FALSE
    <3>1. CASE baseline = NoValue
      <4>1. (r.baseline # <<>>) = FALSE /\ (r.outcomes # <<>>) = FALSE /\ (r.limit = 0) = FALSE
        BY <1>5, <1>6, <1>8, <2>1, <3>1
      <4> QED BY <4>1, Zenon
    <3>2. CASE baseline # NoValue
      <4>1. status.scenario \in Ids
        BY <1>11, <3>2, AtTheEnd DEF Completed
      <4>2. t.scenario # <<>>
        BY <2>1, <4>1, NoValueAssumption DEF Option
      <4> QED BY <4>2, Zenon
    <3> QED BY <3>1, <3>2, Zenon
  <2>5. /\ (t.state = "completed" /\ (r.baseline = <<>> \/ r.pending # <<>> \/ left # <<>>)) = FALSE
        /\ (t.state = "interrupted" /\ t.reason = "DeadlineReached" /\ ~r.deadline) = FALSE
        /\ (t.state = "interrupted" /\ t.reason = "EvaluationLimitReached"
              /\ (r.pending = <<>> \/ Len(r.outcomes) # r.limit)) = FALSE
    <3>1. (t.state = "completed") = FALSE /\ (t.state = "interrupted") = FALSE
      BY <2>1
    <3> QED BY <3>1, Zenon
  <2>6. TerminalError(r, mine) = NoError
    BY <1>3, <1>4, <2>2, <2>3, <2>4, <2>5, NoneOfSix, Zenon DEF TerminalError
  <2> QED BY <1>1, <1>2, <2>6
<1>12. status.kind \in {"Completed", "Interrupted", "EngineFailed"}
  BY AtTheEnd DEF Completed
<1> QED BY <1>9, <1>10, <1>11, <1>12

(* The never-started suffix is the one the bundle has left.                *)
LEMMA SuffixIsAccepted ==
  ASSUME Told, pc = "done", IsBundle
  PROVE  SuffixError(Captured, BundleOf) = NoError
<1>1. PICK r : r = Captured
  OBVIOUS
<1>2. PICK mine : mine = BundleOf
  OBVIOUS
<1>3. /\ r.baseline = IF baseline = NoValue THEN <<>> ELSE <<Payload(baseline)>>
      /\ r.limit = limit
  BY <1>1, CapturedFields, Zenon
<1>4. (r.limit = 0 /\ r.baseline # <<>>) = FALSE
  BY <1>3, AtTheEnd
<1>5. (r.pending # NeverStarted(r, mine)) = FALSE
  BY <1>1, <1>2, WhatIsLeft
<1>6. SuffixError(r, mine) = NoError
  BY <1>4, <1>5, NoneOfTwo, Zenon DEF SuffixError
<1> QED BY <1>1, <1>2, <1>6

(* The reader accepts the record.                                          *)
LEMMA RecordIsAccepted ==
  ASSUME Told, pc = "done", IsBundle
  PROVE  RecordError(Captured, BundleOf) = NoError
<1>1. PICK r : r = Captured
  OBVIOUS
<1>2. PICK mine : mine = BundleOf
  OBVIOUS
<1>3. /\ BindingError(r, mine) = NoError /\ PrefixError(r, mine) = NoError
      /\ TerminalError(r, mine) = NoError /\ SuffixError(r, mine) = NoError
  BY <1>1, <1>2, RecordIsBound, PrefixIsAccepted, TerminalIsAccepted, SuffixIsAccepted
<1>4. LifecycleError(r, mine) = NoError
  BY <1>3, BothPass, Zenon DEF LifecycleError
<1>5. RecordError(r, mine) = NoError
  BY <1>3, <1>4, Zenon DEF RecordError
<1> QED BY <1>1, <1>2, <1>5

(* What the record sums up is what the engine was called for.              *)
LEMMA CallsAreCounted ==
  ASSUME Told, pc = "done", IsBundle
  PROVE  /\ CandidatesCalled = taken
         /\ Cardinality({ i \in DOMAIN called : called[i].target # Baseline
                                                  /\ called[i].result \in Errors })
              = IF status.kind = "EngineFailed" /\ baseline # NoValue THEN 1 ELSE 0
         /\ status.kind = "EngineFailed" <=> \E i \in DOMAIN called : called[i].result \in Errors
<1>a. /\ input \in Seq(Ids) /\ outcomes \in Seq(Outcomes) /\ Len(outcomes) \in Nat
      /\ taken \in 0 .. Len(input) /\ Len(input) \in Nat
      /\ baseline = NoValue => outcomes = <<>> /\ Len(outcomes) = 0 /\ taken = 0
  BY AtTheEnd
<1>b. /\ called \in Seq(Calls) /\ Len(called) \in Nat /\ DOMAIN called = 1 .. Len(called)
      /\ \A i \in DOMAIN called : called[i].target = IF i = 1 THEN Baseline ELSE input[i - 1]
  BY DEF Told, Inv, TypeOK, Ordered
<1>c. /\ Inv /\ Shape /\ Verdict
  BY DEF Told, Inv
<1>d. Unanswered = IF status.kind = "EngineFailed" THEN 1 ELSE 0
  BY DEF Unanswered
<1>e. /\ Len(called) = Len(outcomes) + (IF baseline = NoValue THEN 0 ELSE 1) + Unanswered
      /\ baseline # NoValue => taken = Len(outcomes) + Unanswered
      /\ Answers = Len(outcomes) + (IF baseline = NoValue THEN 0 ELSE 1)
  BY <1>c, Positions DEF Answers
<1>1. /\ baseline # NoValue => Len(called) = taken + 1
      /\ baseline = NoValue => Len(called) = Unanswered /\ taken = 0
  <2>1. Unanswered \in {0, 1}
    BY <1>d
  <2>2. CASE baseline # NoValue
    <3>1. Len(called) = Len(outcomes) + 1 + Unanswered /\ taken = Len(outcomes) + Unanswered
      BY <1>e, <2>2
    <3> QED BY <1>a, <2>1, <2>2, <3>1
  <2>3. CASE baseline = NoValue
    <3>1. Len(called) = 0 + 0 + Unanswered /\ taken = 0
      BY <1>a, <1>e, <2>3
    <3> QED BY <2>1, <2>3, <3>1
  <2> QED BY <2>2, <2>3
<1>2. Len(called) - 1 <= taken
  <2>1. Unanswered \in {0, 1}
    BY <1>d
  <2>2. CASE baseline # NoValue
    BY <1>a, <1>b, <1>1, <2>2
  <2>3. CASE baseline = NoValue
    BY <1>b, <1>1, <2>1, <2>3
  <2> QED BY <2>2, <2>3
<1>3. { i \in DOMAIN called : called[i].target # Baseline } = 2 .. Len(called)
  <2>1. \A i \in DOMAIN called : i # 1 => called[i].target # Baseline
    <3> TAKE i \in DOMAIN called
    <3>1. i # 1 => i - 1 \in 1 .. Len(input)
      BY <1>a, <1>b, <1>2
    <3> QED BY <1>a, <1>b, <3>1, BaselineAssumption
  <2> QED BY <1>b, <2>1
<1>4. Cardinality(2 .. Len(called)) = taken
  <2>1. Cardinality(2 .. Len(called)) = IF 2 > Len(called) THEN 0 ELSE Len(called) - 2 + 1
    BY <1>b, FS_Interval
  <2>2. CASE baseline # NoValue
    BY <1>a, <1>b, <1>1, <2>1, <2>2
  <2>3. CASE baseline = NoValue
    BY <1>a, <1>b, <1>d, <1>1, <2>1, <2>3
  <2> QED BY <2>2, <2>3
<1>5. \A i \in DOMAIN called : i <= Answers => called[i].result \notin Errors
  BY <1>c, AnsweredResults, ResultAssumption
<1>6. Len(called) = Answers + Unanswered /\ Answers \in Nat
  BY <1>a, <1>e
<1>7. CASE status.kind = "EngineFailed"
  <2>1. Len(called) = Answers + 1 /\ Len(called) \in DOMAIN called
    BY <1>b, <1>d, <1>6, <1>7
  <2>2. called[Len(called)].result \in Errors
    BY <1>c, <1>7 DEF Verdict
  <2>3. \A i \in DOMAIN called : called[i].result \in Errors => i = Len(called)
    BY <1>b, <1>5, <1>6, <2>1
  <2> DEFINE failed == { i \in DOMAIN called : called[i].target # Baseline
                                                 /\ called[i].result \in Errors }
  <2>4. failed = IF Len(called) \in 2 .. Len(called) THEN {Len(called)} ELSE {}
    BY <1>3, <2>1, <2>2, <2>3
  <2>5. Len(called) \in 2 .. Len(called) <=> baseline # NoValue
    <3>1. CASE baseline # NoValue
      <4>1. Unanswered = 1 /\ taken = Len(outcomes) + Unanswered /\ Len(called) = taken + 1
        BY <1>d, <1>e, <1>1, <1>7, <3>1
      <4>2. Len(called) >= 2
        BY <1>a, <4>1
      <4> QED BY <1>b, <3>1, <4>2
    <3>2. CASE baseline = NoValue
      <4>1. Len(called) = 1
        BY <1>1, <1>d, <1>7, <3>2
      <4> QED BY <3>2, <4>1
    <3> QED BY <3>1, <3>2
  <2>6. Cardinality(failed) = IF baseline # NoValue THEN 1 ELSE 0
    <3>1. Cardinality({Len(called)}) = 1 /\ Cardinality({}) = 0
      BY FS_Singleton, FS_EmptySet
    <3> QED BY <2>4, <2>5, <3>1
  <2> QED BY <1>3, <1>4, <1>7, <2>1, <2>2, <2>6 DEF CandidatesCalled
<1>8. CASE status.kind # "EngineFailed"
  <2>1. \A i \in DOMAIN called : called[i].result \notin Errors
    BY <1>b, <1>d, <1>5, <1>6, <1>8
  <2>2. { i \in DOMAIN called : called[i].target # Baseline /\ called[i].result \in Errors } = {}
    BY <2>1
  <2> QED BY <1>3, <1>4, <1>8, <2>1, <2>2, FS_EmptySet DEF CandidatesCalled
<1> QED BY <1>7, <1>8

(* Whatever happened, the record of it can be captured, and it says what   *)
(* the engine was called for.                                              *)
LEMMA RecordTells == Told => RecordTellsTheReport
<1> SUFFICES ASSUME Told, pc = "done", IsBundle
             PROVE  LET summary == SummaryOf(Captured) IN
               /\ RecordError(Captured, BundleOf) = NoError
               /\ summary.successful + summary.failed = CandidatesCalled
               /\ summary.failed = Cardinality({ i \in DOMAIN called :
                                                   called[i].target # Baseline
                                                     /\ called[i].result \in Errors })
               /\ summary.neverStarted = Len(input) - CandidatesCalled
               /\ summary.state = "completed" <=> CompletedBatch # NoValue
               /\ summary.state = "failed" <=> \E i \in DOMAIN called : called[i].result \in Errors
  BY Zenon DEF RecordTellsTheReport
<1> DEFINE failures == Cardinality({ i \in DOMAIN called : called[i].target # Baseline
                                                             /\ called[i].result \in Errors })
<1>1. PICK s : s = SummaryOf(Captured)
  OBVIOUS
<1>2. Captured.terminal = TerminalOf
  BY CapturedFields, Zenon
<1>3. /\ s.state = TerminalOf.state /\ s.successful = Len(Captured.outcomes)
      /\ s.neverStarted = Len(Captured.pending)
      /\ s.failed = IF TerminalOf.state = "failed" THEN Len(TerminalOf.scenario) ELSE 0
  BY <1>1, <1>2 DEF SummaryOf
<1>4. s.successful = Len(outcomes) /\ s.neverStarted = Len(input) - taken
  <2>1. input \in Seq(Ids) /\ taken \in 0 .. Len(input)
    BY AtTheEnd
  <2>2. Len(Pending) = Len(input) - taken
    BY <2>1, Rest, WhatIsLeft
  <2> QED BY <1>3, <2>2, WhatIsLeft
<1>5. s.failed = IF status.kind = "EngineFailed" /\ baseline # NoValue THEN 1 ELSE 0
  <2>1. CASE status.kind = "EngineFailed" /\ baseline # NoValue
    <3>1. status.scenario \in Ids
      BY <2>1, AtTheEnd DEF Completed
    <3>2. Len(Option(status.scenario)) = 1
      BY <3>1, NoValueAssumption DEF Option
    <3> QED BY <1>3, <2>1, <3>2, TerminalFields
  <2>2. CASE status.kind = "EngineFailed" /\ baseline = NoValue
    <3>1. status.scenario = NoValue
      BY <2>2, AtTheEnd DEF Completed
    <3>2. Len(Option(status.scenario)) = 0
      BY <3>1 DEF Option
    <3> QED BY <1>3, <2>2, <3>2, TerminalFields
  <2>3. CASE status.kind # "EngineFailed"
    <3>1. status.kind \in {"Completed", "Interrupted"}
      BY <2>3, AtTheEnd DEF Completed
    <3>2. TerminalOf.state # "failed"
      BY <3>1, TerminalFields
    <3> QED BY <1>3, <2>3, <3>2
  <2> QED BY <2>1, <2>2, <2>3
<1>6. Len(outcomes) + s.failed = taken
  <2>1. CASE status.kind = "EngineFailed" /\ baseline # NoValue
    BY <1>5, <2>1, AtTheEnd DEF Completed
  <2>2. CASE status.kind = "EngineFailed" /\ baseline = NoValue
    BY <1>5, <2>2, AtTheEnd
  <2>3. CASE status.kind # "EngineFailed"
    BY <1>5, <2>3, AtTheEnd DEF Completed
  <2> QED BY <2>1, <2>2, <2>3
<1>7. s.state = "completed" <=> CompletedBatch # NoValue
  <2>1. CASE status = Completed
    <3>1. baseline # NoValue /\ s.state = "completed"
      BY <1>3, <2>1, AtTheEnd, TerminalFields DEF Completed
    <3>2. CompletedBatch = [baseline |-> baseline, outcomes |-> outcomes]
      BY <2>1, <3>1 DEF CompletedBatch
    <3>3. CompletedBatch \in [baseline : Signatures, outcomes : Seq(Outcomes)]
      BY <3>1, <3>2 DEF Told, Inv, TypeOK
    <3> QED BY <3>1, <3>3, BatchAssumption
  <2>2. CASE status # Completed
    <3>1. CompletedBatch = NoValue
      BY <2>2 DEF CompletedBatch
    <3>2. status.kind \in {"Interrupted", "EngineFailed"}
      BY <2>2, AtTheEnd
    <3>3. s.state # "completed"
      BY <1>3, <3>2, TerminalFields
    <3> QED BY <3>1, <3>3
  <2> QED BY <2>1, <2>2
<1>8. s.state = "failed" <=> status.kind = "EngineFailed"
  <2>1. status.kind \in {"Completed", "Interrupted", "EngineFailed"}
    BY AtTheEnd DEF Completed
  <2> QED BY <1>3, <2>1, TerminalFields
<1>9. s.failed = failures /\ CandidatesCalled = taken
      /\ (status.kind = "EngineFailed" <=> \E i \in DOMAIN called : called[i].result \in Errors)
  BY <1>5, CallsAreCounted
<1>10. s.successful + s.failed = CandidatesCalled /\ s.neverStarted = Len(input) - CandidatesCalled
  BY <1>4, <1>6, <1>9
<1>11. s.state = "failed" <=> \E i \in DOMAIN called : called[i].result \in Errors
  BY <1>8, <1>9
<1> QED BY <1>1, <1>7, <1>9, <1>10, <1>11, RecordIsAccepted, Zenon

(* The report is told the same way to the progress callback and to the     *)
(* readers of its record, which accept it.                                 *)
THEOREM ReportIsAlwaysTold == Spec => []ReportIsTold
<1>1. Told => ReportIsTold
  BY RecordTells DEF Told, ReportIsTold
<1> QED BY <1>1, ToldHolds, PTL

=============================================================================
