--------------------------- MODULE BatchContract ---------------------------
(***************************************************************************)
(* What a controlled batch evaluation promises its caller, whichever       *)
(* engine runs it: calls are issued one at a time, the baseline first, at  *)
(* most `limit` candidates; the first call that fails decides the verdict; *)
(* otherwise the evaluation may be interrupted between calls and is        *)
(* complete exactly when every call has been answered.  Nothing is said of *)
(* clocks, tokens, callbacks or values.                                    *)
(***************************************************************************)
EXTENDS Naturals

VARIABLES
  size,      \* candidates in the batch; size, limit and unique never change
  limit,     \* candidate quota
  unique,    \* no scenario id is repeated
  issued,    \* engine calls begun
  answered,  \* engine calls that returned a signature
  verdict    \* "open", or the terminal state of the report

request == <<size, limit, unique>>
contract == <<request, issued, answered, verdict>>

Open == verdict = "open"

Init ==
  /\ size \in Nat /\ limit \in Nat /\ unique \in BOOLEAN
  /\ issued = 0 /\ answered = 0 /\ verdict = "open"

(* The next call, when the previous one has been answered.                 *)
Issue ==
  /\ Open /\ unique /\ issued = answered
  /\ issued <= size /\ issued <= limit
  /\ size > 0 => limit > 0
  /\ issued' = issued + 1
  /\ UNCHANGED <<request, answered, verdict>>

Answer ==
  /\ Open /\ answered < issued
  /\ answered' = issued
  /\ UNCHANGED <<request, issued, verdict>>

Fail ==
  /\ Open /\ answered < issued
  /\ verdict' = "Failed"
  /\ UNCHANGED <<request, issued, answered>>

Interrupt ==
  /\ Open /\ unique /\ issued = answered
  /\ verdict' = "Interrupted"
  /\ UNCHANGED <<request, issued, answered>>

Complete ==
  /\ Open /\ unique /\ issued = answered /\ answered = size + 1
  /\ verdict' = "Completed"
  /\ UNCHANGED <<request, issued, answered>>

Reject ==
  /\ Open /\ ~unique
  /\ verdict' = "Rejected"
  /\ UNCHANGED <<request, issued, answered>>

Next == Issue \/ Answer \/ Fail \/ Interrupt \/ Complete \/ Reject

Spec == Init /\ [][Next]_contract
=============================================================================
