---------------------------- MODULE EngineLedger ----------------------------
(***************************************************************************)
(* What a run and its continuation promise together, in terms of what the  *)
(* engine saw: the baseline and then every candidate are called in the     *)
(* bundle's order, each at most once, none after a call that failed or     *)
(* whose result is not known; and at most one batch is ever released for   *)
(* ranking, when every call has returned, with exactly the returned values. *)
(* Processes, journals, crashes and plans are not mentioned.               *)
(***************************************************************************)
EXTENDS Naturals, Sequences

CONSTANTS Order, Signatures, EngineErrors, NoValue

VARIABLES
  engine,    \* the calls so far: [target, result]
  released   \* the batch handed to metrics and policies, or NoValue

Init == engine = <<>> /\ released = NoValue

Call ==
  /\ Len(engine) < Len(Order)
  /\ \A i \in DOMAIN engine : engine[i].result \in Signatures
  /\ engine' = Append(engine, [target |-> Order[Len(engine) + 1], result |-> NoValue])
  /\ UNCHANGED released

Return ==
  /\ Len(engine) > 0 /\ engine[Len(engine)].result = NoValue
  /\ \E value \in Signatures \cup EngineErrors :
       engine' = [engine EXCEPT ![Len(engine)].result = value]
  /\ UNCHANGED released

Release ==
  /\ released = NoValue
  /\ Len(engine) = Len(Order)
  /\ \A i \in DOMAIN engine : engine[i].result \in Signatures
  /\ released' =
       [baseline |-> engine[1].result,
        outcomes |-> [i \in 1 .. Len(Order) - 1 |->
                        [scenario |-> Order[i + 1], signature |-> engine[i + 1].result]]]
  /\ UNCHANGED engine

Next == Call \/ Return \/ Release

Spec == Init /\ [][Next]_<<engine, released>>
=============================================================================
