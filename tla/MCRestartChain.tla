-------------------------- MODULE MCRestartChain --------------------------
(* TLC instance of a run and its continuation over two candidates.         *)
EXTENDS RestartChain, TLC

CONSTANTS a, b, s1, s2

MCScenarios == <<a, b>>
MCLimits == {1, 2}
MCSignatures == {s1, s2}

(* Signatures are opaque: the two are interchangeable.                     *)
MCSymmetry == Permutations(MCSignatures)

(* The evaluator's histories of calls and callbacks are read by its own    *)
(* properties only: no step and no property here depends on their content. *)
MCView ==
  <<input, limit, deadline, cancelled, expired, pc, late, baseline, outcomes, taken,
    current, status, Len(called), wpc, event, sequence, previous, poisoned, error, next,
    crashed, parentFile, childFile, engine, chain>>
=============================================================================
