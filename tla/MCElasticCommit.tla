--------------------------- MODULE MCElasticCommit ---------------------------
(* TLC instance: two resources that declare different candidates, probe    *)
(* sets of up to two probes in either order, a re-probed set that binds    *)
(* the same id to another plan or rollback, and plans with each defect.    *)
EXTENDS ElasticCommit

CONSTANTS grow, shrink, undo, keep

Small == [name |-> "small", declares |-> {grow}]
Large == [name |-> "large", declares |-> {grow, shrink}]

MCSignatures == 0 .. 2
MCPolicies == { [s \in MCSignatures |-> s], [s \in MCSignatures |-> 2 - s],
                [s \in MCSignatures |-> IF s = 2 THEN 2 ELSE 1] }

Aim(id, resource, candidate, rollback) ==
  [id |-> id, plan |-> [resource |-> resource, candidate |-> candidate], rollback |-> rollback]

A == Aim(1, Small, grow, undo)
B == Aim(3, Large, shrink, keep)

MCProbeInputs ==
  { [baseline |-> 2, probes |-> s] :
      s \in { <<>>, <<A>>, <<A, B>>, <<B, A>>, <<A, A>>, <<Aim(2, Small, grow, undo)>>,
              <<Aim(1, Large, grow, undo)>>, <<Aim(1, Small, grow, keep), B>> } }
  \cup {[baseline |-> 3, probes |-> <<A>>]}

Ready(resource, candidate) == [validated |-> TRUE, candidate |-> candidate, resource |-> resource]

MCPlans ==
  { Ready(Small, grow), Ready(Large, grow), Ready(Large, shrink), Ready(Small, shrink),
    Ready(Small, NoValue), [Ready(Small, grow) EXCEPT !.validated = FALSE] }
=============================================================================
