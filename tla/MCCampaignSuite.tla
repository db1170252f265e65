-------------------------- MODULE MCCampaignSuite --------------------------
(* CampaignSuite for TLC: two campaigns of two policies, three exports. *)
EXTENDS CampaignSuite

MCPolicies == <<"lru", "random_seeded">>
MCRetainCounts == <<1, 2>>

Observed(baseline, candidate) ==
  <<[name |-> 1, unit |-> "nats", kind |-> "quality", preference |-> "lower_is_better",
     baseline |-> baseline, candidate |-> candidate, delta |-> candidate - baseline]>>

\* A first export, one with another candidate, one with another baseline.
MCExports ==
  <<<<Observed(0, 2), Observed(0, 3)>>, <<Observed(0, 2), Observed(0, 4)>>,
    <<Observed(1, 2), Observed(1, 3)>>>>

MCRewrites == {<<1, 2>>, <<1, 3>>, <<1, 0>>, <<0, 1>>}

\* A file that is missing, no file, larger than a file may be, larger than it
\* says, larger than the budget allows for, or written in another way.
MCDamages ==
  {[type |-> "absent"], [type |-> "link"], [type |-> "file"],
   [size |-> 3, advertised |-> 3], [size |-> 3], [size |-> 2, advertised |-> 2]}
  \cup {[form |-> form] : form \in (Forms \ {"good"}) \cup {"binary"}}
=============================================================================
