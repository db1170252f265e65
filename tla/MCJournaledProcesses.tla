------------------------ MODULE MCJournaledProcesses ------------------------
(* TLC instance: a run of a bundle of three candidates, and a continuation *)
(* of one that stopped open after its baseline or after one success.       *)
EXTENDS JournaledProcesses

CONSTANTS a, b, d, p0, same, s1

MCScenarios == <<a, b, d>>
MCLimits == {0, 1, 3}

(* A parent's events so far, as the log they make.                         *)
EventsBy(k) ==
  LET header == [run |-> p0, bundle |-> MCScenarios, identity |-> same,
                 limit |-> 3, deadline |-> FALSE]
      all == <<Initialized(header), CallStarted(Baseline), CallSucceeded(Baseline, Encode(s1)),
               CallStarted(a), CallSucceeded(a, Encode(s1))>>
  IN SubSeq(all, 1, 3 + 2 * k)
Log(k) ==
  [lines |-> [i \in 1 .. 3 + 2 * k |->
                Entry(i - 1, IF i = 1 THEN NoValue ELSE <<i - 2, EventsBy(k)[i - 1]>>, EventsBy(k)[i])],
   torn |-> FALSE]

MCLogs == { Log(k) : k \in 0 .. 1 }
MCPlans == { Prepare(log, Expectations(p0, log, same, "PureIndependent"), same) : log \in MCLogs }
=============================================================================
