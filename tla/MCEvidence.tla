--------------------------- MODULE MCEvidence ---------------------------
(* TLC instance of decisions and their evidence: up to three scenarios, two *)
(* objectives of opposite directions, vectors with every structural defect, *)
(* two traces, and one edit of a text.                                     *)
EXTENDS Evidence

CONSTANTS a, b, d, utility, cost, t1, t2, m1, r1, r2

MCBatches == {<<>>, <<a>>, <<a, b>>, <<b, a, d>>, <<a, a>>}
MCObjectiveIds == {utility, cost, Blank}

Max1(id, value) == [id |-> id, direction |-> "Maximize", value |-> value]
Min1(id, value) == [id |-> id, direction |-> "Minimize", value |-> value]

MCWellFormed == { <<Max1(utility, u), Min1(cost, c)>> : u \in 0 .. 1, c \in 0 .. 1 }
                  \cup { <<Max1(utility, 2), Min1(cost, 1)>> }
MCDefective ==
  { <<>>, <<Max1(Blank, 0)>>, <<Max1(utility, 0), Min1(utility, 0)>>,
    <<Max1(utility, 0)>>, <<Max1(utility, 0), Max1(cost, 0)>>, <<Min1(cost, 0), Max1(utility, 1)>> }
MCVectors == MCWellFormed \cup MCDefective

(* Scenario d does what a does, b something else; in one list it does not. *)
Plain(ids) == [i \in DOMAIN ids |->
                 [id |-> ids[i], intervention |-> IF ids[i] = b THEN 2 ELSE 1]]
MCScenarioLists ==
  { Plain(ids) : ids \in MCBatches }
    \cup { <<[id |-> a, intervention |-> 2]>>, Plain(<<b, a>>),
           <<[id |-> a, intervention |-> 3], [id |-> b, intervention |-> 2]>> }

(* Two states; the engine does not know the third intervention of one.     *)
MCEngines ==
  { [baseline |-> 0, evaluate |-> <<1, 2, 1>>], [baseline |-> 1, evaluate |-> <<2, 0, Failure>>] }

MCSourceLists == {<<>>, <<2, 1>>, <<1, 1>>}
MCMetrics == {m1, Blank}
MCRuns == {r1}

(* One edit: another form of the same values, or one field replaced.       *)
Swap(seq) == IF Len(seq) < 2 THEN seq ELSE <<seq[2], seq[1]>> \o SubSeq(seq, 3, Len(seq))
Lists(seq) == {Swap(seq), Append(seq, seq[Len(seq)]), Tail(seq)}
MCEdits(text) ==
  { [text EXCEPT !.form = form] : form \in {"noncanonical", "shape", "schema"} }
    \cup { [text EXCEPT !.run = run] : run \in {r2, Blank} }
    \cup { [text EXCEPT !.sources = sources] : sources \in {Swap(text.sources), <<0>>, <<1, 1>>} }
    \cup (IF kind = "scores" THEN
            (IF text.candidates = <<>> THEN {}
             ELSE { [text EXCEPT !.candidates = c] : c \in Lists(text.candidates) }
                    \cup { [text EXCEPT !.candidates[1].id = Blank],
                           [text EXCEPT !.candidates[1].score = <<7, 7>>] })
             \cup { [text EXCEPT !.selected = id] : id \in {a, b, d, NoValue, Blank} }
          ELSE IF kind = "matrix" THEN
            { [text EXCEPT !.ids = ids] : ids \in Lists(text.ids) }
             \cup { [text EXCEPT !.traces = rows] : rows \in Lists(text.traces) }
             \cup { [text EXCEPT !.traces[1].scores = row] : row \in Lists(text.traces[1].scores) }
             \cup { [text EXCEPT !.traces[1].trace = t] : t \in {t2, Blank} }
             \cup { [text EXCEPT !.metric = Blank], [text EXCEPT !.ids[1] = Blank] }
          ELSE
            { [text EXCEPT !.alternatives = as] : as \in Lists(text.alternatives) }
             \cup { [text EXCEPT !.selected = id] : id \in {Baseline, a, b, d, NoValue, Blank} }
             \cup (IF text.front = <<>> THEN {[text EXCEPT !.front = <<a>>]}
                   ELSE { [text EXCEPT !.front = f] : f \in Lists(text.front) })
             \cup UNION { { [text EXCEPT !.alternatives[i].objectives = vector] :
                            vector \in MCDefective \cup {<<Max1(utility, 2), Min1(cost, 0)>>} } :
                          i \in { i \in {Len(text.alternatives)} :
                                    text.alternatives[i].objectives # NoValue } })
=============================================================================
