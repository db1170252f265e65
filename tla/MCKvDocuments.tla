--------------------------- MODULE MCKvDocuments ---------------------------
(* KvDocuments for TLC: caches of at most three tokens, two changed fields. *)
EXTENDS KvDocuments

CONSTANT pol1, pol2

MCInputs == {<< >>, <<1>>, <<2, 1>>, <<1, 1>>, <<3, 1, 2>>}
MCBytesPerToken == {0, 1, 3}
MCPolicies == {pol1, Blank}
\* Losing 7 loses more than a number can hold; then: two norms that do; a part of a
\* sum that does, of a sum that does not; an output that does; two components.
MCRegions ==
  {<<(<<x>>), (<<3>>), (<<z>>)>> : x \in {1, -2}, z \in {-1, 7}}
  \cup {<<(<<1>>), (<<-6>>), (<<7>>)>>, <<(<<16>>), (<<-5>>), (<<16>>)>>,
        <<(<<20>>), (<<20>>), (<<-20>>)>>, <<(<<1, 2>>), (<<-1, 3>>), (<<4, 1>>)>>}
MCKinds == {"eviction", "selection", "position", "effect", "heuristics", "campaign",
            "bikvHandoff", "routing", "executed"} \cup Families
MCSelectionRecordOnly == {"selectionRecord"}

Observation(c, keep, policy, base, cand, delta, swapped) ==
  [context |-> c, keep |-> keep, policy |-> policy, baseline |-> base,
   candidate |-> cand, delta |-> delta, swapped |-> swapped]

\* Baselines zero, one and two tolerances apart; two budgets; two policies.
MCObservations ==
  {Observation("here", keep, pol, base, base + 2, 2, FALSE) :
     keep \in {1, 2}, pol \in {pol1, pol2}, base \in {0, 1, 2}}
  \cup {Observation("here", 2, pol, 0, 2, 2, TRUE) : pol \in {pol1, pol2}}
  \cup {Observation("here", 3, pol1, 0, 0, 0, FALSE),
        Observation("elsewhere", 2, pol2, 0, 2, 2, FALSE)}

\* Routers of two bits and up to three pages.
MCRouters ==
  {[state |-> [bits |-> 2, query |-> {0}, keys |-> keys], distance |-> d] :
     keys \in {<<{0}>>, <<{1}, {0}>>, <<{0, 1}, {}, {1}>>}, d \in 0..2}

\* A cache of four tokens on pages of three, so that its last page holds one.
Measurement(pages, distance, medians, environment, correct, quality) ==
  [live |-> 4, page |-> 3, pages |-> pages, distance |-> distance, candidate |-> medians[1],
   dense |-> medians[2], environment |-> environment, correct |-> correct, quality |-> quality]
MCMeasurements ==
  {Measurement({1}, d, medians, "here", TRUE, TRUE) :
     d \in {1, 2}, medians \in {<<1, 2>>, <<2, 4>>, <<2, 3>>}}
  \cup {Measurement({0}, 3, <<3, 3>>, "here", TRUE, TRUE),
        Measurement({0, 1}, 3, <<1, 3>>, "here", TRUE, FALSE),
        Measurement({}, 3, <<1, 3>>, "here", FALSE, TRUE),
        Measurement({0}, 3, <<1, 4>>, "elsewhere", TRUE, TRUE)}

Change(t, f, values) == {[t EXCEPT ![f] = v] : v \in values}

FormEdits(t) == Change(t, "form", Forms)

\* Small sequences of tokens or positions.
Parts == {<< >>, <<0>>, <<1>>, <<2>>, <<0, 1>>, <<1, 0>>, <<1, 2>>, <<2, 1>>,
          <<0, 0>>, <<1, 1>>, <<3, 1>>, <<0, 1, 2>>, <<0, 1, 2, 3>>}

HandoffEdits(t) ==
  UNION {FormEdits(t), Change(t, "input", MCInputs),
         Change(t, "bytesPerToken", MCBytesPerToken),
         Change(t, "retained", Parts), Change(t, "evicted", Parts),
         Change(t, "inputBytes", {0, 2, 6}), Change(t, "retainedBytes", {0, 2, 6}),
         Change(t, "evictedBytes", {0, 2, 6})}

Shift(v) == {[v EXCEPT ![1] = @ + d] : d \in {-2, -1, 1}}

RegionEdits(t) ==
  UNION {{[t EXCEPT !.regions[i] = r] :
            r \in UNION {Change(t.regions[i], "token", {1, 3}),
                         Change(t.regions[i], "id", {1, Blank}),
                         Change(t.regions[i], "storage", {0, 2}),
                         Change(t.regions[i], "contribution", {<< >>, <<1>>, <<1, 1>>})}} :
         i \in DOMAIN t.regions}

EffectEdits(t) ==
  UNION {FormEdits(t), Change(t, "trace", {Blank}), RegionEdits(t),
         Change(t, "regions", {<< >>, SelectSeq(t.regions, LAMBDA r : r.id # 3), Reverse(t.regions)}),
         Change(t, "retainedIds", {<<2>>, <<2, 3>>, <<3, 2>>}),
         Change(t, "evictedIds", {<< >>, <<1>>, <<2>>}),
         Change(t, "full", Shift(t.full)), Change(t, "retained", Shift(t.retained)),
         Change(t, "delta", {-1, t.delta + 1, t.delta + 2, t.delta - 1}),
         Change(t, "evictedBytes", {0, 1}),
         Change(t, "eviction", {EvictionText(<<2, 1, 3>>, 1, n) : n \in {0, 1, 3}})}

ResultEdits(r) ==
  UNION {Change(r, "policy", {"lru", "random", "best_guess"}),
         Change(r, "retainedIds", {<<1, 3>>, <<1, 2>>, <<2>>, <<1, 1>>, <<1, 4>>, <<3, 2>>, <<1, 2, 3>>}),
         Change(r, "retainedBytes", {1, 3}), Change(r, "unusedBytes", {0, 1}),
         Change(r, "delta", {-1, 0, r.delta + 1, r.delta + 2})}

HeuristicsEdits(t) ==
  UNION {FormEdits(t), Change(t, "best", DOMAIN NameRank \cup {"best_guess"}),
         Change(t, "budget", {1, 3}), Change(t, "results", {SelectSeq(t.results, LAMBDA r : r.policy # "random")}),
         UNION {{[t EXCEPT !.results[i] = r] : r \in ResultEdits(t.results[i])} : i \in DOMAIN t.results}}

MetricEdits(m) ==
  UNION {Change(m, "name", {0, 1}), Change(m, "unit", {Blank}),
         Change(m, "kind", {"hunch"}), Change(m, "preference", {"either"}),
         Change(m, "baseline", {0, 1, -20}), Change(m, "candidate", {0, 1, 20}),
         Change(m, "delta", {0, 1, 3, 20})}

RecordEdits(t) ==
  UNION {FormEdits(t), Change(t, "context", {Blank}), Change(t, "revision", {NotHex}),
         Change(t, "trace", {NotHex}), Change(t, "baselineOutput", {NotHex}),
         Change(t, "candidateOutput", {NotHex}), Change(t, "baselineBytes", {0, 3}),
         Change(t, "candidateBytes", {0, 3}), Change(t, "metrics", {<< >>}),
         Change(t, "handoff", Change(t.handoff, "bytesPerToken", {0, 2})),
         UNION {{[t EXCEPT !.metrics[i] = m] : m \in MetricEdits(t.metrics[i])} :
                i \in DOMAIN t.metrics}}

CampaignEdits(t) ==
  UNION {FormEdits(t), Change(t, "context", {Blank}), Change(t, "revision", {NotHex}),
         Change(t, "bytesPerToken", MCBytesPerToken), Change(t, "input", MCInputs),
         Change(t, "evaluation", {<< >>, <<1>>}),
         Change(t, "selections", {<< >>, Reverse(t.selections), t.selections \o t.selections}),
         UNION {{[t EXCEPT !.selections[i] = s] :
                   s \in Change(t.selections[i], "policy", {Blank, "lru"})
                           \cup Change(t.selections[i], "positions", Parts)} :
                i \in DOMAIN t.selections}}

StateEdits(s) ==
  UNION {Change(s, "bits", {0, 1, 3}), Change(s, "query", {{}, {1}, {2}}),
         Change(s, "keys", {<< >>, <<{0}, {2}>>, <<{1}, {1}, {0}>>})}

BikvHandoffEdits(t) ==
  UNION {FormEdits(t), Change(t, "distance", 0..3), Change(t, "admitted", Parts),
         Change(t, "state", StateEdits(t.state) \cup Change(t.state, "query", {NotHex})
                              \cup Change(t.state, "keys", {<<NotHex>>, <<{0}, NotHex>>}))}

RoutingEdits(t) ==
  UNION {FormEdits(t), Change(t, "run", {Blank}), Change(t, "revision", {"other"}),
         Change(t, "state", StateEdits(t.state)),
         Change(t, "mode", {Dense} \cup {Hamming(d) : d \in 0..3}),
         Change(t, "mask", {{}, {0}, {1}, {0, 1}}), Change(t, "admitted", Parts),
         Change(t, "bytes", {0, 16})}

ManifestEdits(m) ==
  UNION {Change(m, "commit", {NotHex, "other"}), Change(m, "id", {Blank, "dense"}),
         Change(m, "environment", {Blank, "elsewhere"}), Change(m, "iterations", {0, 1}),
         Change(m, "problem", Change(m.problem, "kvHeads", {0, 3})
                                \cup Change(m.problem, "kvLen", {0, 3})),
         Change(m, "result", {[median |-> 0, p95 |-> 0], [median |-> 2, p95 |-> 1]}),
         {[m EXCEPT !.result = r, !.sum = Fnv(r)] :
            r \in {[median |-> 0, p95 |-> 0], [median |-> 2, p95 |-> 1], [median |-> 2, p95 |-> 2]}},
         Change(m, "sum", {Unknown, NotHex})}

AccountingEdits(a) ==
  UNION {Change(a, "live", {0, 3}), Change(a, "selected", 0..5), Change(a, "pages", {0, 1, 3}),
         Change(a, "selectedPages", 0..3), Change(a, "page", {0, 2, 4, 6}),
         Change(a, "kvHeads", {2}), Change(a, "headDim", {2}), Change(a, "scalarBytes", {0, 2}),
         Change(a, "index", {0}),
         UNION {Change(a, "bytes", Change(a.bytes, f, {0, 2, 8})) : f \in DOMAIN a.bytes}}

\* Most changes are followed by computing the checksum again.
ExecutedEdits(t) ==
  LET changed ==
        UNION {FormEdits(t), Change(t, "candidate", ManifestEdits(t.candidate)),
               Change(t, "dense", ManifestEdits(t.dense)), Change(t, "bits", {0, 1}),
               Change(t, "policy", {Blank}),
               Change(t, "scope", Change(t.scope, "timing", {Blank})
                                    \cup Change(t.scope, "residentOnly", {TRUE})),
               Change(t, "accounting", AccountingEdits(t.accounting)),
               Change(t, "phases", Change(t.phases, "dense", {2})
                                     \cup Change(t.phases, "sum", {0, 3})
                                     \cup Change(t.phases, "parts", {<<0, 0, 0, 0>>, <<8, 1, 0, 0>>})),
               Change(t, "gates", UNION {Change(t.gates, g, BOOLEAN) : g \in DOMAIN t.gates}),
               Change(t, "decision", {"promote", "fallback_no_latency_win"})}
  IN  {Seal(c) : c \in changed}
        \cup Change(t, "sum", {Unknown, NotHex}) \cup Change(t, "decision", {"promote"})

MCFieldEdits(k, t) ==
  CASE k \in {"selection", "position"} -> HandoffEdits(t) \cup Change(t, "policy", {Blank})
    [] k = "eviction"    -> HandoffEdits(t) \cup Change(t, "maxTokens", 0..3)
                              \cup Change(t, "order", {"newest_first"})
    [] k = "effect"      -> EffectEdits(t)
    [] k = "heuristics"  -> HeuristicsEdits(t)
    [] k = "campaign"    -> CampaignEdits(t)
    [] k = "bikvHandoff" -> BikvHandoffEdits(t)
    [] k = "routing"     -> RoutingEdits(t)
    [] k = "executed"    -> ExecutedEdits(t)
    [] k \in Families    -> RecordEdits(t)
=============================================================================
