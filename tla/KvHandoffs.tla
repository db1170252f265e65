----------------------------- MODULE KvHandoffs -----------------------------
(***************************************************************************)
(* The three hand-off documents in which KVLab tells ProspectEngine which  *)
(* tokens of a KV cache a policy keeps: oldest-first eviction              *)
(* (prospect-kv), any selection by token id (prospect-kv-selection), any   *)
(* selection by position (prospect-kv-position).  Each reader replays the  *)
(* partition and the byte accounting from the input it was given.          *)
(*                                                                         *)
(* A token id is a natural, a position counts from 0, byte products are    *)
(* checked against the machine word, and a policy name is a value that may *)
(* be Blank.                                                               *)
(***************************************************************************)
EXTENDS Checks

CONSTANTS
  MaxWord,   \* the largest u64
  Blank      \* a text of white space only

ASSUME MaxWordAssumption == MaxWord \in Nat

Overflows(count, bytesPerToken) == count * bytesPerToken > MaxWord

LowestOf(S) == CHOOSE x \in S : \A y \in S : x <= y

-----------------------------------------------------------------------------
(* prospect-kv: evict the oldest tokens down to a limit.                   *)

EvictionErrors ==
  {"NonCanonicalJson", "Json", "UnsupportedSchema", "UnsupportedOrder",
   "ZeroBytesPerToken", "DuplicateTokenId", "ZeroMaxTokens",
   "LogicalByteOverflow", "ReplayMismatch", "DuplicateScenarioLimit",
   "NoEvictionScenario"}

EvictionStateChecks(input, bytesPerToken) ==
  << <<bytesPerToken = 0, "ZeroBytesPerToken">>,
     <<~Distinct(input), "DuplicateTokenId">> >>

LogicalOutcome(input, bytesPerToken, evictCount) ==
  [input    |-> input,
   retained |-> SubSeq(input, evictCount + 1, Len(input)),
   evicted  |-> SubSeq(input, 1, evictCount),
   bytesPerToken |-> bytesPerToken,
   inputBytes    |-> Len(input) * bytesPerToken,
   retainedBytes |-> (Len(input) - evictCount) * bytesPerToken,
   evictedBytes  |-> evictCount * bytesPerToken]

OldestFirst(input, bytesPerToken, maxTokens) ==
  LogicalOutcome(input, bytesPerToken,
                 IF Len(input) > maxTokens THEN Len(input) - maxTokens ELSE 0)

\* Fault: the evicted bytes are taken on trust.
ReplayedButEvictedBytes(text, outcome) ==
  /\ text.retained = outcome.retained
  /\ text.evicted = outcome.evicted
  /\ text.inputBytes = outcome.inputBytes
  /\ text.retainedBytes = outcome.retainedBytes

\* The fields of the document that the replay must reproduce.
Replayed(text, outcome) ==
  /\ text.retained = outcome.retained
  /\ text.evicted = outcome.evicted
  /\ text.inputBytes = outcome.inputBytes
  /\ text.retainedBytes = outcome.retainedBytes
  /\ text.evictedBytes = outcome.evictedBytes

EvictionError(text) ==
  FirstError(
    FormChecks(text)
    \o << <<text.order # "oldest_first", "UnsupportedOrder">> >>
    \o EvictionStateChecks(text.input, text.bytesPerToken)
    \o << <<text.maxTokens = 0, "ZeroMaxTokens">>,
          <<Overflows(Len(text.input), text.bytesPerToken), "LogicalByteOverflow">>,
          <<~Replayed(text, OldestFirst(text.input, text.bytesPerToken, text.maxTokens)),
            "ReplayMismatch">> >>)

\* What a reader keeps of an accepted document.
Eviction(text) ==
  [state   |-> [input |-> text.input, bytesPerToken |-> text.bytesPerToken],
   outcome |-> OldestFirst(text.input, text.bytesPerToken, text.maxTokens)]

\* The scenarios offered for a state: one per distinct limit that evicts.
RetentionError(input, limits) ==
  FirstError(<< <<0 \in Elements(limits), "ZeroMaxTokens">>,
                <<~Distinct(limits), "DuplicateScenarioLimit">>,
                <<\E n \in Elements(limits) : n >= Len(input), "NoEvictionScenario">> >>)

-----------------------------------------------------------------------------
(* prospect-kv-selection: any selection, told by token ids.                *)

SelectionErrors ==
  {"NonCanonicalJson", "Json", "UnsupportedSchema", "EmptyPolicy", "EmptyInput",
   "ZeroBytesPerToken", "DuplicateTokenId", "UnknownTokenId",
   "OverlappingPartition", "IncompletePartition", "OrderMismatch",
   "LogicalByteOverflow", "LogicalAccountingMismatch"}

\* The shared checks of the two selection documents before their partition.
SelectionStateChecks(text) ==
  << <<text.policy = Blank, "EmptyPolicy">>,
     <<text.input = << >>, "EmptyInput">>,
     <<text.bytesPerToken = 0, "ZeroBytesPerToken">> >>

\* The byte accounting of a selection that keeps so many tokens.
AccountingChecks(text, kept) ==
  << <<Overflows(Len(text.input), text.bytesPerToken), "LogicalByteOverflow">>,
     <<\/ text.inputBytes # Len(text.input) * text.bytesPerToken
       \/ text.retainedBytes # kept * text.bytesPerToken
       \/ text.evictedBytes # (Len(text.input) - kept) * text.bytesPerToken,
       "LogicalAccountingMismatch">> >>

SelectionError(text) ==
  LET input    == Elements(text.input)
      retained == Elements(text.retained)
      evicted  == Elements(text.evicted)
      bad      == {t \in retained : t \notin input \/ t \in evicted}
      InInputOrder(S) == SelectSeq(text.input, LAMBDA t : t \in S)
  IN  FirstError(
        FormChecks(text)
        \o SelectionStateChecks(text)
        \o << <<~Distinct(text.input) \/ ~Distinct(text.retained) \/ ~Distinct(text.evicted),
                "DuplicateTokenId">>,
              <<bad # {} /\ LowestOf(bad) \notin input, "UnknownTokenId">>,
              <<bad # {}, "OverlappingPartition">>,
              <<~(evicted \subseteq input), "UnknownTokenId">>,
              <<~(input \subseteq retained \cup evicted), "IncompletePartition">>,
              <<\/ text.retained # InInputOrder(retained)
                \/ text.evicted # InInputOrder(evicted), "OrderMismatch">> >>
        \o AccountingChecks(text, Len(text.retained)))

Selection(text) ==
  [state   |-> [input |-> text.input, bytesPerToken |-> text.bytesPerToken],
   outcome |-> [policy |-> text.policy,
                retained |-> text.retained, evicted |-> text.evicted,
                inputBytes |-> text.inputBytes,
                retainedBytes |-> text.retainedBytes,
                evictedBytes |-> text.evictedBytes]]

-----------------------------------------------------------------------------
(* prospect-kv-position: any selection, told by positions.                 *)

PositionErrors ==
  {"NonCanonicalJson", "Json", "UnsupportedSchema", "EmptyPolicy", "EmptyInput",
   "ZeroBytesPerToken", "InvalidPosition", "PositionOrderMismatch",
   "OverlappingPartition", "IncompletePartition", "NonCanonicalEvictedPositions",
   "LogicalByteOverflow", "LogicalAccountingMismatch"}

\* The first position that is out of range or not above the one before it.
PositionsChecks(positions, inputLen) ==
  LET bad == {i \in DOMAIN positions :
                \/ positions[i] >= inputLen
                \/ i > 1 /\ positions[i] <= positions[i - 1]}
  IN  << <<bad # {} /\ positions[LowestOf(bad)] >= inputLen, "InvalidPosition">>,
         <<bad # {}, "PositionOrderMismatch">> >>

PositionError(text) ==
  LET all      == [i \in 1..Len(text.input) |-> i - 1]
      retained == Elements(text.retained)
      evicted  == Elements(text.evicted)
  IN  FirstError(
        FormChecks(text)
        \o SelectionStateChecks(text)
        \o PositionsChecks(text.retained, Len(text.input))
        \o PositionsChecks(text.evicted, Len(text.input))
        \o << <<retained \cap evicted # {}, "OverlappingPartition">>,
              <<~(Elements(all) \subseteq retained \cup evicted), "IncompletePartition">>,
              <<text.evicted # SelectSeq(all, LAMBDA p : p \notin retained),
                "NonCanonicalEvictedPositions">> >>
        \o AccountingChecks(text, Len(text.retained)))

Position(text) ==
  LET TokensAt(positions) == [i \in DOMAIN positions |-> text.input[positions[i] + 1]]
  IN  [state   |-> [input |-> text.input, bytesPerToken |-> text.bytesPerToken],
       outcome |-> [policy |-> text.policy,
                    positions |-> text.retained,
                    retained |-> TokensAt(text.retained),
                    evicted |-> TokensAt(text.evicted),
                    inputBytes |-> text.inputBytes,
                    retainedBytes |-> text.retainedBytes,
                    evictedBytes |-> text.evictedBytes]]

-----------------------------------------------------------------------------
(***************************************************************************)
(* The two simulated KV documents of prospect-kv: the effect of one        *)
(* oldest-first eviction on a linear cache (synthetic_effect.rs), and five *)
(* retention heuristics compared on that cache under the byte budget the   *)
(* eviction left (heuristic_comparison.rs).                                *)
(*                                                                         *)
(* A region contributes a vector of integers; a distance is kept squared,  *)
(* which orders distances as the code does; two numbers agree when they    *)
(* differ by at most Tolerance.  A sum, difference or square that passes   *)
(* MaxFloat is Infinite, and stays so in what is computed from it: one     *)
(* value for both infinities, and for the not-a-number that two of them    *)
(* leave, which only an effect can meet and refuses as it does infinity.   *)
(***************************************************************************)

CONSTANTS
  Tolerance,
  MaxFloat,   \* the largest number of an f64
  Infinite    \* what is past it, and no integer

ASSUME FloatAssumption == Tolerance \in Nat /\ MaxFloat \in Nat /\ Infinite \notin Int

Rounded(x) == IF Magnitude(x) > MaxFloat THEN Infinite ELSE x

Plus(a, b)  == IF Infinite \in {a, b} THEN Infinite ELSE Rounded(a + b)
Minus(a, b) == IF Infinite \in {a, b} THEN Infinite ELSE Rounded(a - b)
Squared(x)  == IF x = Infinite THEN Infinite ELSE Rounded(x * x)

\* Added up in order: a partial sum that overflows is not taken back.
FloatSum(numbers) == FoldLeft(Plus, 0, numbers)

TotalOf(numbers) == FoldLeft(LAMBDA sum, x : sum + x, 0, numbers)

\* One number is less than another.
Below(a, b) == a # Infinite /\ (b = Infinite \/ a < b)

\* nearly_equal, of a finite number of a document and a computed one: when the
\* computed one is infinite, so is the tolerance, and infinity <= infinity.
Near(left, right) == right = Infinite \/ Magnitude(left - right) <= Tolerance

VectorNear(left, right) ==
  Len(left) = Len(right) /\ \A i \in DOMAIN left : Near(left[i], right[i])

\* The output of the cache that keeps these regions, by component.
OutputOf(regions, width) ==
  [k \in 1..width |->
     FloatSum([i \in DOMAIN regions |-> regions[i].contribution[k]])]

SquaredNorm(vector) == FloatSum([k \in DOMAIN vector |-> Squared(vector[k])])

SquaredDistance(full, part) ==
  SquaredNorm([k \in DOMAIN full |-> Minus(full[k], part[k])])

IdsOf(regions) == [i \in DOMAIN regions |-> regions[i].id]

-----------------------------------------------------------------------------
(* synthetic_effect.rs                                                     *)

EffectErrors ==
  {"NonCanonicalJson", "Json", "UnsupportedSchema", "EmptyTraceId", "EmptyRegions",
   "EmbeddedEviction", "RegionTokenOrderMismatch", "EmptyContribution",
   "EmptyRegionId", "DuplicateRegionId", "InvalidRegionStorage",
   "ContributionWidthMismatch", "NonFiniteValue", "RetainedRegionsMismatch",
   "EvictedRegionsMismatch", "FullOutputMismatch", "RetainedOutputMismatch",
   "L2DeltaMismatch", "LogicalEvictedBytesMismatch"}

\* One region bound to the token at its place.
RegionError(regions, i, state) ==
  LET region == regions[i]
  IN  FirstError(
        << <<region.token # state.input[i], "RegionTokenOrderMismatch">>,
           <<region.id = Blank, "EmptyRegionId">>,
           <<\E j \in 1..(i - 1) : regions[j].id = region.id, "DuplicateRegionId">>,
           <<region.storage = 0 \/ region.storage # state.bytesPerToken,
             "InvalidRegionStorage">>,
           <<region.contribution = << >>, "EmptyContribution">>,
           <<Len(region.contribution) # Len(regions[1].contribution),
             "ContributionWidthMismatch">> >>)

RegionsError(regions, state) ==
  IF Len(regions) # Len(state.input)
  THEN "RegionTokenOrderMismatch"
  ELSE FirstOf(<<IF regions[1].contribution = << >> THEN "EmptyContribution" ELSE NoError>>
               \o [i \in DOMAIN regions |-> RegionError(regions, i, state)])

\* What the reader computes from the regions and the eviction alone.
ReplayEffect(regions, outcome) ==
  LET width    == Len(regions[1].contribution)
      Bound(tokens) == [i \in DOMAIN tokens |->
                          CHOOSE r \in Elements(regions) : r.token = tokens[i]]
      retained == Bound(outcome.retained)
      full     == OutputOf(regions, width)
      kept     == OutputOf(retained, width)
  IN  [retainedIds |-> IdsOf(retained),
       evictedIds  |-> IdsOf(Bound(outcome.evicted)),
       full        |-> full,
       retained    |-> kept,
       delta       |-> SquaredDistance(full, kept)]

EffectReplayError(text) ==
  LET outcome == Eviction(text.eviction).outcome
      replay  == ReplayEffect(text.regions, outcome)
  IN  FirstError(
        << <<replay.delta = Infinite, "NonFiniteValue">>,
           <<text.retainedIds # replay.retainedIds, "RetainedRegionsMismatch">>,
           <<text.evictedIds # replay.evictedIds, "EvictedRegionsMismatch">>,
           <<~VectorNear(text.full, replay.full), "FullOutputMismatch">>,
           <<~VectorNear(text.retained, replay.retained), "RetainedOutputMismatch">>,
           <<text.delta < 0 \/ ~Near(text.delta, replay.delta), "L2DeltaMismatch">>,
           <<text.evictedBytes # outcome.evictedBytes, "LogicalEvictedBytesMismatch">> >>)

EffectError(text) ==
  LET early == FirstError(
                 FormChecks(text)
                 \o << <<text.trace = Blank, "EmptyTraceId">>,
                       <<text.regions = << >>, "EmptyRegions">>,
                       <<EvictionError(text.eviction) # NoError, "EmbeddedEviction">> >>)
      regions == RegionsError(text.regions, Eviction(text.eviction).state)
  IN  IF early # NoError THEN early
      ELSE IF regions # NoError THEN regions
      ELSE EffectReplayError(text)

\* Fault: the stated distance is kept.
EffectAsStated(text) ==
  LET eviction == Eviction(text.eviction)
      replay   == ReplayEffect(text.regions, eviction.outcome)
  IN  [regions |-> text.regions, eviction |-> eviction,
       retainedIds |-> replay.retainedIds, evictedIds |-> replay.evictedIds,
       signature |-> [trace |-> text.trace, full |-> replay.full,
                      retained |-> replay.retained, delta |-> text.delta,
                      evictedBytes |-> eviction.outcome.evictedBytes]]

\* What is kept: the replayed numbers, not the ones the document states.
Effect(text) ==
  LET eviction == Eviction(text.eviction)
      replay   == ReplayEffect(text.regions, eviction.outcome)
  IN  [regions |-> text.regions, eviction |-> eviction,
       retainedIds |-> replay.retainedIds, evictedIds |-> replay.evictedIds,
       signature |-> [trace |-> text.trace, full |-> replay.full,
                      retained |-> replay.retained, delta |-> replay.delta,
                      evictedBytes |-> eviction.outcome.evictedBytes]]

\* SyntheticKvEvictionEvidenceModel: effects looked up by state and outcome.
EffectModelError(effects) ==
  FirstError(<< <<effects = << >>, "EmptyEvidence">>,
                <<~Distinct([i \in DOMAIN effects |-> effects[i].eviction]),
                  "DuplicateOutcome">> >>)

EffectFor(effects, eviction) ==
  LET hits == SelectSeq(effects, LAMBDA e : e.eviction = eviction)
  IN  IF hits = << >> THEN "MissingEvidence" ELSE hits[1].signature

-----------------------------------------------------------------------------
(* heuristic_comparison.rs                                                 *)

\* The order in which a document lists the heuristics...
PolicyOrder ==
  <<"oldest_first", "lru", "magnitude", "synthetic_sensitivity_per_byte", "random">>

\* ... and the order of their names, which breaks ties.
NameRank ==
  [lru |-> 1, magnitude |-> 2, oldest_first |-> 3, random |-> 4,
   synthetic_sensitivity_per_byte |-> 5]

ComparisonErrors ==
  {"NonCanonicalJson", "Json", "UnsupportedSchema", "Effect", "BudgetMismatch",
   "InvalidResultCount", "UnknownPolicy", "PolicyOrderMismatch",
   "DuplicateRetainedRegion", "UnknownRetainedRegion", "RetainedBytesOverflow",
   "RetainedBytesMismatch", "BudgetExceeded", "UnusedBytesMismatch",
   "L2DeltaMismatch", "OldestFirstMismatch", "LruMismatch", "MagnitudeMismatch",
   "SensitivityMismatch", "BestPolicyMismatch"}

\* Keep regions in the given order while they fit; told in cache order.
Greedy(regions, order, budget) ==
  LET Take(kept, i) ==
        IF TotalOf([k \in DOMAIN kept |-> regions[kept[k]].storage]) + regions[i].storage
             <= budget
        THEN Append(kept, i) ELSE kept
      taken == Elements(FoldLeft(Take, << >>, order))
  IN  SelectSeq(IdsOf(regions), LAMBDA id : \E i \in taken : regions[i].id = id)

GreedyLru(regions, budget) ==
  Greedy(regions, Reverse([i \in DOMAIN regions |-> i]), budget)

\* Ranked by a score, ties in cache order; above are the pairs of which the first
\* region has the higher score.
GreedyRanked(regions, budget, above) ==
  LET Before(i, j) == <<i, j>> \in above \/ (<<j, i>> \notin above /\ i < j)
  IN  Greedy(regions, SetToSortSeq(DOMAIN regions, Before), budget)

GreedyMagnitude(regions, budget) ==
  GreedyRanked(regions, budget,
    {p \in (DOMAIN regions) \X (DOMAIN regions) :
       Below(SquaredNorm(regions[p[2]].contribution),
             SquaredNorm(regions[p[1]].contribution))})

GreedySensitivity(regions, budget) ==
  LET Weighed(i, j) ==
        LET norm == SquaredNorm(regions[i].contribution)
        IN  IF norm = Infinite THEN Infinite
            ELSE norm * regions[j].storage * regions[j].storage
  IN  GreedyRanked(regions, budget,
        {p \in (DOMAIN regions) \X (DOMAIN regions) :
           Below(Weighed(p[2], p[1]), Weighed(p[1], p[2]))})

\* The regions a result names, in its order, and what keeping them costs.
Named(ids, regions) ==
  LET known == SelectSeq(ids, LAMBDA id : id \in Elements(IdsOf(regions)))
  IN  [k \in DOMAIN known |-> CHOOSE r \in Elements(regions) : r.id = known[k]]

ResultBytes(result, regions) ==
  TotalOf([i \in DOMAIN Named(result.retainedIds, regions) |->
             Named(result.retainedIds, regions)[i].storage])

\* Of an effect that was accepted, so that its outputs are finite; it may be
\* Infinite itself.
ResultDelta(result, effect) ==
  LET width == Len(effect.signature.full)
  IN  SquaredDistance(effect.signature.full,
                      OutputOf(Named(result.retainedIds, effect.regions), width))

\* Nothing asks that the recomputed distance be finite.
ResultError(result, budget, effect) ==
  LET known == Elements(IdsOf(effect.regions))
      bytes == ResultBytes(result, effect.regions)
      bad   == {k \in DOMAIN result.retainedIds :
                  \/ result.retainedIds[k] \notin known
                  \/ \E j \in 1..(k - 1) : result.retainedIds[j] = result.retainedIds[k]}
  IN  FirstError(
        << <<bad # {} /\ result.retainedIds[LowestOf(bad)] \in known,
             "DuplicateRetainedRegion">>,
           <<bad # {}, "UnknownRetainedRegion">>,
           <<bytes > MaxWord, "RetainedBytesOverflow">>,
           <<bytes # result.retainedBytes, "RetainedBytesMismatch">>,
           <<bytes > budget, "BudgetExceeded">>,
           <<result.unusedBytes # budget - bytes, "UnusedBytesMismatch">>,
           <<result.delta < 0 \/ ~Near(result.delta, ResultDelta(result, effect)),
             "L2DeltaMismatch">> >>)

\* What is deterministic is replayed; only the random policy is not.
SelectionsChecks(results, effect, budget) ==
  << <<results[1].retainedIds # effect.retainedIds, "OldestFirstMismatch">>,
     <<results[2].retainedIds # GreedyLru(effect.regions, budget), "LruMismatch">>,
     <<results[3].retainedIds # GreedyMagnitude(effect.regions, budget),
       "MagnitudeMismatch">>,
     <<results[4].retainedIds # GreedySensitivity(effect.regions, budget),
       "SensitivityMismatch">> >>

\* The least distance, ties by name.
BestPolicy(results, effect) ==
  LET Delta(i) == ResultDelta(results[i], effect)
      Rank(i)  == NameRank[results[i].policy]
      best == CHOOSE i \in DOMAIN results :
                \A j \in DOMAIN results :
                  \/ Below(Delta(i), Delta(j))
                  \/ Delta(i) = Delta(j) /\ Rank(i) <= Rank(j)
  IN  results[best].policy

\* The checks that need the effect the text embeds.
ComparisonReplayError(text, effect) ==
  LET counts  == FirstError(
                   << <<text.budget # effect.eviction.outcome.retainedBytes, "BudgetMismatch">>,
                      <<Len(text.results) # Len(PolicyOrder), "InvalidResultCount">> >>)
      results == FirstOf([i \in DOMAIN text.results |->
                   FirstOf(<<IF text.results[i].policy \notin DOMAIN NameRank
                             THEN "UnknownPolicy"
                             ELSE IF text.results[i].policy # PolicyOrder[i]
                             THEN "PolicyOrderMismatch" ELSE NoError,
                             ResultError(text.results[i], text.budget, effect)>>)])
  IN  IF counts # NoError THEN counts
      ELSE IF results # NoError THEN results
      ELSE FirstError(
             SelectionsChecks(text.results, effect, text.budget)
             \o << <<text.best \notin DOMAIN NameRank, "UnknownPolicy">>,
                   <<text.best # BestPolicy(text.results, effect), "BestPolicyMismatch">> >>)

ComparisonError(text) ==
  LET early == FirstError(
                 FormChecks(text)
                 \o << <<EffectError(text.effect) # NoError, "Effect">> >>)
  IN  IF early # NoError THEN early ELSE ComparisonReplayError(text, Effect(text.effect))

\* What is kept, effect being the one the text embeds: its own distances, and
\* infinity where one of them is infinite.
Comparison(text, effect) ==
  [effect |-> effect, budget |-> text.budget, best |-> text.best,
   results |-> [i \in DOMAIN text.results |->
                  [text.results[i] EXCEPT !.delta = ResultDelta(text.results[i], effect)]]]
=============================================================================
