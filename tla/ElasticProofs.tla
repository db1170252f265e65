---------------------------- MODULE ElasticProofs ----------------------------
(***************************************************************************)
(* An elastic transaction does what was decided, and its evidence says so: *)
(* theorems about ElasticCommit, for any probe sets, plans, policies and   *)
(* model answers, whatever set and plan the gate is presented with and     *)
(* however the runtime's cycle ends.                                       *)
(***************************************************************************)
EXTENDS ElasticCommit, FiniteSetTheorems, WellFoundedInduction, TLAPS

----------------------------------------------------------------------------
(* Sorting.                                                                *)

(* The position of a record in the order of ids, counted from 0.           *)
Rank(S, x) == Cardinality({ y \in S : y.id < x.id })

(* Who has a smaller id has a smaller position.                            *)
LEMMA RankIsMonotone ==
  ASSUME NEW S, IsFiniteSet(S), \A x \in S : x.id \in Int, NEW x \in S, NEW z \in S
  PROVE  /\ Rank(S, x) \in 0 .. Cardinality(S) - 1
         /\ x.id < z.id => Rank(S, x) < Rank(S, z)
         /\ x.id = z.id => Rank(S, x) = Rank(S, z)
<1> DEFINE Below(w) == { y \in S : y.id < w.id }
<1>1. ASSUME NEW w \in S PROVE IsFiniteSet(Below(w)) /\ Cardinality(Below(w)) \in Nat
  BY FS_Subset, FS_CardinalityType
<1>2. Cardinality(Below(x)) < Cardinality(S)
  <2>1. Below(x) \in SUBSET S /\ x \notin Below(x)
    OBVIOUS
  <2>2. Cardinality(Below(x)) <= Cardinality(S) /\ Cardinality(Below(x)) # Cardinality(S)
    BY <2>1, FS_Subset
  <2>3. Cardinality(S) \in Nat
    BY FS_CardinalityType
  <2> QED BY <1>1, <2>2, <2>3
<1>3. ASSUME x.id < z.id PROVE Cardinality(Below(x)) < Cardinality(Below(z))
  <2>1. Below(x) \in SUBSET Below(z) /\ x \in Below(z) /\ x \notin Below(x)
    BY <1>3
  <2> HIDE DEF Below
  <2>2. Cardinality(Below(x)) <= Cardinality(Below(z)) /\ Cardinality(Below(x)) # Cardinality(Below(z))
    BY <1>1, <2>1, FS_Subset
  <2> QED BY <1>1, <2>2
<1>4. Cardinality(S) \in Nat
  BY FS_CardinalityType
<1>5. ASSUME x.id = z.id PROVE Below(x) = Below(z)
  BY <1>5
<1> QED
  <2> HIDE DEF Below
  <2>1. Rank(S, x) = Cardinality(Below(x)) /\ Rank(S, z) = Cardinality(Below(z))
    BY DEF Rank, Below
  <2> QED BY <1>1, <1>2, <1>3, <1>4, <1>5, <2>1

(* Distinct ids have distinct positions, and every position is taken.      *)
LEMMA RanksAreTaken ==
  ASSUME NEW S, IsFiniteSet(S), \A x \in S : x.id \in Int,
         \A x, z \in S : x.id = z.id => x = z
  PROVE  /\ \A x, z \in S : Rank(S, x) = Rank(S, z) => x = z
         /\ \A k \in 0 .. Cardinality(S) - 1 : \E x \in S : Rank(S, x) = k
<1> DEFINE T == 0 .. Cardinality(S) - 1
           f == [x \in S |-> Rank(S, x)]
<1>1. \A x, z \in S : Rank(S, x) = Rank(S, z) => x = z
  <2>1. SUFFICES ASSUME NEW x \in S, NEW z \in S, Rank(S, x) = Rank(S, z), x # z PROVE FALSE
    OBVIOUS
  <2>2. x.id < z.id \/ z.id < x.id
    BY <2>1
  <2>3. Rank(S, x) < Rank(S, z) \/ Rank(S, z) < Rank(S, x)
    BY <2>2, RankIsMonotone
  <2>4. Rank(S, x) \in Int /\ Rank(S, z) \in Int
    BY RankIsMonotone
  <2> QED BY <2>1, <2>3, <2>4
<1>2. Cardinality(S) \in Nat
  BY FS_CardinalityType
<1>3. IsFiniteSet(T) /\ Cardinality(T) = Cardinality(S)
  BY <1>2, FS_Interval
<1>4. f \in Injection(S, T)
  <2>1. \A x \in S : Rank(S, x) \in T
    BY RankIsMonotone
  <2> QED BY <1>1, <2>1 DEF Injection, IsInjective
<1>5. f \in Surjection(S, T)
  <2> HIDE DEF f, T
  <2> QED BY <1>3, <1>4, FS_Injection
<1>6. \A k \in T : \E x \in S : f[x] = k
  BY <1>5 DEF Surjection
<1> QED BY <1>1, <1>6

(* What sort_by makes of records with distinct ids: the same records, in   *)
(* the order of their ids.                                                 *)
LEMMA AscendingSorts ==
  ASSUME NEW s, s \in Seq(ToSet(s)), \A i \in DOMAIN s : s[i].id \in Int,
         \A i, j \in DOMAIN s : s[i].id = s[j].id => i = j
  PROVE  /\ DOMAIN Ascending(s) = 1 .. Len(s)
         /\ \A i \in 1 .. Len(s) : Ascending(s)[i] \in ToSet(s)
         /\ \A x \in ToSet(s) : \E i \in 1 .. Len(s) : x = Ascending(s)[i]
         /\ \A i, j \in 1 .. Len(s) : i < j => Ascending(s)[i].id < Ascending(s)[j].id
<1> DEFINE S == ToSet(s)
           n == Len(s)
<1>1. n \in Nat /\ DOMAIN s = 1 .. n /\ S = { s[i] : i \in 1 .. n }
  BY DEF ToSet
<1>2. s \in Bijection(1 .. n, S)
  <2>1. s \in [1 .. n -> S]
    OBVIOUS
  <2>2. \A i, j \in 1 .. n : s[i] = s[j] => i = j
    BY <1>1
  <2>3. \A x \in S : \E i \in 1 .. n : s[i] = x
    BY <1>1
  <2> QED BY <2>1, <2>2, <2>3 DEF Bijection, Injection, Surjection, IsInjective
<1>3. IsFiniteSet(S) /\ Cardinality(S) = n
  <2> HIDE DEF S, n
  <2>1. IsFiniteSet(1 .. n) /\ Cardinality(1 .. n) = n
    BY <1>1, FS_Interval
  <2>2. ExistsBijection(1 .. n, S)
    BY <1>2 DEF ExistsBijection
  <2> QED BY <2>1, <2>2, FS_Bijection
<1>4. \A x \in S : x.id \in Int
  BY <1>1
<1>5. \A x, z \in S : x.id = z.id => x = z
  BY <1>1
<1> DEFINE a == Ascending(s)
<1> HIDE DEF n, S
<1>6. /\ \A x, z \in S : Rank(S, x) = Rank(S, z) => x = z
      /\ \A k \in 0 .. n - 1 : \E x \in S : Rank(S, x) = k
  BY <1>3, <1>4, <1>5, RanksAreTaken
<1>7. a = [i \in 1 .. n |-> CHOOSE x \in S : Rank(S, x) = i - 1]
  BY <1>1 DEF Ascending, Rank, S
<1> HIDE DEF a
<1>8. ASSUME NEW i \in 1 .. n PROVE a[i] \in S /\ Rank(S, a[i]) = i - 1
  <2>1. i - 1 \in 0 .. n - 1
    BY <1>1
  <2>2. a[i] = CHOOSE x \in S : Rank(S, x) = i - 1
    BY <1>7
  <2> QED BY <1>6, <2>1, <2>2
<1>9. ASSUME NEW x \in S PROVE \E i \in 1 .. n : x = a[i]
  <2>1. Rank(S, x) \in 0 .. n - 1
    BY <1>3, <1>4, RankIsMonotone
  <2>2. Rank(S, x) + 1 \in 1 .. n /\ (Rank(S, x) + 1) - 1 = Rank(S, x)
    BY <1>1, <2>1
  <2>3. x = a[Rank(S, x) + 1]
    BY <1>6, <1>8, <2>2
  <2> QED BY <2>2, <2>3
<1>10. ASSUME NEW i \in 1 .. n, NEW j \in 1 .. n, i < j PROVE a[i].id < a[j].id
  <2>0. a[i] \in S /\ a[j] \in S /\ Rank(S, a[i]) = i - 1 /\ Rank(S, a[j]) = j - 1
    BY <1>8
  <2>1. a[i] \in S /\ a[j] \in S /\ Rank(S, a[i]) < Rank(S, a[j])
    BY <2>0, <1>1, <1>10
  <2>2. /\ a[j].id < a[i].id => Rank(S, a[j]) < Rank(S, a[i])
        /\ a[i].id = a[j].id => Rank(S, a[i]) = Rank(S, a[j])
    BY <1>3, <1>4, <2>1, RankIsMonotone
  <2>3. Rank(S, a[i]) \in Int /\ Rank(S, a[j]) \in Int /\ a[i].id \in Int /\ a[j].id \in Int
    BY <1>3, <1>4, <2>1, RankIsMonotone
  <2> QED BY <2>1, <2>2, <2>3
<1>11. DOMAIN a = 1 .. n
  BY <1>7
<1> QED BY <1>8, <1>9, <1>10, <1>11 DEF a, S, n

----------------------------------------------------------------------------
(* Choosing.                                                               *)

(* A non-empty set of naturals has a least member.                         *)
LEMMA LeastMember ==
  ASSUME NEW T \in SUBSET Nat, T # {}
  PROVE  \E x \in T : \A y \in T : x <= y
<1>1. PICK x \in T : \A y \in T : ~ (<<y, x>> \in OpToRel(<, Nat))
  BY WFMin, NatLessThanWellFounded
<1>2. ASSUME NEW y \in T PROVE x <= y
  <2>1. ~ (<<y, x>> \in OpToRel(<, Nat))
    BY <1>1
  <2>2. ~ (y < x)
    BY <2>1 DEF OpToRel
  <2> QED BY <2>2
<1> QED BY <1>2

(* What holds of 0 and of every successor holds up to n.                   *)
LEMMA UpTo ==
  ASSUME NEW n \in Nat, NEW S, 0 \in S, \A i \in 0 .. n - 1 : i \in S => i + 1 \in S
  PROVE  0 .. n \subseteq S
<1> DEFINE T == (0 .. n) \ S
<1>1. SUFFICES ASSUME T # {} PROVE FALSE
  OBVIOUS
<1>2. PICK x \in T : \A y \in T : x <= y
  <2>1. T \in SUBSET Nat
    OBVIOUS
  <2> HIDE DEF T
  <2> QED BY <1>1, <2>1, LeastMember
<1>3. x - 1 \in 0 .. n - 1 /\ x - 1 \notin T
  BY <1>2
<1> QED BY <1>3

(* The utility the policy gives the i-th outcome.                          *)
U(i) == policy[signatures[i]]

(* The positions that best_by_policy holds after each of n outcomes.       *)
Choosing(f, n) == f = [i \in 0 .. n |-> IF i = 0 THEN 0 ELSE Improve(f[i - 1], i)]

(* Its loop runs over a batch of any length.                               *)
LEMMA ChoosingExists ==
  ASSUME NEW n \in Nat
  PROVE  \E f : Choosing(f, n)
<1> DEFINE S == { m \in Nat : \E f : Choosing(f, m) }
<1>1. 0 \in S
  <2>1. Choosing([i \in 0 .. 0 |-> 0], 0)
    BY DEF Choosing
  <2> QED BY <2>1
<1>2. ASSUME NEW m \in 0 .. n - 1, m \in S PROVE m + 1 \in S
  <2>1. PICK f : Choosing(f, m)
    BY <1>2
  <2> DEFINE g == [i \in 0 .. m + 1 |-> IF i <= m THEN f[i] ELSE Improve(f[m], m + 1)]
  <2>2. ASSUME NEW i \in 0 .. m + 1
        PROVE  g[i] = IF i = 0 THEN 0 ELSE Improve(g[i - 1], i)
    BY <2>1 DEF Choosing
  <2>3. Choosing(g, m + 1)
    BY <2>2 DEF Choosing
  <2> QED BY <2>3
<1>3. 0 .. n \subseteq S
  BY <1>1, <1>2, UpTo
<1> QED BY <1>3

(* i is the first of the best outcomes among the first n.                  *)
FirstBest(i, n) ==
  /\ i \in 1 .. n
  /\ \A j \in 1 .. n : U(j) <= U(i) /\ (j < i => U(j) < U(i))

(* best_by_policy finds the first of the best outcomes.                    *)
LEMMA BestIsFirst ==
  ASSUME policy \in [Signatures -> Int], signatures \in Seq(Signatures)
  PROVE  IF signatures = <<>> THEN BestByPolicy = 0 ELSE FirstBest(BestByPolicy, Len(signatures))
<1> DEFINE n == Len(signatures)
<1>1. n \in Nat /\ \A i \in 1 .. n : U(i) \in Int
  BY DEF U
<1>2. PICK f : Choosing(f, n) /\ BestByPolicy = f[n]
  <2> DEFINE r == CHOOSE g : Choosing(g, n)
  <2>1. Choosing(r, n)
    BY <1>1, ChoosingExists
  <2>2. BestByPolicy = r[n]
    BY DEF BestByPolicy, Choosing
  <2> QED BY <2>1, <2>2
<1> HIDE DEF n
<1>3. f[0] = 0 /\ \A i \in 1 .. n : f[i] = Improve(f[i - 1], i)
  BY <1>1, <1>2 DEF Choosing
<1> DEFINE S == { m \in 0 .. n : IF m = 0 THEN f[m] = 0 ELSE FirstBest(f[m], m) }
<1>4. 0 \in S
  BY <1>1, <1>3
<1>5. ASSUME NEW m \in 0 .. n - 1, m \in S PROVE m + 1 \in S
  <2>1. /\ m + 1 \in 1 .. n /\ m + 1 # 0 /\ m \in Nat
        /\ f[m + 1] = IF f[m] = 0 THEN m + 1 ELSE IF U(m + 1) > U(f[m]) THEN m + 1 ELSE f[m]
    BY <1>1, <1>3 DEF Improve, U
  <2>2. CASE m = 0
    BY <1>1, <1>5, <2>1, <2>2 DEF FirstBest
  <2>3. CASE m # 0
    <3>1. FirstBest(f[m], m) /\ f[m] \in 1 .. m /\ f[m] # 0
      BY <1>5, <2>3 DEF FirstBest
    <3>2. U(m + 1) \in Int /\ U(f[m]) \in Int /\ \A j \in 1 .. m : U(j) \in Int
      BY <1>1, <2>1, <3>1
    <3>3. FirstBest(f[m + 1], m + 1)
      <4>1. CASE U(m + 1) > U(f[m])
        <5>1. f[m + 1] = m + 1
          BY <2>1, <3>1, <4>1
        <5>2. ASSUME NEW j \in 1 .. m PROVE U(j) < U(m + 1)
          BY <3>1, <3>2, <4>1 DEF FirstBest
        <5> QED BY <2>1, <3>2, <5>1, <5>2 DEF FirstBest
      <4>2. CASE ~(U(m + 1) > U(f[m]))
        <5>1. f[m + 1] = f[m]
          BY <2>1, <3>1, <4>2
        <5> QED BY <2>1, <3>1, <3>2, <4>2, <5>1 DEF FirstBest
      <4> QED BY <4>1, <4>2
    <3> QED BY <2>1, <3>3
  <2> QED BY <2>2, <2>3
<1>6. n \in S
  <2> HIDE DEF S
  <2>1. 0 .. n \subseteq S
    BY <1>1, <1>4, <1>5, UpTo
  <2> QED BY <1>1, <2>1
<1>7. n = 0 <=> signatures = <<>>
  BY DEF n
<1> QED BY <1>2, <1>6, <1>7 DEF n

----------------------------------------------------------------------------
(* The invariant.                                                          *)

(* What ElasticProbeSetV1::new makes: probes in the order of their ids.    *)
SortedSet(set) ==
  /\ set.baseline \in Int /\ set.probes \in Seq(ToSet(set.probes))
  /\ \A i \in DOMAIN set.probes : set.probes[i].id \in Int /\ set.probes[i].id # set.baseline
  /\ \A i, j \in DOMAIN set.probes : i < j => set.probes[i].id < set.probes[j].id

Typed ==
  /\ pc \in {"build", "baseline", "evaluate", "gate", "cycle", "capture", "done", "error"}
  /\ policy \in [Signatures -> Int] /\ signatures \in Seq(Signatures)
  /\ pc \in {"build", "baseline"} => signatures = <<>>
  /\ pc \in {"build", "baseline", "evaluate"} => choice = NoValue
  /\ pc \in {"build", "baseline", "evaluate", "gate"} => proposal = NoValue
  /\ pc # "done" => evidence = NoValue
  /\ pc \in {"baseline", "evaluate"} => SortedSet(probes)
  /\ pc = "evaluate" => reference \in Signatures /\ Len(signatures) <= Len(probes.probes)

(* What was chosen is the first of the best, if it improves on the no-op.  *)
Chosen ==
  pc \in {"gate", "cycle", "capture", "done"} \/ choice # NoValue \/ proposal # NoValue =>
    /\ SortedSet(probes) /\ reference \in Signatures /\ Len(signatures) = Len(probes.probes)
    /\ \/ choice = NoOp /\ \A i \in DOMAIN signatures : U(i) <= policy[reference]
       \/ \E i \in DOMAIN signatures :
            choice = Probe(i) /\ FirstBest(i, Len(signatures)) /\ U(i) > policy[reference]

(* What the runtime got has passed the gate.                               *)
Passed ==
  /\ proposal # NoValue =>
       /\ ~choice.noop /\ plan \in Plans /\ supplied \in ProbeSets
       /\ GateError(supplied, plan) = NoValue /\ proposal = ProposeTransition(plan)
  /\ pc = "cycle" => proposal # NoValue
  /\ pc \in {"cycle", "capture", "done"} => supplied \in ProbeSets
  /\ pc \in {"capture", "done"} =>
       IF proposal = NoValue THEN outcome.noop /\ choice.noop
       ELSE ~outcome.noop /\ outcome.cycle \in CycleResults /\ outcome.declared = choice.rollback

(* The evidence was captured from what is still there.                     *)
Captured ==
  evidence # NoValue =>
    \E utility \in Policies, repeatsSource \in BOOLEAN :
      /\ CaptureError(Scores(utility), repeatsSource) = NoValue
      /\ evidence = [selected |-> choice.id, scores |-> Ascending(Scores(utility)),
                     resource |-> plan.resource, disposition |-> Disposition,
                     cycle |-> outcome.cycle, declared |-> outcome.declared]

ElasticInv == Typed /\ Chosen /\ Passed /\ Captured

(* Every probe set that new accepts is sorted, with distinct ids.          *)
LEMMA ProbeSetsAreSorted ==
  ASSUME NEW set \in ProbeSets
  PROVE  SortedSet(set)
<1>1. PICK input \in ProbeInputs : set = ProbeSet(input) /\ set # NoValue
  BY DEF ProbeSets
<1> DEFINE s == input.probes
           a == Ascending(s)
<1>2. ~Repeats(input) /\ ~NamesBaseline(input) /\ set = [baseline |-> input.baseline, probes |-> a]
  BY <1>1 DEF ProbeSet
<1>3. /\ s \in Seq(ToSet(s)) /\ \A i \in DOMAIN s : s[i].id \in Int /\ s[i].id # input.baseline
      /\ \A i, j \in DOMAIN s : s[i].id = s[j].id => i = j
  BY <1>2, ElasticAssumption DEF ToSet, Repeats, NamesBaseline
<1>4. Len(s) \in Nat /\ DOMAIN s = 1 .. Len(s)
  BY <1>3
<1>5. /\ DOMAIN a = 1 .. Len(s) /\ \A i \in 1 .. Len(s) : a[i] \in ToSet(s)
      /\ \A i, j \in 1 .. Len(s) : i < j => a[i].id < a[j].id
  <2> HIDE DEF s
  <2> QED BY <1>3, AscendingSorts
<1>6. a = [i \in 1 .. Len(s) |-> a[i]]
  <2> DEFINE P(i) == CHOOSE x \in ToSet(s) : Cardinality({ y \in ToSet(s) : y.id < x.id }) = i - 1
  <2>1. a = [i \in 1 .. Len(s) |-> P(i)]
    BY <1>4 DEF Ascending
  <2> HIDE DEF P, a
  <2> QED BY <2>1
<1> HIDE DEF a
<1>7. a \in Seq(ToSet(a))
  <2>1. \A i \in 1 .. Len(s) : a[i] \in ToSet(a)
    BY <1>5 DEF ToSet
  <2> QED BY <1>4, <1>6, <2>1
<1>8. \A x \in ToSet(s) : x.id \in Int /\ x.id # input.baseline
  BY <1>3 DEF ToSet
<1>9. input.baseline \in Int
  BY ElasticAssumption
<1> QED BY <1>2, <1>5, <1>7, <1>8, <1>9 DEF SortedSet

(* A transaction starts with nothing chosen.                               *)
LEMMA InitialElastic ==
  ASSUME Init
  PROVE  ElasticInv
BY ElasticAssumption DEF Init, ElasticInv, Typed, Chosen, Passed, Captured

(* compare_before_commit keeps the first of the best outcomes, or the      *)
(* no-op if none improves on it.                                           *)
LEMMA CompareChooses ==
  ASSUME Typed, Compare
  PROVE  Chosen'
<1>1. /\ pc = "evaluate" /\ Len(signatures) = Len(probes.probes) /\ SortedSet(probes)
      /\ reference \in Signatures /\ signatures \in Seq(Signatures) /\ policy \in [Signatures -> Int]
      /\ pc' = "gate" /\ UNCHANGED <<probes, policy, reference, signatures>>
      /\ choice' = IF BestByPolicy # 0 /\ U(BestByPolicy) > policy[reference]
                   THEN Probe(BestByPolicy) ELSE NoOp
  BY DEF Compare, Typed, compared, U
<1> DEFINE n == Len(signatures)
<1>2. n \in Nat /\ DOMAIN signatures = 1 .. n /\ \A i \in 1 .. n : U(i) \in Int
  BY <1>1 DEF U
<1>3. IF signatures = <<>> THEN BestByPolicy = 0 ELSE FirstBest(BestByPolicy, n)
  BY <1>1, BestIsFirst
<1>4. \/ choice' = NoOp /\ \A i \in DOMAIN signatures : U(i) <= policy[reference]
      \/ \E i \in DOMAIN signatures :
           choice' = Probe(i) /\ FirstBest(i, n) /\ U(i) > policy[reference]
  <2>0. policy[reference] \in Int
    BY <1>1
  <2>1. CASE signatures = <<>>
    BY <1>1, <1>2, <1>3, <2>1
  <2>2. CASE signatures # <<>> /\ U(BestByPolicy) > policy[reference]
    <3>1. FirstBest(BestByPolicy, n) /\ BestByPolicy \in 1 .. n /\ BestByPolicy # 0
      BY <1>2, <1>3, <2>2 DEF FirstBest
    <3>2. choice' = Probe(BestByPolicy)
      BY <1>1, <2>2, <3>1
    <3> HIDE DEF n
    <3> QED BY <1>2, <2>2, <3>1, <3>2
  <2>3. CASE signatures # <<>> /\ ~(U(BestByPolicy) > policy[reference])
    <3>1. choice' = NoOp /\ FirstBest(BestByPolicy, n)
      BY <1>1, <1>3, <2>3
    <3>2. ASSUME NEW i \in 1 .. n PROVE U(i) <= policy[reference]
      <4>1. U(i) <= U(BestByPolicy) /\ U(BestByPolicy) \in Int /\ U(i) \in Int
        BY <1>2, <3>1 DEF FirstBest
      <4> QED BY <2>0, <2>3, <4>1
    <3> QED BY <1>2, <3>1, <3>2
  <2> QED BY <2>1, <2>2, <2>3
<1>5. /\ NoOp' = NoOp /\ \A i : U(i)' = U(i) /\ Probe(i)' = Probe(i)
  BY <1>1 DEF NoOp, U, Probe
<1> HIDE DEF n
<1>6. \A i : FirstBest(i, n)' <=> FirstBest(i, n)
  BY <1>1 DEF FirstBest, U, n
<1>7. SortedSet(probes)' <=> SortedSet(probes)
  BY <1>1 DEF SortedSet
<1> QED BY <1>1, <1>4, <1>5, <1>6, <1>7 DEF Chosen, n

(* What was chosen stays chosen as long as nothing is compared again.      *)
LEMMA ChosenStays ==
  ASSUME Typed, Chosen, UNCHANGED <<compared, choice>>,
         pc' \in {"gate", "cycle", "capture", "done"} \/ choice' # NoValue \/ proposal' # NoValue
           => pc \in {"gate", "cycle", "capture", "done"} \/ choice # NoValue \/ proposal # NoValue
  PROVE  Chosen'
<1>1. UNCHANGED <<probes, policy, reference, signatures, choice>>
  BY DEF compared
<1>2. /\ NoOp' = NoOp /\ \A i : Probe(i)' = Probe(i) /\ U(i)' = U(i)
      /\ SortedSet(probes)' <=> SortedSet(probes)
      /\ \A i : FirstBest(i, Len(signatures))' <=> FirstBest(i, Len(signatures))
  BY <1>1 DEF NoOp, Probe, U, SortedSet, FirstBest
<1> QED BY <1>1, <1>2 DEF Chosen

(* A plan that passes the gate is a proposal the runtime can read back.    *)
LEMMA GatePassed ==
  ASSUME NEW set, NEW validated \in Plans, GateError(set, validated) = NoValue, ~choice.noop
  PROVE  /\ validated.validated /\ validated.candidate \in validated.resource.declares
         /\ validated.candidate # NoValue
         /\ ProposeTransition(validated) = Intent(validated) /\ Intent(validated) # NoValue
         /\ \E i \in Find(set, choice.id) :
              set.probes[i].rollback = choice.rollback /\ set.probes[i].plan = Intent(validated)
<1>1. Find(set, choice.id) # {} /\ IntentError(validated) = NoValue
  BY ElasticAssumption DEF GateError, Errors
<1> DEFINE i == CHOOSE i \in Find(set, choice.id) : TRUE
<1>2. i \in Find(set, choice.id)
  BY <1>1
<1>3. set.probes[i].rollback = choice.rollback /\ set.probes[i].plan = Intent(validated)
  <2> HIDE DEF i
  <2>1. GateError(set, validated) =
          IF set.probes[i].rollback # choice.rollback THEN "RollbackIntentMismatch"
          ELSE IF Intent(validated) # set.probes[i].plan THEN "PlanIntentMismatch" ELSE NoValue
    BY <1>1 DEF GateError, i
  <2> QED BY <2>1, ElasticAssumption DEF Errors
<1>4. /\ validated.validated /\ validated.candidate # NoValue
      /\ validated.candidate \in validated.resource.declares
  BY <1>1, ElasticAssumption DEF IntentError, Errors
<1>5. ProposeTransition(validated) = Intent(validated) /\ Intent(validated) # NoValue
  BY <1>4, ElasticAssumption DEF ProposeTransition, Intent
<1> QED BY <1>2, <1>3, <1>4, <1>5

(* Every step keeps the invariant.                                         *)
LEMMA StepKeepsElastic ==
  ASSUME ElasticInv, [Next]_vars
  PROVE  ElasticInv'
<1> USE DEF ElasticInv
<1>1. ASSUME NEW input \in ProbeInputs, Build(input) PROVE ElasticInv'
  <2>1. CASE ProbeSet(input) = NoValue
    <3>1. /\ pc = "build" /\ pc' = "error" /\ UNCHANGED <<compared, choice, acted, evidence>>
      BY <1>1, <2>1 DEF Build, Fail
    <3>2. Typed'
      BY <3>1 DEF Typed, compared, acted
    <3>3. Chosen'
      BY <3>1 DEF Typed, Chosen, compared, acted
    <3> QED BY <3>1, <3>2, <3>3 DEF Typed, Passed, Captured, acted
  <2>2. CASE ProbeSet(input) # NoValue
    <3>1. /\ pc = "build" /\ pc' = "baseline" /\ probes' = ProbeSet(input)
          /\ UNCHANGED <<policy, signatures, choice, acted, evidence>>
      BY <1>1, <2>2 DEF Build
    <3>2. SortedSet(probes)'
      <4>1. ProbeSet(input) \in ProbeSets
        BY <2>2 DEF ProbeSets
      <4>2. SortedSet(probes')
        BY <3>1, <4>1, ProbeSetsAreSorted
      <4> QED BY <4>2 DEF SortedSet
    <3>3. Typed' /\ Chosen'
      BY <3>1, <3>2 DEF Typed, Chosen, acted
    <3> QED BY <3>1, <3>3 DEF Typed, Passed, Captured, acted
  <2> QED BY <2>1, <2>2
<1>2. ASSUME NEW signature \in Signatures, EvaluateBaseline(signature) PROVE ElasticInv'
  <2>1. /\ pc = "baseline" /\ pc' = "evaluate" /\ reference' = signature
        /\ UNCHANGED <<probes, policy, signatures, choice, acted, evidence>>
    BY <1>2 DEF EvaluateBaseline
  <2>2. SortedSet(probes)' /\ signatures = <<>> /\ Len(probes.probes) \in Nat
    BY <2>1 DEF Typed, SortedSet
  <2>3. Typed' /\ Chosen'
    BY <2>1, <2>2 DEF Typed, Chosen, acted
  <2> QED BY <2>1, <2>3 DEF Typed, Passed, Captured, acted
<1>3. ASSUME NEW signature \in Signatures, Evaluate(signature) PROVE ElasticInv'
  <2>1. /\ pc = "evaluate" /\ pc' = "evaluate" /\ Len(signatures) < Len(probes.probes)
        /\ signatures' = Append(signatures, signature)
        /\ UNCHANGED <<probes, policy, reference, choice, acted, evidence>>
    BY <1>3 DEF Evaluate
  <2>2. SortedSet(probes)' /\ Len(probes.probes) \in Nat
    BY <2>1 DEF Typed, SortedSet
  <2>3. signatures' \in Seq(Signatures) /\ Len(signatures') <= Len(probes.probes)
    BY <2>1, <2>2 DEF Typed
  <2>4. Typed' /\ Chosen'
    BY <2>1, <2>2, <2>3 DEF Typed, Chosen, acted
  <2> QED BY <2>1, <2>4 DEF Typed, Passed, Captured, acted
<1>4. ASSUME EngineFails PROVE ElasticInv'
  <2>1. /\ pc \in {"baseline", "evaluate"} /\ pc' = "error"
        /\ UNCHANGED <<compared, choice, acted, evidence>>
    BY <1>4 DEF EngineFails, Fail
  <2>2. Typed' /\ Chosen'
    BY <2>1 DEF Typed, Chosen, compared, acted
  <2> QED BY <2>1, <2>2 DEF Typed, Passed, Captured, acted
<1>5. ASSUME Compare PROVE ElasticInv'
  <2>1. pc = "evaluate" /\ pc' = "gate" /\ UNCHANGED <<compared, acted, evidence>>
    BY <1>5 DEF Compare
  <2>2. Chosen'
    BY <1>5, CompareChooses
  <2>3. Typed'
    BY <2>1 DEF Typed, compared, acted
  <2> QED BY <2>1, <2>2, <2>3 DEF Typed, Passed, Captured, acted
<1>6. ASSUME NEW set \in ProbeSets, NEW validated \in Plans, Refuse(set, validated)
      PROVE  ElasticInv'
  <2>1. pc = "gate" /\ pc' = "error" /\ UNCHANGED <<compared, choice, proposal, evidence>>
    BY <1>6 DEF Refuse
  <2>2. Chosen'
    BY <2>1, ChosenStays
  <2>3. Typed'
    BY <2>1 DEF Typed, compared
  <2> QED BY <2>1, <2>2, <2>3 DEF Typed, Passed, Captured
<1>7. ASSUME NEW set \in ProbeSets, NEW validated \in Plans, KeepNoOp(set, validated)
      PROVE  ElasticInv'
  <2>1. /\ pc = "gate" /\ pc' = "capture" /\ choice.noop /\ outcome'.noop /\ supplied' = set
        /\ UNCHANGED <<compared, choice, proposal, evidence>>
    BY <1>7 DEF KeepNoOp, Present
  <2>2. Chosen'
    BY <2>1, ChosenStays
  <2>3. Typed'
    BY <2>1 DEF Typed, compared
  <2> QED BY <2>1, <2>2, <2>3 DEF Typed, Passed, Captured
<1>8. ASSUME NEW set \in ProbeSets, NEW validated \in Plans, EnterRuntime(set, validated)
      PROVE  ElasticInv'
  <2>1. /\ pc = "gate" /\ pc' = "cycle" /\ ~choice.noop /\ GateError(set, validated) = NoValue
        /\ supplied' = set /\ plan' = validated /\ proposal' = ProposeTransition(validated)
        /\ UNCHANGED <<compared, choice, evidence>>
    BY <1>8 DEF EnterRuntime, Present
  <2>2. Chosen'
    BY <2>1, ChosenStays
  <2>3. Typed'
    BY <2>1 DEF Typed, compared
  <2>4. proposal' # NoValue
    BY <2>1, GatePassed
  <2>5. GateError(supplied, plan)' = NoValue
    BY <2>1 DEF GateError
  <2>6. ProposeTransition(plan)' = ProposeTransition(validated)
    BY <2>1 DEF ProposeTransition
  <2>7. Passed'
    BY <2>1, <2>4, <2>5, <2>6 DEF Passed
  <2> QED BY <2>1, <2>2, <2>3, <2>7 DEF Typed, Captured
<1>9. ASSUME NEW cycle \in CycleResults, Cycle(cycle) PROVE ElasticInv'
  <2>1. /\ pc = "cycle" /\ pc' = "capture"
        /\ outcome' = [noop |-> FALSE, cycle |-> cycle, declared |-> choice.rollback]
        /\ UNCHANGED <<compared, choice, supplied, plan, proposal, evidence>>
    BY <1>9 DEF Cycle
  <2>2. Chosen'
    BY <2>1, ChosenStays
  <2>3. Typed'
    BY <2>1 DEF Typed, compared
  <2>4. GateError(supplied, plan)' = GateError(supplied, plan)
        /\ ProposeTransition(plan)' = ProposeTransition(plan)
    BY <2>1 DEF GateError, ProposeTransition
  <2>5. Passed'
    BY <2>1, <2>4 DEF Passed
  <2> QED BY <2>1, <2>2, <2>3, <2>5 DEF Typed, Captured
<1>10. ASSUME RuntimeFails PROVE ElasticInv'
  <2>1. pc = "cycle" /\ pc' = "error" /\ UNCHANGED <<compared, choice, acted, evidence>>
    BY <1>10 DEF RuntimeFails, Fail
  <2>2. Chosen'
    BY <2>1, ChosenStays
  <2>3. Typed'
    BY <2>1 DEF Typed, compared, acted
  <2>4. Passed'
    BY <2>1 DEF Passed, acted, GateError, ProposeTransition
  <2> QED BY <2>1, <2>2, <2>3, <2>4 DEF Typed, Captured, acted
<1>11. ASSUME NEW utility \in Policies, NEW repeatsSource \in BOOLEAN,
              Capture(utility, repeatsSource)
       PROVE  ElasticInv'
  <2>1. /\ pc = "capture" /\ pc' \in {"error", "done"} /\ UNCHANGED <<compared, choice, acted>>
    BY <1>11 DEF Capture, Fail
  <2>2. Chosen'
    BY <2>1, ChosenStays
  <2>4. Passed'
    BY <2>1 DEF Passed, acted, GateError, ProposeTransition
  <2>5. CASE CaptureError(Scores(utility), repeatsSource) # NoValue
    <3>1. pc' = "error" /\ evidence' = evidence
      BY <1>11, <2>5 DEF Capture, Fail
    <3>2. Typed'
      BY <2>1, <3>1 DEF Typed, compared, acted
    <3> QED BY <2>1, <2>2, <2>4, <3>1, <3>2 DEF Typed, Captured
  <2>6. CASE CaptureError(Scores(utility), repeatsSource) = NoValue
    <3>1. /\ pc' = "done"
          /\ evidence' = [selected |-> choice.id, scores |-> Ascending(Scores(utility)),
                          resource |-> plan.resource, disposition |-> Disposition,
                          cycle |-> outcome.cycle, declared |-> outcome.declared]
      BY <1>11, <2>6 DEF Capture
    <3>2. Typed'
      BY <2>1, <3>1 DEF Typed, compared, acted
    <3>3. /\ Scores(utility)' = Scores(utility) /\ Disposition' = Disposition
          /\ Selected(Scores(utility))' = Selected(Scores(utility))
          /\ IntentError(plan)' = IntentError(plan)
      BY <2>1 DEF Scores, Disposition, Selected, compared, acted, Classify, IntentError
    <3>4. CaptureError(Scores(utility), repeatsSource)' = NoValue
      BY <2>1, <2>6, <3>3 DEF CaptureError
    <3>5. Captured'
      BY <2>1, <3>1, <3>3, <3>4 DEF Captured, acted
    <3> QED BY <2>2, <2>4, <3>2, <3>5
  <2> QED BY <2>5, <2>6
<1>12. ASSUME UNCHANGED vars PROVE ElasticInv'
  <2>1. UNCHANGED <<pc, compared, choice, acted, evidence>>
    BY <1>12 DEF vars, compared, acted
  <2>2. Chosen'
    BY <2>1, ChosenStays DEF acted
  <2>3. Typed'
    BY <2>1 DEF Typed, compared, acted
  <2>4. Passed'
    BY <2>1 DEF Passed, acted, GateError, ProposeTransition
  <2>5. ASSUME NEW utility, NEW repeatsSource
        PROVE  CaptureError(Scores(utility), repeatsSource)'
                 = CaptureError(Scores(utility), repeatsSource)
    <3>1. /\ Scores(utility)' = Scores(utility) /\ Disposition' = Disposition
          /\ Selected(Scores(utility))' = Selected(Scores(utility))
          /\ IntentError(plan)' = IntentError(plan)
      BY <2>1 DEF Scores, Disposition, Selected, compared, acted, Classify, IntentError
    <3> QED BY <2>1, <3>1 DEF CaptureError
  <2>6. Captured'
    <3>1. \A utility : Scores(utility)' = Scores(utility) /\ Disposition' = Disposition
      BY <2>1 DEF Scores, Disposition, compared, acted, Classify
    <3> QED BY <2>1, <2>5, <3>1 DEF Captured, acted
  <2> QED BY <2>2, <2>3, <2>4, <2>6
<1>13. CASE Next
  BY <1>13, <1>1, <1>2, <1>3, <1>4, <1>5, <1>6, <1>7, <1>8, <1>9, <1>10, <1>11, <1>12 DEF Next, Ended
<1> QED BY <1>12, <1>13

(* What is compared, chosen, presented to the gate and given to the        *)
(* runtime, and what is captured of it, belong together at every step.     *)
THEOREM TransactionIsKept == Spec => []ElasticInv
<1>1. Init => ElasticInv
  BY InitialElastic
<1>2. ElasticInv /\ [Next]_vars => ElasticInv'
  BY StepKeepsElastic
<1> QED BY <1>1, <1>2, PTL DEF Spec

----------------------------------------------------------------------------
(* What the invariant says about choosing and acting.                      *)

(* compare_before_commit chooses the no-op exactly if nothing improves on  *)
(* it, and otherwise the best probe, the one of smallest id among equals.  *)
THEOREM ChoiceIsBest == Spec => []ChoiceBeatsNoOp
<1>1. ASSUME ElasticInv PROVE ChoiceBeatsNoOp
  <2>1. SUFFICES ASSUME choice # NoValue PROVE ChoiceBeatsNoOp
    BY DEF ChoiceBeatsNoOp
  <2> DEFINE n == Len(signatures)
             Better == { i \in DOMAIN signatures : U(i) > policy[reference] }
  <2>2. /\ SortedSet(probes) /\ reference \in Signatures /\ n = Len(probes.probes)
        /\ signatures \in Seq(Signatures) /\ policy \in [Signatures -> Int]
    BY <1>1, <2>1 DEF ElasticInv, Typed, Chosen
  <2>3. /\ n \in Nat /\ DOMAIN signatures = 1 .. n /\ DOMAIN probes.probes = 1 .. n
        /\ \A i \in 1 .. n : U(i) \in Int
    BY <2>2 DEF U, SortedSet
  <2>4. policy[reference] \in Int
    BY <2>2
  <2>5. CASE choice = NoOp /\ \A i \in DOMAIN signatures : U(i) <= policy[reference]
    <3>1. choice.noop /\ Better = {}
      BY <2>3, <2>4, <2>5 DEF NoOp
    <3> QED BY <3>1 DEF ChoiceBeatsNoOp, U
  <2>6. ASSUME NEW i \in DOMAIN signatures, choice = Probe(i), FirstBest(i, n), U(i) > policy[reference]
        PROVE  ChoiceBeatsNoOp
    <3>1. ~choice.noop /\ i \in Better /\ choice.id = probes.probes[i].id
          /\ choice.utility = U(i) /\ choice.rollback = probes.probes[i].rollback
      BY <2>6 DEF Probe, U
    <3>2. ASSUME NEW j \in DOMAIN signatures
          PROVE  U(j) <= U(i) /\ (probes.probes[j].id < choice.id => U(j) < U(i))
      <4>1. U(j) <= U(i) /\ (j < i => U(j) < U(i))
        BY <2>3, <2>6 DEF FirstBest
      <4>2. ASSUME probes.probes[j].id < choice.id PROVE j < i
        <5>1. i \in 1 .. n /\ j \in 1 .. n /\ probes.probes[j].id < probes.probes[i].id
          BY <2>3, <3>1, <4>2
        <5>2. i < j => probes.probes[i].id < probes.probes[j].id
          BY <2>2, <2>3, <5>1 DEF SortedSet
        <5>3. probes.probes[i].id \in Int /\ probes.probes[j].id \in Int
          BY <2>2, <2>3, <5>1 DEF SortedSet
        <5> QED BY <2>3, <5>1, <5>2, <5>3
      <4> QED BY <4>1, <4>2
    <3> QED BY <3>1, <3>2 DEF ChoiceBeatsNoOp, U
  <2> QED BY <1>1, <2>1, <2>5, <2>6 DEF ElasticInv, Chosen
<1> QED BY <1>1, TransactionIsKept, PTL

(* execute_selected_probe hands the runtime a validated plan that is the   *)
(* intent of the chosen probe, whichever set and plan it is called with.   *)
THEOREM OnlyTheSelectedActs == Spec => []ActsAsSelected
<1>1. ASSUME ElasticInv PROVE ActsAsSelected
  <2>1. SUFFICES ASSUME proposal # NoValue PROVE ActsAsSelected
    BY DEF ActsAsSelected
  <2>2. /\ ~choice.noop /\ plan \in Plans /\ supplied \in ProbeSets
        /\ GateError(supplied, plan) = NoValue /\ proposal = ProposeTransition(plan)
    BY <1>1, <2>1 DEF ElasticInv, Passed
  <2>3. /\ plan.validated /\ plan.candidate \in plan.resource.declares
        /\ plan.candidate # NoValue /\ proposal = Intent(plan)
        /\ \E i \in Find(supplied, choice.id) :
             supplied.probes[i].rollback = choice.rollback /\ supplied.probes[i].plan = Intent(plan)
    BY <2>2, GatePassed
  <2>4. proposal.candidate = plan.candidate /\ proposal.resource = plan.resource
    BY <2>3 DEF Intent
  <2>5. PICK k \in DOMAIN supplied.probes :
          /\ supplied.probes[k].id = choice.id
          /\ supplied.probes[k].rollback = choice.rollback /\ supplied.probes[k].plan = proposal
    BY <2>3 DEF Find
  <2>6. supplied.probes[k] \in ToSet(supplied.probes)
    BY DEF ToSet
  <2>7. ASSUME supplied = probes
        PROVE  \E i \in DOMAIN signatures :
                 /\ probes.probes[i].plan = proposal
                 /\ policy[signatures[i]] > policy[reference]
                 /\ \A j \in DOMAIN signatures : policy[signatures[j]] <= policy[signatures[i]]
    <3>1. /\ SortedSet(probes) /\ Len(signatures) = Len(probes.probes)
          /\ signatures \in Seq(Signatures)
          /\ \/ choice = NoOp
             \/ \E i \in DOMAIN signatures :
                  choice = Probe(i) /\ FirstBest(i, Len(signatures)) /\ U(i) > policy[reference]
      BY <1>1, <2>1 DEF ElasticInv, Typed, Chosen
    <3>2. PICK i \in DOMAIN signatures :
            choice = Probe(i) /\ FirstBest(i, Len(signatures)) /\ U(i) > policy[reference]
      BY <2>2, <3>1 DEF NoOp
    <3>3. DOMAIN signatures = 1 .. Len(signatures) /\ DOMAIN probes.probes = 1 .. Len(signatures)
          /\ Len(signatures) \in Nat
      BY <3>1 DEF SortedSet
    <3>4. probes.probes[k].id = probes.probes[i].id /\ k \in 1 .. Len(signatures)
      BY <2>5, <2>7, <3>2, <3>3 DEF Probe
    <3>5. k = i
      <4>1. /\ k < i => probes.probes[k].id < probes.probes[i].id
            /\ i < k => probes.probes[i].id < probes.probes[k].id
            /\ probes.probes[i].id \in Int
        BY <3>1, <3>3, <3>4 DEF SortedSet
      <4> QED BY <3>3, <3>4, <4>1
    <3>6. probes.probes[i].plan = proposal
      BY <2>5, <2>7, <3>5
    <3>7. \A j \in DOMAIN signatures : U(j) <= U(i)
      BY <3>2, <3>3 DEF FirstBest
    <3> QED BY <3>2, <3>6, <3>7 DEF U
  <2> QED BY <2>2, <2>3, <2>4, <2>5, <2>6, <2>7 DEF ActsAsSelected
<1> QED BY <1>1, TransactionIsKept, PTL

----------------------------------------------------------------------------
(* What the evidence says.                                                 *)

(* When a list names as many ids as it has entries, it names none twice.   *)
LEMMA NoneTwice ==
  ASSUME NEW n \in Nat, NEW s, DOMAIN s = 1 .. n,
         ~(Cardinality({ s[i].id : i \in DOMAIN s }) < n)
  PROVE  /\ \A i, j \in 1 .. n : s[i].id = s[j].id => i = j
         /\ Cardinality({ s[i].id : i \in DOMAIN s }) = n
<1> DEFINE f == [i \in 1 .. n |-> s[i].id]
           T == { s[i].id : i \in 1 .. n }
<1>1. f \in Surjection(1 .. n, T)
  BY DEF Surjection
<1>2. IsFiniteSet(1 .. n) /\ Cardinality(1 .. n) = n
  BY FS_Interval
<1>3. f \in Injection(1 .. n, T) /\ Cardinality(T) = n
  <2> HIDE DEF f
  <2>1. T = { s[i].id : i \in DOMAIN s }
    OBVIOUS
  <2> HIDE DEF T
  <2>2. /\ IsFiniteSet(T) /\ Cardinality(T) <= n
        /\ Cardinality(T) = n <=> f \in Injection(1 .. n, T)
    BY <1>1, <1>2, FS_Surjection
  <2>3. Cardinality(T) \in Nat
    BY <2>2, FS_CardinalityType
  <2> QED BY <2>1, <2>2, <2>3
<1>4. \A i, j \in 1 .. n : f[i] = f[j] => i = j
  BY <1>3 DEF Injection, IsInjective
<1> QED BY <1>3, <1>4

(* Whatever policy, sources and plan capture_elastic_execution_evidence    *)
(* gets: the evidence it returns is what was decided and what happened.    *)
THEOREM EvidenceStandsUp == Spec => []EvidenceIsTrue
<1>1. ASSUME ElasticInv PROVE EvidenceIsTrue
  <2>1. SUFFICES ASSUME evidence # NoValue PROVE EvidenceIsTrue
    BY DEF EvidenceIsTrue
  <2>2. PICK utility \in Policies, repeatsSource \in BOOLEAN :
          /\ CaptureError(Scores(utility), repeatsSource) = NoValue
          /\ evidence = [selected |-> choice.id, scores |-> Ascending(Scores(utility)),
                         resource |-> plan.resource, disposition |-> Disposition,
                         cycle |-> outcome.cycle, declared |-> outcome.declared]
    BY <1>1, <2>1 DEF ElasticInv, Captured
  <2>3. /\ pc = "done" /\ SortedSet(probes) /\ Len(signatures) = Len(probes.probes)
        /\ signatures \in Seq(Signatures)
    BY <1>1, <2>1 DEF ElasticInv, Typed, Chosen
  <2>4. /\ Selected(Scores(utility)) = {choice.utility}
        /\ ~(Cardinality({ Scores(utility)[i].id : i \in DOMAIN Scores(utility) })
               < Len(Scores(utility)))
        /\ Disposition # NoValue
    BY <2>2, ElasticAssumption DEF CaptureError, Errors
  <2> DEFINE s == Scores(utility)
             n == Len(probes.probes) + 1
             Recorded == { x \in ToSet(evidence.scores) : x.id = evidence.selected }
  <2>5. /\ n \in Nat /\ Len(s) = n /\ DOMAIN s = 1 .. n
        /\ \A i \in 1 .. n : s[i] = [id |-> s[i].id, score |-> s[i].score]
    BY <2>3 DEF Scores, SortedSet
  <2>6. \A i \in 1 .. n : s[i].id \in Int
    <3>1. supplied \in ProbeSets
      BY <1>1, <2>3 DEF ElasticInv, Passed
    <3>2. supplied.baseline \in Int
      BY <3>1, ProbeSetsAreSorted DEF SortedSet
    <3> QED BY <2>3, <3>2 DEF Scores, SortedSet
  <2>7. s \in Seq(ToSet(s))
    <3>1. s = [i \in 1 .. n |-> s[i]]
      BY <2>3 DEF Scores, SortedSet
    <3>2. \A i \in 1 .. n : s[i] \in ToSet(s)
      BY <2>5 DEF ToSet
    <3> HIDE DEF s, n
    <3> QED BY <2>5, <3>1, <3>2
  <2> HIDE DEF s, n
  <2>8. /\ \A i, j \in 1 .. n : s[i].id = s[j].id => i = j
        /\ Cardinality({ s[i].id : i \in DOMAIN s }) = n
    <3>1. ~(Cardinality({ s[i].id : i \in DOMAIN s }) < n)
      BY <2>4, <2>5 DEF s
    <3> QED BY <2>5, <3>1, NoneTwice
  <2> DEFINE a == Ascending(s)
  <2>9. /\ DOMAIN a = 1 .. n /\ \A i \in 1 .. n : a[i] \in ToSet(s)
        /\ \A x \in ToSet(s) : \E i \in 1 .. n : x = a[i]
    BY <2>5, <2>6, <2>7, <2>8, AscendingSorts
  <2>10. Len(a) = n
    <3>1. a = [i \in 1 .. n |-> CHOOSE x \in ToSet(s) :
                                  Cardinality({ y \in ToSet(s) : y.id < x.id }) = i - 1]
      BY <2>5 DEF Ascending
    <3> HIDE DEF a
    <3> DEFINE P(i) == CHOOSE x \in ToSet(s) : Cardinality({ y \in ToSet(s) : y.id < x.id }) = i - 1
    <3>2. a = [i \in 1 .. n |-> P(i)]
      BY <3>1
    <3> HIDE DEF P
    <3> QED BY <2>5, <3>2
  <2> HIDE DEF a
  <2>11. ToSet(a) = ToSet(s)
    BY <2>9 DEF ToSet
  <2>12. evidence.scores = a /\ evidence.selected = choice.id
    BY <2>2 DEF a, s
  <2>13. Recorded = {[id |-> choice.id, score |-> choice.utility]}
    <3>1. PICK i \in 1 .. n : s[i].id = choice.id /\ s[i].score = choice.utility
      BY <2>4, <2>5 DEF Selected, s
    <3>2. s[i] = [id |-> choice.id, score |-> choice.utility] /\ s[i] \in ToSet(s)
      BY <2>5, <3>1 DEF ToSet
    <3>3. ASSUME NEW x \in ToSet(s), x.id = choice.id PROVE x = s[i]
      <4>1. PICK j \in 1 .. n : x = s[j]
        BY <2>5 DEF ToSet
      <4> QED BY <2>8, <3>1, <3>3, <4>1
    <3> QED BY <2>11, <2>12, <3>2, <3>3
  <2>14. Len(evidence.scores) = n /\ Cardinality({ x.id : x \in ToSet(evidence.scores) }) = n
    <3>1. { x.id : x \in ToSet(s) } = { s[i].id : i \in DOMAIN s }
      BY DEF ToSet
    <3> QED BY <2>8, <2>10, <2>11, <2>12, <3>1
  <2>15. /\ evidence.disposition = Disposition /\ evidence.cycle = outcome.cycle
         /\ evidence.declared = outcome.declared /\ evidence.resource = plan.resource
    BY <2>2
  <2>16. CASE proposal = NoValue
    <3>1. evidence.disposition = "NoOp"
      BY <1>1, <2>3, <2>15, <2>16 DEF ElasticInv, Passed, Disposition
    <3> QED BY <2>13, <2>14, <2>16, <3>1 DEF EvidenceIsTrue, n
  <2>17. CASE proposal # NoValue
    <3>1. /\ ~outcome.noop /\ outcome.cycle \in CycleResults
          /\ outcome.declared = choice.rollback /\ proposal = ProposeTransition(plan)
      BY <1>1, <2>3, <2>17 DEF ElasticInv, Passed
    <3>2. evidence.resource = proposal.resource /\ evidence.declared = choice.rollback
      BY <2>15, <3>1 DEF ProposeTransition
    <3>3. evidence.disposition = Classify(evidence.cycle) /\ evidence.cycle \in CycleResults
          /\ Classify(evidence.cycle) # NoValue
      BY <2>4, <2>15, <3>1 DEF Disposition
    <3>4. /\ evidence.disposition # "NoOp"
          /\ evidence.disposition = "Committed" <=> evidence.cycle.commit
          /\ evidence.disposition = "RolledBack" <=> evidence.cycle.rollback
          /\ evidence.disposition = "NoPhysicalActuation" <=> ~evidence.cycle.actuated
          /\ evidence.cycle.commit => evidence.cycle.verification = "Pass"
      BY <3>3 DEF Classify, Committed, RolledBack, CycleResults
    <3> QED BY <2>13, <2>14, <2>17, <3>2, <3>4 DEF EvidenceIsTrue, n
  <2> QED BY <2>16, <2>17
<1> QED BY <1>1, TransactionIsKept, PTL
=============================================================================
