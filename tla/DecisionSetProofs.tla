-------------------------- MODULE DecisionSetProofs --------------------------
(***************************************************************************)
(* Theorems about DecisionSet: what the admissible alternatives have in    *)
(* common, what the lexicographic selection, the Pareto front and the      *)
(* dominance witnesses are, for every batch, vector and answer of the      *)
(* callback.                                                               *)
(***************************************************************************)
EXTENDS DecisionSet, WellFoundedInduction, TLAPS

(* The worths of a vector's objectives, and the order in which the first   *)
(* difference decides.                                                     *)
Worths(vector) ==
  [k \in 1 .. Len(vector) |->
     IF vector[k].direction = "Minimize" THEN -vector[k].value ELSE vector[k].value]

LexGreater(f, g, n) ==
  \E k \in 1 .. n : f[k] > g[k] /\ \A m \in 1 .. k - 1 : f[m] = g[m]

(* A non-empty set of naturals has a least member.                         *)
LEMMA LeastMember ==
  ASSUME NEW T \in SUBSET Nat, T # {}
  PROVE  \E x \in T : \A y \in T : x <= y
<1>1. PICK x \in T : \A y \in T : ~ (<<y, x>> \in OpToRel(<, Nat))
  BY WFMin, NatLessThanWellFounded
<1>2. ASSUME NEW y \in T PROVE x <= y
  <2>1. ~ (<<y, x>> \in OpToRel(<, Nat))
    BY <1>1
  <2>2. ~ (y < x)
    BY <2>1 DEF OpToRel
  <2> QED BY <2>2
<1> QED BY <1>2

(* Two score sequences either differ at a first index, or nowhere.         *)
LEMMA LexTotal ==
  ASSUME NEW n \in Nat, NEW f \in [1 .. n -> Int], NEW g \in [1 .. n -> Int], f # g
  PROVE  LexGreater(f, g, n) \/ LexGreater(g, f, n)
<1> DEFINE T == { k \in 1 .. n : f[k] # g[k] }
<1>1. T # {} /\ T \in SUBSET Nat
  OBVIOUS
<1>2. PICK k \in T : \A y \in T : k <= y
  BY <1>1, LeastMember
<1>3. \A m \in 1 .. k - 1 : f[m] = g[m]
  BY <1>2
<1>4. f[k] > g[k] \/ g[k] > f[k]
  OBVIOUS
<1> QED BY <1>3, <1>4 DEF LexGreater

(* The order is asymmetric.                                                *)
LEMMA LexAsymmetric ==
  ASSUME NEW n \in Nat, NEW f \in [1 .. n -> Int], NEW g \in [1 .. n -> Int],
         LexGreater(f, g, n), LexGreater(g, f, n)
  PROVE  FALSE
<1>1. PICK k \in 1 .. n : f[k] > g[k] /\ \A m \in 1 .. k - 1 : f[m] = g[m]
  BY DEF LexGreater
<1>2. PICK j \in 1 .. n : g[j] > f[j] /\ \A m \in 1 .. j - 1 : g[m] = f[m]
  BY DEF LexGreater
<1>3. CASE k < j
  <2>1. k \in 1 .. j - 1
    BY <1>3
  <2> QED BY <2>1, <1>1, <1>2
<1>4. CASE j < k
  <2>1. j \in 1 .. k - 1
    BY <1>4
  <2> QED BY <2>1, <1>1, <1>2
<1>5. CASE j = k
  BY <1>5, <1>1, <1>2
<1> QED BY <1>3, <1>4, <1>5

(* What beats something beats all that does not beat that thing.           *)
LEMMA LexAbove ==
  ASSUME NEW n \in Nat, NEW f \in [1 .. n -> Int], NEW g \in [1 .. n -> Int],
         NEW h \in [1 .. n -> Int], LexGreater(f, g, n), ~LexGreater(h, g, n)
  PROVE  LexGreater(f, h, n)
<1>1. CASE g = h
  BY <1>1
<1>2. CASE g # h
  <2>1. LexGreater(g, h, n)
    BY <1>2, LexTotal
  <2>2. PICK k \in 1 .. n : f[k] > g[k] /\ \A m \in 1 .. k - 1 : f[m] = g[m]
    BY DEF LexGreater
  <2>3. PICK j \in 1 .. n : g[j] > h[j] /\ \A m \in 1 .. j - 1 : g[m] = h[m]
    BY <2>1 DEF LexGreater
  <2>4. CASE k < j
    <3>1. k \in 1 .. j - 1
      BY <2>4
    <3>2. f[k] > h[k]
      BY <3>1, <2>2, <2>3
    <3>3. \A m \in 1 .. k - 1 : m \in 1 .. j - 1
      BY <2>4
    <3>4. \A m \in 1 .. k - 1 : f[m] = h[m]
      BY <3>3, <2>2, <2>3
    <3> QED BY <3>2, <3>4 DEF LexGreater
  <2>5. CASE j <= k
    <3>1. f[j] > h[j]
      <4>1. CASE j = k
        BY <4>1, <2>2, <2>3
      <4>2. CASE j < k
        <5>1. j \in 1 .. k - 1
          BY <4>2
        <5> QED BY <5>1, <2>2, <2>3
      <4> QED BY <4>1, <4>2, <2>5
    <3>2. \A m \in 1 .. j - 1 : m \in 1 .. k - 1
      BY <2>5
    <3>3. \A m \in 1 .. j - 1 : f[m] = h[m]
      BY <3>2, <2>2, <2>3
    <3> QED BY <3>1, <3>3 DEF LexGreater
  <2> QED BY <2>4, <2>5
<1> QED BY <1>1, <1>2

----------------------------------------------------------------------------
(* What validate_objectives lets through.                                  *)
SoundVector(vector) ==
  /\ vector # <<>>
  /\ \A k \in DOMAIN vector : vector[k].id # Blank /\ ~RepeatsId(vector, k)

(* A vector accepted without an error is sound and of the decision's schema. *)
LEMMA AcceptedIsSound ==
  ASSUME NEW vector \in Vectors, SchemaError(vector) = NoValue
  PROVE  SoundVector(vector) /\ (schema = NoValue \/ schema = SchemaOf(vector))
<1> DEFINE defects == { i \in DOMAIN vector : vector[i].id = Blank \/ RepeatsId(vector, i) }
<1>1. NoValue \notin {"EmptyObjectiveVector", "EmptyObjectiveId",
                     "DuplicateObjectiveId", "ObjectiveSchemaMismatch"}
  BY DecisionAssumption DEF Errors
<1>2. vector # <<>>
  BY <1>1 DEF SchemaError
<1>3. defects = {}
  <2>1. CASE defects # {}
    <3>1. SchemaError(vector) \in {"EmptyObjectiveId", "DuplicateObjectiveId"}
      BY <1>2, <2>1 DEF SchemaError
    <3> QED BY <3>1, <1>1
  <2> QED BY <2>1
<1>4. schema \in {NoValue, SchemaOf(vector)}
  BY <1>1, <1>2, <1>3 DEF SchemaError
<1> QED BY <1>2, <1>3, <1>4 DEF SoundVector

(* Vectors of one schema have the same length and directions.              *)
LEMMA SameSchema ==
  ASSUME NEW u \in Vectors, NEW v \in Vectors, SchemaOf(u) = SchemaOf(v)
  PROVE  /\ Len(u) \in Nat /\ Len(v) = Len(u)
         /\ DOMAIN u = 1 .. Len(u) /\ DOMAIN v = 1 .. Len(u)
         /\ \A k \in 1 .. Len(u) :
              /\ u[k] \in Objectives /\ v[k] \in Objectives
              /\ u[k].id = v[k].id /\ u[k].direction = v[k].direction
<1>1. u \in Seq(Objectives) /\ v \in Seq(Objectives)
  BY VectorsAssumption
<1>2. DOMAIN u = 1 .. Len(u) /\ DOMAIN v = 1 .. Len(v) /\ Len(u) \in Nat /\ Len(v) \in Nat
  BY <1>1
<1>3. DOMAIN SchemaOf(u) = DOMAIN u /\ DOMAIN SchemaOf(v) = DOMAIN v
  BY DEF SchemaOf
<1>4. Len(u) = Len(v)
  <2>1. 1 .. Len(u) = 1 .. Len(v)
    BY <1>2, <1>3
  <2>2. \A m \in Nat : m \in 1 .. Len(u) <=> m \in 1 .. Len(v)
    BY <2>1
  <2>3. Len(u) <= Len(v)
    BY <2>2, <1>2
  <2>4. Len(v) <= Len(u)
    BY <2>2, <1>2
  <2>5. Len(u) \in Nat /\ Len(v) \in Nat
    BY <1>1
  <2> QED BY ONLY <2>3, <2>4, <2>5, SMTT(30)
<1>5. \A k \in DOMAIN u : SchemaOf(u)[k] = [id |-> u[k].id, direction |-> u[k].direction]
  BY DEF SchemaOf
<1>6. \A k \in DOMAIN v : SchemaOf(v)[k] = [id |-> v[k].id, direction |-> v[k].direction]
  BY DEF SchemaOf
<1>7. ASSUME NEW k \in 1 .. Len(u)
      PROVE  u[k].id = v[k].id /\ u[k].direction = v[k].direction
  <2>1. [id |-> u[k].id, direction |-> u[k].direction]
          = [id |-> v[k].id, direction |-> v[k].direction]
    BY <1>2, <1>4, <1>5, <1>6
  <2> QED BY <2>1
<1>8. \A k \in 1 .. Len(u) : u[k] \in Objectives /\ v[k] \in Objectives
  BY <1>1, <1>4
<1> QED BY <1>2, <1>4, <1>7, <1>8

(* Worths are integers, one per objective.                                 *)
LEMMA WorthsType ==
  ASSUME NEW u \in Vectors
  PROVE  Worths(u) \in [1 .. Len(u) -> Int]
<1>1. u \in Seq(Objectives)
  BY VectorsAssumption
<1>2. \A k \in 1 .. Len(u) : u[k] \in Objectives
  BY <1>1
<1>3. \A o \in Objectives : o.value \in Int
  BY DEF Objectives
<1> QED BY <1>2, <1>3 DEF Worths

(* preferred_cmp orders two objectives by their worth.                     *)
LEMMA PreferredIsWorth ==
  ASSUME NEW u \in Vectors, NEW v \in Vectors, SchemaOf(u) = SchemaOf(v),
         NEW k \in 1 .. Len(u)
  PROVE  /\ (PreferredCmp(u[k], v[k]) = "Equal") <=> Worths(u)[k] = Worths(v)[k]
         /\ (PreferredCmp(u[k], v[k]) = "Greater") <=> Worths(u)[k] > Worths(v)[k]
         /\ (PreferredCmp(u[k], v[k]) = "Less") <=> Worths(u)[k] < Worths(v)[k]
<1> DEFINE x == u[k].value
<1> DEFINE y == v[k].value
<1>1. x \in Int /\ y \in Int /\ u[k].direction \in Directions
      /\ v[k].direction = u[k].direction /\ Len(v) = Len(u)
  BY SameSchema DEF Objectives
<1>2. Worths(u)[k] = (IF u[k].direction = "Minimize" THEN -x ELSE x)
  BY DEF Worths
<1>3. Worths(v)[k] = (IF u[k].direction = "Minimize" THEN -y ELSE y)
  BY <1>1 DEF Worths
<1>4. PreferredCmp(u[k], v[k])
        = (IF u[k].direction = "Maximize" THEN Cmp(x, y) ELSE Cmp(y, x))
  BY DEF PreferredCmp
<1> HIDE DEF x, y
<1>5. CASE u[k].direction = "Maximize"
  BY <1>1, <1>2, <1>3, <1>4, <1>5 DEF Cmp
<1>6. CASE u[k].direction = "Minimize"
  BY <1>1, <1>2, <1>3, <1>4, <1>6 DEF Cmp
<1> QED BY <1>1, <1>5, <1>6 DEF Directions

(* compare_vectors answers Greater exactly when the first difference in    *)
(* worth is in the left vector's favour.                                   *)
LEMMA CompareIsLex ==
  ASSUME NEW u \in Vectors, NEW v \in Vectors, SchemaOf(u) = SchemaOf(v)
  PROVE  (CompareVectors(u, v) = "Greater") <=> LexGreater(Worths(u), Worths(v), Len(u))
<1> DEFINE differing == DOMAIN u \ Ranked(u, v, "Equal")
<1> DEFINE n == Len(u)
<1>1. n \in Nat /\ DOMAIN u = 1 .. n
  BY SameSchema
<1>2. \A k \in 1 .. n : k \in differing <=> Worths(u)[k] # Worths(v)[k]
  BY <1>1, PreferredIsWorth DEF Ranked
<1>3. differing \in SUBSET Nat /\ differing \subseteq 1 .. n
  BY <1>1
<1>4. Worths(u) \in [1 .. n -> Int] /\ Worths(v) \in [1 .. n -> Int]
  BY SameSchema, WorthsType
<1>5. CASE differing = {}
  <2>1. CompareVectors(u, v) = "Equal"
    BY <1>5 DEF CompareVectors
  <2>2. ~LexGreater(Worths(u), Worths(v), n)
    BY <1>2, <1>4, <1>5 DEF LexGreater
  <2> QED BY <2>1, <2>2
<1>6. CASE differing # {}
  <2> DEFINE first == CHOOSE i \in differing : \A j \in differing : i <= j
  <2>1. first \in differing /\ \A j \in differing : first <= j
    BY <1>3, <1>6, LeastMember
  <2>2. CompareVectors(u, v) = PreferredCmp(u[first], v[first])
    BY <1>6 DEF CompareVectors
  <2> HIDE DEF first
  <2>3. first \in 1 .. n /\ Worths(u)[first] # Worths(v)[first]
    BY <2>1, <1>2, <1>3
  <2>4. \A m \in 1 .. first - 1 : Worths(u)[m] = Worths(v)[m]
    <3> SUFFICES ASSUME NEW m \in 1 .. first - 1 PROVE Worths(u)[m] = Worths(v)[m]
      OBVIOUS
    <3>1. m \in 1 .. n /\ ~(first <= m)
      BY <1>1, <2>3
    <3> QED BY <3>1, <2>1, <1>2
  <2>5. ASSUME CompareVectors(u, v) = "Greater"
        PROVE  LexGreater(Worths(u), Worths(v), n)
    <3>1. Worths(u)[first] > Worths(v)[first]
      BY <2>5, <2>2, <2>3, PreferredIsWorth
    <3> QED BY <3>1, <2>3, <2>4 DEF LexGreater
  <2>6. ASSUME LexGreater(Worths(u), Worths(v), n)
        PROVE  CompareVectors(u, v) = "Greater"
    <3>1. PICK k \in 1 .. n : /\ Worths(u)[k] > Worths(v)[k]
                             /\ \A m \in 1 .. k - 1 : Worths(u)[m] = Worths(v)[m]
      BY <2>6 DEF LexGreater
    <3>2. k \in differing
      BY <3>1, <1>2, <1>4
    <3>3. ~(first < k)
      <4>1. ASSUME first < k PROVE FALSE
        <5>1. first \in 1 .. k - 1
          BY <4>1, <2>3
        <5> QED BY <5>1, <3>1, <2>3
      <4> QED BY <4>1
    <3>4. first = k
      BY <3>2, <3>3, <2>1, <2>3
    <3> QED BY <3>4, <3>1, <2>2, PreferredIsWorth
  <2> QED BY <2>5, <2>6
<1> QED BY <1>5, <1>6
----------------------------------------------------------------------------
(* The inductive invariant.                                                *)

(* The admissible vectors are sound and all of the established schema.     *)
OneSchema ==
  \A i \in Admissible :
    /\ Vector(i) \in Vectors /\ SoundVector(Vector(i))
    /\ schema # NoValue /\ schema = SchemaOf(Vector(i))

(* The selection starts from nothing and ends having looked at everything. *)
Phases ==
  /\ pc \in {"admit", "assess"} => next = 1 /\ best = 0
  /\ pc = "done" => next > Len(alternatives)

(* Among the alternatives looked at, the best is the earliest of the best. *)
BestSoFar ==
  /\ best = 0 => \A j \in Admissible : j >= next
  /\ best # 0 =>
       /\ best \in Admissible
       /\ \A j \in Admissible : j < next =>
            ~Beats(j, best) /\ (j < best => Beats(best, j))

IInv == TypeOK /\ OneSchema /\ Phases /\ BestSoFar

(* Beats is the lexicographic order of the worths.                         *)
LEMMA BeatsIsLex ==
  ASSUME OneSchema, NEW i \in Admissible, NEW j \in Admissible
  PROVE  /\ Len(Vector(i)) \in Nat /\ Len(Vector(j)) = Len(Vector(i))
         /\ Worths(Vector(i)) \in [1 .. Len(Vector(i)) -> Int]
         /\ Worths(Vector(j)) \in [1 .. Len(Vector(i)) -> Int]
         /\ Beats(i, j) <=>
              LexGreater(Worths(Vector(i)), Worths(Vector(j)), Len(Vector(i)))
<1>1. Vector(i) \in Vectors /\ Vector(j) \in Vectors /\ SchemaOf(Vector(i)) = SchemaOf(Vector(j))
  BY DEF OneSchema
<1> DEFINE u == Vector(i)
<1> DEFINE v == Vector(j)
<1> DEFINE n == Len(u)
<1>2. n \in Nat /\ Len(v) = n /\ DOMAIN u = 1 .. n
  BY <1>1, SameSchema
<1>3. Worths(u) \in [1 .. n -> Int] /\ Worths(v) \in [1 .. n -> Int]
  <2>1. Worths(u) \in [1 .. Len(u) -> Int] /\ Worths(v) \in [1 .. Len(v) -> Int]
    BY <1>1, WorthsType
  <2> QED BY <2>1, <1>2
<1>4. \A k \in 1 .. n : Worth(i, k) = Worths(u)[k]
  BY DEF Worth, Worths
<1>5. \A k \in 1 .. n : Worth(j, k) = Worths(v)[k]
  BY <1>2 DEF Worth, Worths
<1>6. \A k \in 1 .. n : \A m \in 1 .. k - 1 : m \in 1 .. n
  BY <1>2
<1> HIDE DEF u, v, n
<1>7. Beats(i, j) <=> LexGreater(Worths(u), Worths(v), n)
  <2>1. Beats(i, j) <=> \E k \in 1 .. n : /\ Worth(i, k) > Worth(j, k)
                                         /\ \A m \in 1 .. k - 1 : Worth(i, m) = Worth(j, m)
    BY <1>2 DEF Beats, u
  <2>2. \A k \in 1 .. n :
          (/\ Worth(i, k) > Worth(j, k)
           /\ \A m \in 1 .. k - 1 : Worth(i, m) = Worth(j, m))
          <=> (/\ Worths(u)[k] > Worths(v)[k]
               /\ \A m \in 1 .. k - 1 : Worths(u)[m] = Worths(v)[m])
    BY <1>4, <1>5, <1>6
  <2> QED BY <2>1, <2>2 DEF LexGreater
<1> QED BY <1>2, <1>3, <1>7 DEF u, v, n

(* Nothing beats what it is beaten by, nor itself.                         *)
LEMMA BeatsAsymmetric ==
  ASSUME OneSchema, NEW i \in Admissible, NEW j \in Admissible, Beats(i, j)
  PROVE  ~Beats(j, i)
BY BeatsIsLex, LexAsymmetric

(* What beats an alternative beats all that does not beat that one.        *)
LEMMA BeatsAbove ==
  ASSUME OneSchema, NEW i \in Admissible, NEW j \in Admissible, NEW h \in Admissible,
         Beats(i, j), ~Beats(h, j)
  PROVE  Beats(i, h)
<1> DEFINE n == Len(Vector(i))
<1> DEFINE f(x) == Worths(Vector(x))
<1>1. /\ n \in Nat /\ Len(Vector(h)) = n
      /\ f(i) \in [1 .. n -> Int] /\ f(j) \in [1 .. n -> Int] /\ f(h) \in [1 .. n -> Int]
  BY BeatsIsLex
<1>2. LexGreater(f(i), f(j), n) /\ ~LexGreater(f(h), f(j), n)
  BY <1>1, BeatsIsLex
<1>3. LexGreater(f(i), f(h), n)
  BY <1>1, <1>2, LexAbove
<1> QED BY <1>3, BeatsIsLex

(* The comparison lexicographic_best makes decides who beats whom.         *)
LEMMA CompareIsBeats ==
  ASSUME OneSchema, NEW i \in Admissible, NEW j \in Admissible
  PROVE  (CompareVectors(Vector(i), Vector(j)) = "Greater") <=> Beats(i, j)
<1>1. Vector(i) \in Vectors /\ Vector(j) \in Vectors /\ SchemaOf(Vector(i)) = SchemaOf(Vector(j))
  BY DEF OneSchema
<1> QED BY <1>1, CompareIsLex, BeatsIsLex

----------------------------------------------------------------------------
Alternatives ==
  [id : {Baseline} \cup { batch[i] : i \in DOMAIN batch },
   objectives : Vectors \cup {NoValue}, reason : Reasons \cup {NoValue}]

(* The decision set starts in the invariant.                               *)
LEMMA InitEstablishes == Init => IInv
<1> SUFFICES ASSUME Init PROVE IInv
  OBVIOUS
<1>1. alternatives = <<>> /\ Len(alternatives) = 0 /\ DOMAIN alternatives = {}
  BY DEF Init
<1>2. Len(batch) \in Nat
  BY DecisionAssumption DEF Init
<1>3. TypeOK
  <2>1. alternatives \in Seq(Alternatives)
    BY <1>1
  <2> QED BY <1>1, <1>2, <2>1 DEF Init, TypeOK, Alternatives
<1>4. Admissible = {}
  BY <1>1 DEF Admissible
<1> QED BY <1>1, <1>3, <1>4 DEF Init, IInv, OneSchema, Phases, BestSoFar

(* Steps that leave the alternatives alone keep what is said of them.      *)
LEMMA AlternativesKept ==
  ASSUME UNCHANGED <<batch, alternatives, schema>>
  PROVE  /\ Admissible' = Admissible
         /\ OneSchema => OneSchema'
         /\ \A i : Vector(i)' = Vector(i)
         /\ \A i, j : Beats(i, j)' = Beats(i, j)
BY DEF OneSchema, Admissible, IsAdmissible, Vector, SoundVector, RepeatsId, SchemaOf, Beats, Worth

(* What the type invariant says of the sequences, in one place.            *)
LEMMA Typed ==
  ASSUME TypeOK
  PROVE  /\ Len(batch) \in Nat /\ DOMAIN batch = 1 .. Len(batch)
         /\ alternatives \in Seq(Alternatives)
         /\ Len(alternatives) \in Nat /\ DOMAIN alternatives = 1 .. Len(alternatives)
         /\ next \in Nat /\ best \in Nat /\ next >= 1 /\ best < next
         /\ next <= Len(alternatives) + 1
         /\ Admissible \in SUBSET Nat /\ \A i \in Admissible : i >= 1 /\ i <= Len(alternatives)
<1>1. batch \in Seq({ batch[i] : i \in DOMAIN batch })
  BY DecisionAssumption DEF TypeOK
<1>2. alternatives \in Seq(Alternatives)
  BY DEF TypeOK, Alternatives
<1>3. Len(alternatives) \in Nat /\ DOMAIN alternatives = 1 .. Len(alternatives)
  BY <1>2
<1>4. next \in 1 .. Len(alternatives) + 1 /\ best \in 0 .. next - 1
  BY DEF TypeOK
<1>5. Len(batch) \in Nat /\ DOMAIN batch = 1 .. Len(batch)
  BY <1>1
<1>6. Admissible \subseteq 1 .. Len(alternatives)
  BY <1>3 DEF Admissible
<1> QED BY <1>2, <1>3, <1>4, <1>5, <1>6

(* One more alternative: the earlier ones are untouched, and the new one   *)
(* is admissible when it has a vector of the schema.                       *)
LEMMA PushKeeps ==
  ASSUME IInv, Assessing,
         NEW objectives \in Vectors \cup {NoValue}, NEW reason \in Reasons \cup {NoValue},
         (objectives = NoValue) # (reason = NoValue),
         Push(objectives, reason),
         UNCHANGED <<batch, pc, error, next, best>>,
         schema' = NoValue \/ \E vector \in Vectors : schema' = SchemaOf(vector),
         Admissible # {} => schema' = schema,
         objectives # NoValue =>
           SoundVector(objectives) /\ schema' # NoValue /\ schema' = SchemaOf(objectives)
  PROVE  IInv'
<1> DEFINE n == Len(alternatives)
<1> DEFINE new == [id |-> Candidate, objectives |-> objectives, reason |-> reason]
<1>0. TypeOK /\ OneSchema /\ Phases /\ BestSoFar
  BY DEF IInv
<1>1. /\ n \in Nat /\ DOMAIN alternatives = 1 .. n /\ alternatives \in Seq(Alternatives)
      /\ Len(batch) \in Nat /\ DOMAIN batch = 1 .. Len(batch)
  BY <1>0, Typed
<1>2. n <= Len(batch) /\ pc = "assess" /\ next = 1 /\ best = 0
  BY <1>0 DEF Assessing, Phases
<1>3. Candidate = IF n + 1 = 1 THEN Baseline ELSE batch[n]
  <2>1. alternatives = <<>> <=> n = 0
    BY <1>1
  <2> QED BY <2>1, <1>1 DEF Candidate
<1>4. Candidate \in {Baseline} \cup { batch[i] : i \in DOMAIN batch }
  BY <1>1, <1>2, <1>3
<1>5. new \in Alternatives
  BY <1>4 DEF Alternatives
<1>6. alternatives' = Append(alternatives, new)
  BY DEF Push
<1> HIDE DEF new
<1>7. /\ alternatives' \in Seq(Alternatives) /\ Len(alternatives') = n + 1
      /\ DOMAIN alternatives' = 1 .. n + 1
      /\ \A i \in 1 .. n : alternatives'[i] = alternatives[i]
      /\ alternatives'[n + 1] = new
  BY <1>1, <1>5, <1>6
<1>8. TypeOK'
  <2>1. \A i \in DOMAIN alternatives' :
          /\ alternatives'[i].id = IF i = 1 THEN Baseline ELSE batch[i - 1]
          /\ (alternatives'[i].objectives = NoValue) # (alternatives'[i].reason = NoValue)
    <3> SUFFICES ASSUME NEW i \in 1 .. n + 1
                 PROVE  /\ alternatives'[i].id = IF i = 1 THEN Baseline ELSE batch[i - 1]
                        /\ (alternatives'[i].objectives = NoValue)
                             # (alternatives'[i].reason = NoValue)
      BY <1>7
    <3>1. CASE i \in 1 .. n
      BY <3>1, <1>0, <1>1, <1>7 DEF TypeOK
    <3>2. CASE i = n + 1
      BY <3>2, <1>3, <1>7, <1>1 DEF new
    <3> QED BY <3>1, <3>2, <1>1
  <2>2. batch' = batch /\ pc' = pc /\ error' = error /\ next' = next /\ best' = best
    OBVIOUS
  <2>3. batch' \in Batches /\ pc' \in {"admit", "assess", "select", "done", "error"}
        /\ error' \in Errors \cup {NoValue}
    BY <2>2, <1>0 DEF TypeOK
  <2>4. alternatives' \in Seq([id : {Baseline} \cup { batch'[i] : i \in DOMAIN batch' },
             objectives : Vectors \cup {NoValue}, reason : Reasons \cup {NoValue}])
    BY <2>2, <1>7 DEF Alternatives
  <2>5. Len(alternatives') <= Len(batch') + 1 /\ next' \in 1 .. Len(alternatives') + 1
        /\ best' \in 0 .. next' - 1
    BY <2>2, <1>1, <1>2, <1>7
  <2>6. schema' = NoValue \/ \E vector \in Vectors : schema' = SchemaOf(vector)
    OBVIOUS
  <2>7. \A i \in DOMAIN alternatives' :
          /\ alternatives'[i].id = IF i = 1 THEN Baseline ELSE batch'[i - 1]
          /\ (alternatives'[i].objectives = NoValue) # (alternatives'[i].reason = NoValue)
    BY <2>1, <2>2
  <2> QED BY ONLY <2>3, <2>4, <2>5, <2>6, <2>7 DEF TypeOK, SchemaOf
<1>9. \A i \in Admissible' :
        \/ i \in Admissible /\ Vector(i)' = Vector(i)
        \/ i = n + 1 /\ Vector(i)' = objectives /\ objectives # NoValue
  BY <1>1, <1>7 DEF Admissible, IsAdmissible, Vector, new
<1>10. OneSchema'
  <2> SUFFICES ASSUME NEW i \in Admissible'
               PROVE  /\ Vector(i)' \in Vectors /\ SoundVector(Vector(i)')
                      /\ schema' # NoValue /\ schema' = SchemaOf(Vector(i)')
    BY DEF OneSchema, SoundVector, SchemaOf, RepeatsId
  <2>1. CASE i \in Admissible /\ Vector(i)' = Vector(i)
    <3>1. schema' = schema
      BY <2>1
    <3>2. Vector(i) \in Vectors /\ SoundVector(Vector(i)) /\ schema # NoValue
          /\ schema = SchemaOf(Vector(i))
      BY <2>1, <1>0 DEF OneSchema
    <3> QED BY <2>1, <3>1, <3>2
  <2>2. CASE i = n + 1 /\ Vector(i)' = objectives /\ objectives # NoValue
    BY <2>2
  <2> QED BY <1>9, <2>1, <2>2
<1>11. Phases'
  BY <1>2 DEF Phases
<1>12. BestSoFar'
  <2>1. \A j \in Admissible' : j >= 1
    BY <1>1, <1>7 DEF Admissible
  <2> QED BY <2>1, <1>2 DEF BestSoFar
<1> QED BY <1>8, <1>10, <1>11, <1>12 DEF IInv

(* Steps that keep the alternatives keep the typing, if their own          *)
(* variables stay in range.                                                *)
LEMMA TypeKept ==
  ASSUME TypeOK, UNCHANGED <<batch, alternatives, schema>>,
         pc' \in {"admit", "assess", "select", "done", "error"},
         error' \in Errors \cup {NoValue},
         next' \in 1 .. Len(alternatives) + 1, best' \in 0 .. next' - 1
  PROVE  TypeOK'
<1>1. batch' = batch /\ alternatives' = alternatives /\ schema' = schema
  OBVIOUS
<1>2. batch' \in Batches
  BY <1>1 DEF TypeOK
<1>3. alternatives' \in Seq([id : {Baseline} \cup { batch'[i] : i \in DOMAIN batch' },
           objectives : Vectors \cup {NoValue}, reason : Reasons \cup {NoValue}])
  BY <1>1 DEF TypeOK
<1>4. /\ Len(alternatives') <= Len(batch') + 1
      /\ next' \in 1 .. Len(alternatives') + 1 /\ best' \in 0 .. next' - 1
  BY <1>1 DEF TypeOK
<1>5. \A i \in DOMAIN alternatives' :
        /\ alternatives'[i].id = IF i = 1 THEN Baseline ELSE batch'[i - 1]
        /\ (alternatives'[i].objectives = NoValue) # (alternatives'[i].reason = NoValue)
  BY <1>1 DEF TypeOK
<1>6. schema' = NoValue \/ \E vector \in Vectors : schema' = SchemaOf(vector)
  BY <1>1 DEF TypeOK
<1> QED BY ONLY <1>2, <1>3, <1>4, <1>5, <1>6,
           pc' \in {"admit", "assess", "select", "done", "error"},
           error' \in Errors \cup {NoValue} DEF TypeOK, SchemaOf

(* One step of lexicographic_best keeps the best so far the earliest best. *)
LEMMA LookPreserves ==
  ASSUME IInv, Look
  PROVE  IInv'
<1>0. TypeOK /\ OneSchema /\ Phases /\ BestSoFar
  BY DEF IInv
<1>1. /\ Len(alternatives) \in Nat /\ next \in Nat /\ best \in Nat /\ next >= 1 /\ best < next
      /\ Admissible \in SUBSET Nat /\ \A i \in Admissible : i >= 1
      /\ DOMAIN alternatives = 1 .. Len(alternatives)
  BY <1>0, Typed
<1>2. /\ pc = "select" /\ next <= Len(alternatives) /\ next' = next + 1
      /\ UNCHANGED <<batch, pc, alternatives, schema, error>>
      /\ best' = IF IsAdmissible(next)
                      /\ (best = 0 \/ CompareVectors(Vector(next), Vector(best)) = "Greater")
                  THEN next ELSE best
  BY DEF Look, Looked
<1>3. next \in Admissible <=> IsAdmissible(next)
  BY <1>1, <1>2 DEF Admissible
<1>4. TypeOK'
  <2>1. next' \in 1 .. Len(alternatives) + 1 /\ best' \in 0 .. next' - 1
    BY <1>1, <1>2
  <2>2. pc' \in {"admit", "assess", "select", "done", "error"} /\ error' \in Errors \cup {NoValue}
    BY <1>0, <1>2 DEF TypeOK
  <2> QED BY <1>0, <1>2, <2>1, <2>2, TypeKept
<1>5. /\ Admissible' = Admissible /\ OneSchema' /\ \A i, j : Beats(i, j)' = Beats(i, j)
  BY <1>0, <1>2, AlternativesKept
<1>6. Phases'
  BY <1>2 DEF Phases
<1>7. BestSoFar'
  <2> SUFFICES /\ best' = 0 => \A j \in Admissible : j >= next + 1
               /\ best' # 0 =>
                    /\ best' \in Admissible
                    /\ \A j \in Admissible : j < next + 1 =>
                         ~Beats(j, best') /\ (j < best' => Beats(best', j))
    <3>1. \A i, j : Beats(i, j)' <=> Beats(i, j)
      BY <1>5
    <3>2. BestSoFar' <=>
            /\ best' = 0 => \A j \in Admissible' : j >= next'
            /\ best' # 0 =>
                 /\ best' \in Admissible'
                 /\ \A j \in Admissible' : j < next' =>
                      ~Beats(j, best)' /\ (j < best' => Beats(best, j)')
      BY DEF BestSoFar
    <3>3. \A j : Beats(j, best)' <=> Beats(j, best')
      BY <1>2 DEF Beats, Worth, Vector
    <3>4. \A j : Beats(best, j)' <=> Beats(best', j)
      BY <1>2 DEF Beats, Worth, Vector
    <3> QED BY <3>2, <3>3, <3>4, <1>2, <1>5
  <2>1. CASE next \notin Admissible
    <3>1. best' = best
      BY <2>1, <1>2, <1>3
    <3>2. \A j \in Admissible : j >= next => j >= next + 1
      BY <2>1, <1>1
    <3>3. \A j \in Admissible : j < next + 1 => j < next
      BY <2>1, <1>1
    <3> QED BY <3>1, <3>2, <3>3, <1>0 DEF BestSoFar
  <2>2. CASE next \in Admissible /\ best = 0
    <3>1. best' = next
      BY <2>2, <1>2, <1>3
    <3>2. \A j \in Admissible : j < next + 1 => j = next
      BY <2>2, <1>0, <1>1 DEF BestSoFar
    <3>3. ~Beats(next, next)
      BY <2>2, <1>0, BeatsAsymmetric
    <3>4. \A j \in Admissible : ~(j < next)
      BY <2>2, <1>0, <1>1 DEF BestSoFar
    <3> QED BY <3>1, <3>2, <3>3, <3>4, <2>2, <1>1
  <2>3. CASE next \in Admissible /\ best # 0
    <3>1. best \in Admissible /\ \A j \in Admissible : j < next =>
            ~Beats(j, best) /\ (j < best => Beats(best, j))
      BY <2>3, <1>0 DEF BestSoFar
    <3>2. CompareVectors(Vector(next), Vector(best)) = "Greater" <=> Beats(next, best)
      BY <2>3, <3>1, <1>0, CompareIsBeats
    <3>3. \A j \in Admissible : j < next + 1 => j < next \/ j = next
      BY <1>1
    <3>4. CASE Beats(next, best)
      <4>1. best' = next
        BY <3>2, <3>4, <2>3, <1>2, <1>3
      <4>2. \A j \in Admissible : j < next => Beats(next, j)
        BY <3>1, <3>4, <2>3, <1>0, BeatsAbove
      <4>3. \A j \in Admissible : j < next => ~Beats(j, next)
        BY <4>2, <2>3, <1>0, BeatsAsymmetric
      <4>4. ~Beats(next, next)
        BY <2>3, <1>0, BeatsAsymmetric
      <4> QED BY <4>1, <4>2, <4>3, <4>4, <3>3, <2>3, <1>1
    <3>5. CASE ~Beats(next, best)
      <4>1. best' = best
        BY <3>2, <3>5, <2>3, <1>2
      <4> QED BY <4>1, <3>1, <3>3, <3>5, <2>3, <1>1
    <3> QED BY <3>4, <3>5
  <2> QED BY <2>1, <2>2, <2>3
<1> QED BY <1>4, <1>5, <1>6, <1>7 DEF IInv

(* Every other step that keeps the alternatives.                           *)
LEMMA ControlPreserves ==
  ASSUME IInv, UNCHANGED <<batch, alternatives, schema, next, best>>,
         pc' \in {"admit", "assess", "select", "done", "error"},
         error' \in Errors \cup {NoValue},
         pc' \in {"admit", "assess"} => pc \in {"admit", "assess"},
         pc' = "done" => next > Len(alternatives)
  PROVE  IInv'
<1>0. TypeOK /\ OneSchema /\ Phases /\ BestSoFar
  BY DEF IInv
<1>1. TypeOK'
  <2>1. next' \in 1 .. Len(alternatives) + 1 /\ best' \in 0 .. next' - 1
    BY <1>0 DEF TypeOK
  <2> QED BY <2>1, <1>0, TypeKept
<1>2. /\ Admissible' = Admissible /\ OneSchema' /\ \A i, j : Beats(i, j)' = Beats(i, j)
  BY <1>0, AlternativesKept
<1>3. Phases'
  BY <1>0 DEF Phases
<1>4. BestSoFar'
  BY <1>0, <1>2 DEF BestSoFar
<1> QED BY <1>1, <1>2, <1>3, <1>4 DEF IInv

(* Every step preserves the invariant.                                     *)
LEMMA NextPreserves == IInv /\ [Next]_vars => IInv'
<1> SUFFICES ASSUME IInv, [Next]_vars PROVE IInv'
  OBVIOUS
<1>0. TypeOK /\ OneSchema /\ Phases
  BY DEF IInv
<1>1. pc \in {"admit", "assess", "select", "done", "error"} /\ error \in Errors \cup {NoValue}
  BY <1>0 DEF TypeOK
<1>2. CASE UNCHANGED vars
  BY <1>2, <1>0, <1>1, ControlPreserves DEF vars, Phases
<1>3. CASE Admit
  <2>1. pc' \in {"assess", "error"} /\ error' \in Errors \cup {NoValue} /\ pc = "admit"
        /\ UNCHANGED <<batch, alternatives, schema, next, best>>
    BY <1>1, <1>3 DEF Admit, Errors
  <2> QED BY <2>1, ControlPreserves
<1>4. ASSUME NEW reason \in Reasons, Reject(reason) PROVE IInv'
  <2>1. reason # NoValue
    BY DecisionAssumption
  <2>2. schema' = NoValue \/ \E vector \in Vectors : schema' = SchemaOf(vector)
    BY <1>0, <1>4 DEF TypeOK, Reject
  <2> QED BY <2>1, <2>2, <1>4, PushKeeps DEF Reject
<1>5. ASSUME NEW vector \in Vectors, Accept(vector) PROVE IInv'
  <2>1. SoundVector(vector) /\ (schema = NoValue \/ schema = SchemaOf(vector))
    BY <1>5, AcceptedIsSound DEF Accept
  <2>2. vector # NoValue /\ SchemaOf(vector) # NoValue
    <3>1. vector \in Seq(Objectives)
      BY VectorsAssumption
    <3>2. SchemaOf(vector) \in Seq([id : ObjectiveIds, direction : Directions])
      <4>1. \A i \in DOMAIN vector :
              vector[i].id \in ObjectiveIds /\ vector[i].direction \in Directions
        <5>1. \A o \in Objectives : o.id \in ObjectiveIds /\ o.direction \in Directions
          BY DEF Objectives
        <5> QED BY <3>1, <5>1
      <4>2. DOMAIN vector = 1 .. Len(vector) /\ Len(vector) \in Nat
        BY <3>1
      <4> QED BY <4>1, <4>2 DEF SchemaOf
    <3> QED BY <3>1, <3>2, DecisionAssumption
  <2>3. schema' = SchemaOf(vector)
    BY <2>1, <1>5 DEF Accept
  <2>4. Admissible # {} => schema' = schema
    BY <2>1, <2>3, <1>0 DEF OneSchema
  <2> QED BY <2>1, <2>2, <2>3, <2>4, <1>5, PushKeeps DEF Accept
<1>6. ASSUME NEW vector \in Vectors, Refuse(vector) PROVE IInv'
  <2>1. SchemaError(vector) \in Errors \cup {NoValue}
    BY DEF SchemaError, Errors
  <2> QED BY <2>1, <1>6, ControlPreserves DEF Refuse
<1>7. CASE Assessed
  BY <1>1, <1>7, ControlPreserves DEF Assessed
<1>8. CASE Look
  BY <1>8, LookPreserves
<1>9. CASE Selected
  BY <1>1, <1>9, ControlPreserves DEF Selected
<1>10. CASE Ended
  BY <1>10, <1>2 DEF Ended
<1> QED BY <1>2, <1>3, <1>4, <1>5, <1>6, <1>7, <1>8, <1>9, <1>10 DEF Next, Callback

----------------------------------------------------------------------------
(* The invariant holds in every reachable state.                           *)
THEOREM Invariant == Spec => []IInv
<1> QED BY InitEstablishes, NextPreserves, PTL DEF Spec

(* The alternatives stay the baseline and the scenarios in input order,    *)
(* each admissible or rejected.                                            *)
THEOREM TypeCorrect == Spec => []TypeOK
<1>1. IInv => TypeOK
  BY DEF IInv
<1> QED BY <1>1, Invariant, PTL

(* Whatever the callback answers, admissible alternatives are comparable.  *)
THEOREM AlwaysComparable == Spec => []Comparable
<1>1. IInv => Comparable
  <2> SUFFICES ASSUME IInv, NEW i \in Admissible, NEW j \in Admissible
               PROVE  /\ SchemaOf(Vector(i)) = SchemaOf(Vector(j))
                      /\ Vector(i) # <<>>
                      /\ \A k, m \in DOMAIN Vector(i) :
                           /\ Vector(i)[k].id # Blank
                           /\ Vector(i)[k].id = Vector(i)[m].id => k = m
    BY DEF Comparable
  <2>1. Vector(i) \in Vectors /\ SoundVector(Vector(i)) /\ SchemaOf(Vector(i)) = SchemaOf(Vector(j))
    BY DEF IInv, OneSchema
  <2>2. DOMAIN Vector(i) = 1 .. Len(Vector(i)) /\ Len(Vector(i)) \in Nat
    BY <2>1, SameSchema
  <2>3. ASSUME NEW k \in DOMAIN Vector(i), NEW m \in DOMAIN Vector(i), k < m
        PROVE  Vector(i)[k].id # Vector(i)[m].id
    <3>1. k \in 1 .. m - 1
      BY <2>2, <2>3
    <3>2. ~RepeatsId(Vector(i), m)
      BY <2>1 DEF SoundVector
    <3> QED BY <3>1, <3>2 DEF RepeatsId
  <2>4. ASSUME NEW k \in DOMAIN Vector(i), NEW m \in DOMAIN Vector(i),
               Vector(i)[k].id = Vector(i)[m].id
        PROVE  k = m
    BY <2>2, <2>3, <2>4
  <2> QED BY <2>1, <2>4 DEF SoundVector
<1> QED BY <1>1, Invariant, PTL

(* The lexicographic selection is the first of the best: nobody beats it,  *)
(* it beats every earlier alternative, and it exists as soon as something  *)
(* is admissible.                                                          *)
THEOREM EarliestBestSelected == Spec => []SelectionIsEarliestBest
<1>1. IInv => SelectionIsEarliestBest
  <2> SUFFICES ASSUME IInv, pc = "done"
               PROVE  /\ best = 0 <=> Admissible = {}
                      /\ best # 0 =>
                           /\ best \in Admissible
                           /\ \A j \in Admissible : ~Beats(j, best) /\ (j < best => Beats(best, j))
    BY DEF SelectionIsEarliestBest
  <2>1. TypeOK /\ next > Len(alternatives) /\ BestSoFar
    BY DEF IInv, Phases
  <2>2. \A j \in Admissible : j < next
    BY <2>1, Typed
  <2>3. \A j \in Admissible : ~(j >= next)
    BY <2>2, <2>1, Typed
  <2> QED BY <2>1, <2>2, <2>3 DEF BestSoFar
<1> QED BY <1>1, Invariant, PTL

----------------------------------------------------------------------------
(* The Pareto front.                                                       *)

(* Dominance is improvement in worth.                                      *)
LEMMA DominatesIsImproves ==
  ASSUME OneSchema, NEW i \in Admissible, NEW j \in Admissible
  PROVE  /\ Dominates(Vector(i), Vector(j)) <=> Improves(i, j)
         /\ Ranked(Vector(i), Vector(j), "Greater")
              = { k \in DOMAIN Vector(i) : Worth(i, k) > Worth(j, k) }
<1> DEFINE u == Vector(i)
<1> DEFINE v == Vector(j)
<1>1. u \in Vectors /\ v \in Vectors /\ SchemaOf(u) = SchemaOf(v)
  BY DEF OneSchema
<1>2. DOMAIN u = 1 .. Len(u) /\ Len(u) \in Nat /\ Len(v) = Len(u)
  BY <1>1, SameSchema
<1>3. \A k \in 1 .. Len(u) : Worth(i, k) = Worths(u)[k] /\ Worth(j, k) = Worths(v)[k]
  BY <1>2 DEF Worth, Worths
<1>4. \A k \in 1 .. Len(u) : Worths(u)[k] \in Int /\ Worths(v)[k] \in Int
  <2>1. Worths(u) \in [1 .. Len(u) -> Int] /\ Worths(v) \in [1 .. Len(v) -> Int]
    BY <1>1, WorthsType
  <2> QED BY <2>1, <1>2
<1> HIDE DEF u, v
<1>5. \A k \in 1 .. Len(u) :
        /\ (PreferredCmp(u[k], v[k]) = "Greater") <=> Worth(i, k) > Worth(j, k)
        /\ (PreferredCmp(u[k], v[k]) = "Less") <=> Worth(i, k) < Worth(j, k)
  BY <1>1, <1>3, PreferredIsWorth
<1>6. Ranked(u, v, "Greater") = { k \in DOMAIN u : Worth(i, k) > Worth(j, k) }
  BY <1>2, <1>5 DEF Ranked
<1>7. Ranked(u, v, "Less") = {} <=> \A k \in DOMAIN u : Worth(i, k) >= Worth(j, k)
  BY <1>2, <1>3, <1>4, <1>5 DEF Ranked
<1>8. Dominates(u, v) <=> Improves(i, j)
  BY <1>6, <1>7 DEF Dominates, Improves, u
<1> QED BY <1>6, <1>8 DEF u, v

(* Worths of admissible alternatives, index by index.                      *)
LEMMA WorthType ==
  ASSUME OneSchema, NEW i \in Admissible, NEW j \in Admissible
  PROVE  /\ DOMAIN Vector(i) \in SUBSET Nat /\ DOMAIN Vector(j) = DOMAIN Vector(i)
         /\ \A k \in DOMAIN Vector(i) : /\ k >= 1 /\ 1 .. k - 1 \subseteq DOMAIN Vector(i)
                                       /\ Worth(i, k) \in Int
<1>1. Vector(i) \in Vectors /\ Vector(j) \in Vectors /\ SchemaOf(Vector(i)) = SchemaOf(Vector(j))
  BY DEF OneSchema
<1>2. DOMAIN Vector(i) = 1 .. Len(Vector(i)) /\ DOMAIN Vector(j) = 1 .. Len(Vector(i))
      /\ Len(Vector(i)) \in Nat
  BY <1>1, SameSchema
<1>3. \A k \in DOMAIN Vector(i) : Worth(i, k) = Worths(Vector(i))[k]
  BY <1>2 DEF Worth, Worths
<1>4. \A k \in DOMAIN Vector(i) : Worth(i, k) \in Int
  BY <1>1, <1>2, <1>3, WorthsType
<1>5. \A k \in DOMAIN Vector(i) : k >= 1 /\ 1 .. k - 1 \subseteq DOMAIN Vector(i)
  BY <1>2
<1> QED BY <1>2, <1>4, <1>5

(* What improves an alternative also beats it.                             *)
LEMMA ImprovesBeats ==
  ASSUME OneSchema, NEW i \in Admissible, NEW j \in Admissible, Improves(i, j)
  PROVE  Beats(i, j)
<1> DEFINE T == { k \in DOMAIN Vector(i) : Worth(i, k) > Worth(j, k) }
<1>1. T # {} /\ T \in SUBSET Nat
  BY WorthType DEF Improves
<1>2. PICK k \in T : \A y \in T : k <= y
  BY <1>1, LeastMember
<1>3. \A m \in 1 .. k - 1 : Worth(i, m) = Worth(j, m)
  <2> SUFFICES ASSUME NEW m \in 1 .. k - 1 PROVE Worth(i, m) = Worth(j, m)
    OBVIOUS
  <2>1. m \in DOMAIN Vector(i) /\ m \in DOMAIN Vector(j) /\ k \in Nat
    BY WorthType
  <2>2. m \notin T
    BY <1>2, <2>1
  <2>3. Worth(i, m) >= Worth(j, m) /\ ~(Worth(i, m) > Worth(j, m))
    BY <2>1, <2>2 DEF Improves
  <2>4. Worth(i, m) \in Int /\ Worth(j, m) \in Int
    BY <2>1, WorthType
  <2> QED BY <2>3, <2>4
<1> QED BY <1>2, <1>3 DEF Beats

(* Improvement is transitive and never mutual.                             *)
LEMMA ImprovesOrder ==
  ASSUME OneSchema, NEW h \in Admissible, NEW i \in Admissible, NEW j \in Admissible,
         Improves(h, i)
  PROVE  /\ ~Improves(i, h)
         /\ Improves(i, j) => Improves(h, j)
<1>1. ~Improves(i, h)
  BY ImprovesBeats, BeatsAsymmetric
<1>2. ASSUME Improves(i, j) PROVE Improves(h, j)
  <2>1. /\ DOMAIN Vector(i) = DOMAIN Vector(h) /\ DOMAIN Vector(j) = DOMAIN Vector(h)
        /\ \A k \in DOMAIN Vector(h) :
             Worth(h, k) \in Int /\ Worth(i, k) \in Int /\ Worth(j, k) \in Int
    BY WorthType
  <2>2. \A k \in DOMAIN Vector(h) : Worth(h, k) >= Worth(i, k) /\ Worth(i, k) >= Worth(j, k)
    BY <1>2, <2>1 DEF Improves
  <2>3. PICK k \in DOMAIN Vector(h) : Worth(h, k) > Worth(i, k)
    BY DEF Improves
  <2>4. Worth(h, k) > Worth(j, k)
    BY <2>1, <2>2, <2>3
  <2>5. \A m \in DOMAIN Vector(h) : Worth(h, m) >= Worth(j, m)
    BY <2>1, <2>2
  <2> QED BY <2>3, <2>4, <2>5 DEF Improves
<1> QED BY <1>1, <1>2

(* Any admissible alternatives have a member that none of them beats: the  *)
(* least prefix of the positions without one is contradictory.             *)
LEMMA SomeBest ==
  ASSUME TypeOK, OneSchema, NEW T \in SUBSET Admissible, T # {}
  PROVE  \E b \in T : \A j \in T : ~Beats(j, b)
<1> DEFINE Upto(m) == { j \in T : j <= m }
<1> DEFINE Good(m) ==
      Upto(m) # {} => \E b \in Upto(m) : \A j \in Upto(m) : ~Beats(j, b)
<1> DEFINE Bad == { m \in Nat : ~Good(m) }
<1>1. T \in SUBSET Nat /\ \A j \in T : j >= 1 /\ j <= Len(alternatives)
  BY Typed
<1>2. Len(alternatives) \in Nat
  BY Typed
<1>3. ASSUME Bad # {} PROVE FALSE
  <2>1. PICK m \in Bad : \A y \in Bad : m <= y
    BY <1>3, LeastMember
  <2>2. m \in Nat /\ ~Good(m)
    BY <2>1
  <2>3. Upto(m) # {} /\ m >= 1
    <3>1. PICK j \in T : j <= m
      BY <2>2
    <3>2. j \in Nat /\ j >= 1
      BY <1>1
    <3>3. m >= 1
      BY <3>1, <3>2, <2>2
    <3> QED BY <3>1, <3>3
  <2>4. Good(m - 1)
    BY <2>1, <2>2, <2>3
  <2>5. \A j \in Upto(m) : j \in Upto(m - 1) \/ j = m
    BY <1>1, <2>2
  <2>6. Upto(m - 1) \subseteq Upto(m)
    <3>1. \A j \in T : j \in Nat
      BY <1>1
    <3>2. \A j \in Nat : j <= m - 1 => j <= m
      BY <2>2
    <3> QED BY <3>1, <3>2
  <2>7. CASE m \notin T
    <3>1. Upto(m) = Upto(m - 1)
      BY <2>5, <2>6, <2>7
    <3> QED BY <3>1, <2>2, <2>4
  <2>8. CASE m \in T /\ Upto(m - 1) = {}
    <3>1. \A j \in Upto(m) : j = m
      BY <2>5, <2>8
    <3>2. ~Beats(m, m)
      BY <2>8, BeatsAsymmetric
    <3>3. m \in Upto(m)
      BY <2>8, <2>2
    <3> QED BY <3>1, <3>2, <3>3, <2>2
  <2>9. CASE m \in T /\ Upto(m - 1) # {}
    <3>1. PICK b \in Upto(m - 1) : \A j \in Upto(m - 1) : ~Beats(j, b)
      BY <2>4, <2>9
    <3>2. m \in Upto(m) /\ b \in Upto(m) /\ b \in Admissible /\ m \in Admissible
      BY <2>9, <2>2, <2>6
    <3>3. CASE Beats(m, b)
      <4>1. \A j \in Upto(m - 1) : ~Beats(j, m)
        BY <3>1, <3>2, <3>3, BeatsAbove, BeatsAsymmetric
      <4>2. ~Beats(m, m)
        BY <3>2, BeatsAsymmetric
      <4> QED BY <4>1, <4>2, <3>2, <2>2, <2>5
    <3>4. CASE ~Beats(m, b)
      BY <3>1, <3>2, <3>4, <2>2, <2>5
    <3> QED BY <3>3, <3>4
  <2> QED BY <2>7, <2>8, <2>9
<1>4. Good(Len(alternatives))
  BY <1>2, <1>3
<1>5. Upto(Len(alternatives)) = T
  BY <1>1
<1> QED BY <1>4, <1>5

(* Off the front is exactly being improved by an admissible alternative.   *)
LEMMA FrontIsUnimproved ==
  ASSUME OneSchema, NEW i \in Admissible
  PROVE  i \in ParetoFront <=> \A j \in Admissible : ~Improves(j, i)
<1>1. i \in ParetoFront <=>
        ~\E j \in Admissible \ {i} : Dominates(Vector(j), Vector(i))
  BY DEF ParetoFront
<1>2. \A j \in Admissible : Dominates(Vector(j), Vector(i)) <=> Improves(j, i)
  BY DominatesIsImproves
<1>3. ~Improves(i, i)
  BY ImprovesOrder
<1> QED BY <1>1, <1>2, <1>3

(* Whatever is improved is improved by a member of the front.              *)
LEMMA FrontDominates ==
  ASSUME TypeOK, OneSchema, NEW i \in Admissible, i \notin ParetoFront
  PROVE  \E j \in ParetoFront : Improves(j, i)
<1> DEFINE T == { j \in Admissible : Improves(j, i) }
<1>1. T # {} /\ T \in SUBSET Admissible
  BY FrontIsUnimproved
<1>2. PICK b \in T : \A j \in T : ~Beats(j, b)
  BY <1>1, SomeBest
<1>3. ASSUME NEW k \in Admissible, Improves(k, b) PROVE FALSE
  <2>1. b \in Admissible /\ Improves(b, i)
    BY <1>2
  <2>2. Improves(k, i)
    BY <2>1, <1>3, ImprovesOrder
  <2>3. Beats(k, b)
    BY <2>1, <1>3, ImprovesBeats
  <2> QED BY <2>2, <2>3, <1>2
<1>4. b \in ParetoFront
  BY <1>2, <1>3, FrontIsUnimproved
<1> QED BY <1>2, <1>4

(* The front and the lexicographic selection agree: no front member can be *)
(* improved, everything else is improved by one, and the selection is on it. *)
THEOREM FrontAlwaysCovers == Spec => []FrontCovers
<1>1. IInv /\ SelectionIsEarliestBest => FrontCovers
  <2> SUFFICES ASSUME IInv, SelectionIsEarliestBest, pc = "done"
               PROVE  /\ \A i \in ParetoFront, j \in Admissible : ~Improves(j, i)
                      /\ \A i \in Admissible \ ParetoFront : \E j \in ParetoFront : Improves(j, i)
                      /\ best # 0 => best \in ParetoFront
    BY DEF FrontCovers
  <2>1. TypeOK /\ OneSchema
    BY DEF IInv
  <2>2. ParetoFront \subseteq Admissible
    BY DEF ParetoFront
  <2>3. \A i \in ParetoFront, j \in Admissible : ~Improves(j, i)
    BY <2>1, <2>2, FrontIsUnimproved
  <2>4. \A i \in Admissible \ ParetoFront : \E j \in ParetoFront : Improves(j, i)
    BY <2>1, FrontDominates
  <2>5. ASSUME best # 0 PROVE best \in ParetoFront
    <3>1. best \in Admissible /\ \A j \in Admissible : ~Beats(j, best)
      BY <2>5 DEF SelectionIsEarliestBest
    <3>2. \A j \in Admissible : ~Improves(j, best)
      BY <3>1, <2>1, ImprovesBeats
    <3> QED BY <3>1, <3>2, <2>1, FrontIsUnimproved
  <2> QED BY <2>3, <2>4, <2>5
<1> QED BY <1>1, Invariant, EarliestBestSelected, PTL

(* The dominance witnesses explain the front: they name exactly the        *)
(* alternatives off it, the objectives strictly improved, and a strict     *)
(* partial order.                                                          *)
THEOREM WitnessesAlwaysExplain == Spec => []WitnessesExplainFront
<1>1. IInv => WitnessesExplainFront
  <2> SUFFICES ASSUME IInv
               PROVE  /\ { w.dominated : w \in Witnesses } = Admissible \ ParetoFront
                      /\ \A w \in Witnesses :
                           /\ w.ids # {}
                           /\ w.ids = { Vector(w.dominator)[k].id :
                                k \in { k \in DOMAIN Vector(w.dominator) :
                                   Worth(w.dominator, k) # Worth(w.dominated, k) } }
                      /\ \A v, w \in Witnesses : v.dominated = w.dominator =>
                           /\ v.dominator # w.dominated
                           /\ \E u \in Witnesses : /\ u.dominator = v.dominator
                                                  /\ u.dominated = w.dominated
    BY DEF WitnessesExplainFront
  <2>1. TypeOK /\ OneSchema
    BY DEF IInv
  <2> DEFINE Named(i, j) == [dominator |-> i, dominated |-> j,
                             ids |-> StrictIds(Vector(i), Vector(j))]
  <2>2. \A i, j \in Admissible : Improves(i, j) => Named(i, j) \in Witnesses
    <3> SUFFICES ASSUME NEW i \in Admissible, NEW j \in Admissible, Improves(i, j)
                 PROVE  Named(i, j) \in Witnesses
      OBVIOUS
    <3>1. i # j
      BY <2>1, ImprovesOrder
    <3>2. <<i, j>> \in Dominations
      BY <2>1, <3>1, DominatesIsImproves DEF Dominations
    <3> QED BY <3>2 DEF Witnesses
  <2>3. ASSUME NEW w \in Witnesses
        PROVE  /\ w.dominator \in Admissible /\ w.dominated \in Admissible
               /\ Improves(w.dominator, w.dominated)
               /\ w.ids = StrictIds(Vector(w.dominator), Vector(w.dominated))
    <3>1. PICK p \in Dominations :
            w = [dominator |-> p[1], dominated |-> p[2],
                 ids |-> StrictIds(Vector(p[1]), Vector(p[2]))]
      BY DEF Witnesses
    <3>2. p[1] \in Admissible /\ p[2] \in Admissible /\ Dominates(Vector(p[1]), Vector(p[2]))
      BY DEF Dominations
    <3>3. Improves(p[1], p[2])
      BY <2>1, <3>2, DominatesIsImproves
    <3> QED BY <3>1, <3>2, <3>3
  <2>4. { w.dominated : w \in Witnesses } = Admissible \ ParetoFront
    <3>1. ASSUME NEW w \in Witnesses PROVE w.dominated \in Admissible \ ParetoFront
      BY <2>1, <2>3, FrontIsUnimproved
    <3>2. ASSUME NEW i \in Admissible \ ParetoFront
          PROVE  \E w \in Witnesses : i = w.dominated
      <4>1. PICK j \in Admissible : Improves(j, i)
        BY <2>1, FrontIsUnimproved
      <4>2. Named(j, i) \in Witnesses /\ Named(j, i).dominated = i
        BY <2>2, <4>1
      <4> QED BY <4>2
    <3> QED BY <3>1, <3>2
  <2>5. ASSUME NEW w \in Witnesses
        PROVE  /\ w.ids # {}
               /\ w.ids = { Vector(w.dominator)[k].id :
                     k \in { k \in DOMAIN Vector(w.dominator) :
                               Worth(w.dominator, k) # Worth(w.dominated, k) } }
    <3> DEFINE i == w.dominator
    <3> DEFINE j == w.dominated
    <3>1. i \in Admissible /\ j \in Admissible /\ Improves(i, j)
      BY <2>3
    <3>2. \A k \in DOMAIN Vector(i) : /\ Worth(i, k) \in Int /\ Worth(j, k) \in Int
                                    /\ Worth(i, k) >= Worth(j, k)
      BY <2>1, <3>1, WorthType DEF Improves
    <3>3. Ranked(Vector(i), Vector(j), "Greater")
            = { k \in DOMAIN Vector(i) : Worth(i, k) # Worth(j, k) }
      <4>1. Ranked(Vector(i), Vector(j), "Greater")
              = { k \in DOMAIN Vector(i) : Worth(i, k) > Worth(j, k) }
        BY <2>1, <3>1, DominatesIsImproves
      <4> QED BY <4>1, <3>2
    <3>4. Ranked(Vector(i), Vector(j), "Greater") # {}
      BY <2>1, <3>1, DominatesIsImproves DEF Dominates
    <3>5. w.ids = { Vector(i)[k].id : k \in Ranked(Vector(i), Vector(j), "Greater") }
      BY <2>3 DEF StrictIds
    <3> QED BY <3>3, <3>4, <3>5
  <2>6. ASSUME NEW v \in Witnesses, NEW w \in Witnesses, v.dominated = w.dominator
        PROVE  /\ v.dominator # w.dominated
               /\ \E u \in Witnesses : u.dominator = v.dominator /\ u.dominated = w.dominated
    <3>1. /\ v.dominator \in Admissible /\ v.dominated \in Admissible /\ w.dominated \in Admissible
          /\ Improves(v.dominator, v.dominated) /\ Improves(v.dominated, w.dominated)
      BY <2>3, <2>6
    <3>2. ~Improves(v.dominated, v.dominator) /\ Improves(v.dominator, w.dominated)
      BY <2>1, <3>1, ImprovesOrder
    <3>3. Named(v.dominator, w.dominated) \in Witnesses
      BY <2>2, <3>1, <3>2
    <3> QED BY <3>1, <3>2, <3>3
  <2> QED BY <2>4, <2>5, <2>6
<1> QED BY <1>1, Invariant, PTL

(* The front is always covered and explained.                              *)
THEOREM FrontAlwaysExplained == Spec => []FrontIsExplained
<1>1. FrontCovers /\ WitnessesExplainFront => FrontIsExplained
  BY DEF FrontIsExplained
<1> QED BY <1>1, FrontAlwaysCovers, WitnessesAlwaysExplain, PTL
=============================================================================
