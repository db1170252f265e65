------------------------- MODULE BoundExecutionProofs -------------------------
(***************************************************************************)
(* Theorems about hosts, whatever adapters, metrics and policies they are  *)
(* offered and in whatever order they register them, and about the         *)
(* publication of their records, for any number of publishers and          *)
(* processes, any interleaving of their steps and any number of crashes.   *)
(*                                                                         *)
(* Of a host the inductive invariant says that a registry names each thing *)
(* once and holds what was offered, and that a catalog that was exported   *)
(* and not changed since tells the truth: what it says of an id is what    *)
(* the registries say of it, now and after more was registered (HostInv).  *)
(* An execution is one step; what it calls, scores, selects and records is *)
(* followed through it (ExecutionInv).                                     *)
(*                                                                         *)
(* Of publication it says whose file every name is.  A publisher that has  *)
(* opened a temporary file holds it alone (Held): the file names it as its *)
(* author, so no two hold the same, and what is linked at the destination  *)
(* is a file whose author had written all of it (Written, Arrived).        *)
(* Results follow what happened to the destination (Reported); that nobody *)
(* publishes twice needs that nobody died (FirstTime); and every other     *)
(* name has a holder or was abandoned (Traced).                            *)
(***************************************************************************)
EXTENDS BoundExecution, FiniteSetTheorems, SequenceTheorems, WellFoundedInduction, TLAPS

----------------------------------------------------------------------------
(* Ranks.                                                                  *)

(* Every non-empty set of naturals has a least element.                    *)
LEMMA LeastExists ==
  ASSUME NEW T, T \subseteq Nat, T # {}
  PROVE  \E x \in T : \A y \in T : x <= y
<1> DEFINE R == OpToRel(<, Nat)
<1>1. \E x \in T : \A y \in T : ~ (<<y, x>> \in R)
  <2> HIDE DEF R
  <2>1. IsWellFoundedOn(R, Nat)
    BY NatLessThanWellFounded DEF R
  <2> QED BY <2>1, WFMin
<1>2. \A x, y \in Nat : <<y, x>> \in R <=> y < x
  BY DEF OpToRel
<1>3. PICK x \in T : \A y \in T : ~ (y < x)
  BY <1>1, <1>2
<1>4. \A y \in T : x <= y
  BY <1>3
<1> QED BY <1>4

(* In a finite set with a strict order, counting what comes before numbers *)
(* the elements in that order.                                             *)
LEMMA RanksAreAll ==
  ASSUME NEW S, IsFiniteSet(S), NEW R, NEW upTo \in [S -> SUBSET S],
         \A x \in S : <<x, x>> \notin R,
         \A x, y \in S : x # y => <<x, y>> \in R \/ <<y, x>> \in R,
         \A x, y, z \in S : <<x, y>> \in R /\ <<y, z>> \in R => <<x, z>> \in R,
         \A x, y \in S : y \in upTo[x] <=> <<y, x>> \in R \/ y = x
  PROVE  /\ Cardinality(S) \in Nat
         /\ \A x \in S : Cardinality(upTo[x]) \in 1 .. Cardinality(S)
         /\ \A x, y \in S : <<x, y>> \in R <=> Cardinality(upTo[x]) < Cardinality(upTo[y])
         /\ \A k \in 1 .. Cardinality(S) : \E x \in S : Cardinality(upTo[x]) = k
<1> DEFINE n == Cardinality(S)
           rank == [x \in S |-> Cardinality(upTo[x])]
<1>1. n \in Nat
  BY FS_CardinalityType
<1>2. ASSUME NEW x \in S
      PROVE  IsFiniteSet(upTo[x]) /\ rank[x] \in 1 .. n
  <2>1. upTo[x] \in SUBSET S /\ x \in upTo[x]
    OBVIOUS
  <2>2. IsFiniteSet(upTo[x]) /\ Cardinality(upTo[x]) <= n
    BY <2>1, FS_Subset
  <2>3. Cardinality(upTo[x]) \in Nat /\ Cardinality(upTo[x]) # 0
    BY <2>1, <2>2, FS_CardinalityType, FS_EmptySet
  <2> QED BY <1>1, <2>2, <2>3
<1>3. ASSUME NEW x \in S, NEW y \in S, <<x, y>> \in R
      PROVE  rank[x] < rank[y]
  <2>1. upTo[x] \in SUBSET upTo[y]
    <3>1. ASSUME NEW z \in upTo[x] PROVE z \in upTo[y]
      BY <1>3
    <3> QED BY <3>1
  <2>2. y \in upTo[y] /\ y \notin upTo[x]
    BY <1>3
  <2>3. /\ Cardinality(upTo[x]) <= Cardinality(upTo[y])
        /\ Cardinality(upTo[y]) = Cardinality(upTo[x]) => upTo[y] = upTo[x]
    BY <1>2, <2>1, FS_Subset
  <2> QED BY <1>2, <2>2, <2>3
<1>4. ASSUME NEW x \in S, NEW y \in S, x # y PROVE rank[x] # rank[y]
  <2>1. rank[x] \in Nat /\ rank[y] \in Nat
    BY <1>1, <1>2
  <2>2. rank[x] < rank[y] \/ rank[y] < rank[x]
    BY <1>3, <1>4
  <2> HIDE DEF rank
  <2> QED BY <2>1, <2>2
<1>5. ASSUME NEW x \in S, NEW y \in S, rank[x] < rank[y]
      PROVE  <<x, y>> \in R
  <2>1. rank[x] \in Nat /\ rank[y] \in Nat /\ x # y
    BY <1>2, <1>5
  <2>2. ~(rank[y] < rank[x])
    BY <1>5, <2>1
  <2> QED BY <1>3, <2>1, <2>2
<1>6. rank \in Injection(S, 1 .. n)
  BY <1>2, <1>4 DEF Injection, IsInjective
<1>7. rank \in Surjection(S, 1 .. n)
  <2>1. IsFiniteSet(1 .. n) /\ Cardinality(1 .. n) = n
    BY <1>1, FS_Interval
  <2> HIDE DEF rank
  <2> QED BY <1>6, <2>1, FS_Injection
<1>8. \A k \in 1 .. n : \E x \in S : rank[x] = k
  BY <1>7 DEF Surjection
<1> QED BY <1>1, <1>2, <1>3, <1>5, <1>8

----------------------------------------------------------------------------
(* Lists in the order of their ids.                                        *)

(* How many entries ById puts before the i-th and with it.                 *)
Before(entries, i) ==
  { j \in DOMAIN entries : entries[j].id < entries[i].id
                             \/ (entries[j].id = entries[i].id /\ j <= i) }
Place(entries, k) ==
  CHOOSE i \in DOMAIN entries : Cardinality(Before(entries, i)) = k

(* Where ById takes its entries from.                                      *)
LEMMA PlacesOf ==
  ASSUME NEW entries, IsList(entries)
  PROVE  /\ Len(entries) \in Nat /\ DOMAIN entries = 1 .. Len(entries)
         /\ \A i \in DOMAIN entries : entries[i].id \in Nat
         /\ ById(entries) = [k \in DOMAIN entries |-> entries[Place(entries, k)]]
         /\ \A k \in DOMAIN entries : Place(entries, k) \in DOMAIN entries
         /\ \A i \in DOMAIN entries : \E k \in DOMAIN entries : Place(entries, k) = i
         /\ \A j, k \in DOMAIN entries :
              j < k <=> LET p == Place(entries, j)
                            q == Place(entries, k)
                        IN  entries[p].id < entries[q].id \/ (entries[p].id = entries[q].id /\ p < q)
<1> DEFINE n == Len(entries)
           S == 1 .. n
           R == { p \in S \X S : \/ entries[p[1]].id < entries[p[2]].id
                                 \/ entries[p[1]].id = entries[p[2]].id /\ p[1] < p[2] }
           upTo == [i \in S |-> Before(entries, i)]
<1>1. n \in Nat /\ DOMAIN entries = S
  BY DEF IsList
<1>2. \A i \in S : entries[i].id \in Nat
  BY <1>1 DEF IsList, IdsIn, Elements
<1>3. IsFiniteSet(S) /\ Cardinality(S) = n
  <2>1. 1 \in Int /\ n \in Int
    BY <1>1
  <2>2. IsFiniteSet(1 .. n) /\ Cardinality(1 .. n) = IF 1 > n THEN 0 ELSE n - 1 + 1
    BY <2>1, FS_Interval
  <2> QED BY <1>1, <2>2
<1>4. \A x, y \in S : <<x, y>> \in R <=> \/ entries[x].id < entries[y].id
                                         \/ entries[x].id = entries[y].id /\ x < y
  OBVIOUS
<1>5. upTo \in [S -> SUBSET S]
  BY <1>1 DEF Before
<1> HIDE DEF R
<1>6. \A x, y \in S : y \in upTo[x] <=> <<y, x>> \in R \/ y = x
  BY <1>1, <1>2, <1>4 DEF Before
<1>7. \A x \in S : <<x, x>> \notin R
  BY <1>2, <1>4
<1>8. \A x, y \in S : x # y => <<x, y>> \in R \/ <<y, x>> \in R
  BY <1>2, <1>4
<1>9. ASSUME NEW x \in S, NEW y \in S, NEW z \in S, <<x, y>> \in R, <<y, z>> \in R
      PROVE  <<x, z>> \in R
  <2>1. entries[x].id \in Nat /\ entries[y].id \in Nat /\ entries[z].id \in Nat
    BY <1>2
  <2>2. \/ entries[x].id < entries[y].id
        \/ entries[x].id = entries[y].id /\ x < y
    BY <1>4, <1>9
  <2>3. \/ entries[y].id < entries[z].id
        \/ entries[y].id = entries[z].id /\ y < z
    BY <1>4, <1>9
  <2>4. \/ entries[x].id < entries[z].id
        \/ entries[x].id = entries[z].id /\ x < z
    BY <2>1, <2>2, <2>3
  <2> QED BY <1>4, <2>4
<1> HIDE DEF upTo
<1>10. /\ \A x \in S : Cardinality(upTo[x]) \in 1 .. n
       /\ \A x, y \in S : <<x, y>> \in R <=> Cardinality(upTo[x]) < Cardinality(upTo[y])
       /\ \A k \in 1 .. n : \E x \in S : Cardinality(upTo[x]) = k
  <2> HIDE DEF S
  <2>1. \A x, y, z \in S : <<x, y>> \in R /\ <<y, z>> \in R => <<x, z>> \in R
    BY <1>9
  <2>2. /\ \A x \in S : Cardinality(upTo[x]) \in 1 .. Cardinality(S)
        /\ \A x, y \in S : <<x, y>> \in R <=> Cardinality(upTo[x]) < Cardinality(upTo[y])
        /\ \A k \in 1 .. Cardinality(S) : \E x \in S : Cardinality(upTo[x]) = k
    <3> HIDE DEF n
    <3> QED BY <1>3, <1>5, <1>6, <1>7, <1>8, <2>1, RanksAreAll, Zenon
  <2> QED BY <1>3, <2>2
<1>11. \A x \in S : upTo[x] = Before(entries, x)
  BY DEF upTo
<1>12. \A k \in S : Place(entries, k) \in S /\ Cardinality(upTo[Place(entries, k)]) = k
  BY <1>1, <1>10, <1>11 DEF Place
<1>13. \A i \in S : \E k \in S : Place(entries, k) = i
  <2> TAKE i \in S
  <2>1. PICK k \in S : Cardinality(upTo[i]) = k
    BY <1>10
  <2>2. Place(entries, k) \in S /\ Cardinality(upTo[Place(entries, k)]) = k
    BY <1>12
  <2>3. k \in Nat /\ ~(k < k)
    BY <1>1
  <2>4. Place(entries, k) = i
    BY <1>8, <1>10, <2>1, <2>2, <2>3
  <2> QED BY <2>4
<1>14. ASSUME NEW j \in S, NEW k \in S
       PROVE  j < k <=> LET p == Place(entries, j)
                            q == Place(entries, k)
                        IN  entries[p].id < entries[q].id \/ (entries[p].id = entries[q].id /\ p < q)
  <2>1. PICK p \in S : p = Place(entries, j) /\ Cardinality(upTo[p]) = j
    BY <1>12
  <2>2. PICK q \in S : q = Place(entries, k) /\ Cardinality(upTo[q]) = k
    BY <1>12
  <2>3. j < k <=> <<p, q>> \in R
    BY <1>10, <2>1, <2>2, ZenonT(60)
  <2> QED BY <1>4, <2>1, <2>2, <2>3
<1>15. ById(entries) = [k \in DOMAIN entries |-> entries[Place(entries, k)]]
  BY DEF ById, Place, Before
<1> QED BY <1>1, <1>2, <1>12, <1>13, <1>14, <1>15

(* ById keeps the entries, sorts them, and leaves a sorted list alone.     *)
LEMMA Sorting ==
  ASSUME NEW entries, IsList(entries)
  PROVE  /\ DOMAIN ById(entries) = DOMAIN entries /\ IsList(ById(entries))
         /\ Elements(ById(entries)) = Elements(entries)
         /\ Distinct(IdAtEach(ById(entries))) <=> Distinct(IdAtEach(entries))
         /\ Distinct(IdAtEach(entries)) => OnceEach(ById(entries))
         /\ OnceEach(entries) => ById(entries) = entries
<1> DEFINE n == Len(entries)
           S == DOMAIN entries
           s == ById(entries)
           At(k) == Place(entries, k)
<1>1. /\ n \in Nat /\ S = 1 .. n /\ DOMAIN s = S
      /\ \A i \in S : entries[i].id \in Nat
      /\ \A k \in S : At(k) \in S /\ s[k] = entries[At(k)]
      /\ \A i \in S : \E k \in S : At(k) = i
      /\ \A j, k \in S : j < k <=> \/ entries[At(j)].id < entries[At(k)].id
                                   \/ entries[At(j)].id = entries[At(k)].id /\ At(j) < At(k)
  BY PlacesOf, SMTT(30)
<1>a. s = [k \in S |-> s[k]]
  BY PlacesOf
<1> HIDE DEF s, At
<1>2. Elements(s) = Elements(entries)
  BY <1>1 DEF Elements
<1>3. IsList(s)
  <2>1. s \in Seq(Elements(s))
    <3>1. \A k \in 1 .. n : s[k] \in Elements(s)
      BY <1>1 DEF Elements
    <3>2. s = [k \in 1 .. n |-> s[k]]
      BY <1>1, <1>a
    <3> QED BY <1>1, <3>1, <3>2
  <2>2. IdsIn(Elements(s)) \subseteq Nat
    BY <1>2 DEF IsList
  <2> QED BY <2>1, <2>2 DEF IsList
<1>4. \A i, j \in S : i # j => At(i) # At(j)
  <2> SUFFICES ASSUME NEW i \in S, NEW j \in S, i # j, At(i) = At(j) PROVE FALSE
    OBVIOUS
  <2>1. i < j \/ j < i
    BY <1>1
  <2>2. PICK p \in S : p = At(i) /\ p = At(j)
    BY <1>1
  <2>3. entries[p].id \in Nat /\ p \in Nat
    BY <1>1
  <2>4. i < j \/ j < i => entries[p].id < entries[p].id \/ p < p
    BY <1>1, <2>2
  <2>5. ~(i < j) /\ ~(j < i)
    BY <2>3, <2>4
  <2> QED BY <2>1, <2>5
<1>5. Distinct(IdAtEach(entries)) <=> \A i, j \in S : i # j => entries[i].id # entries[j].id
  <2>1. Distinct(IdAtEach(entries)) <=> \A i, j \in S : i < j => entries[i].id # entries[j].id
    BY DEF Distinct, IdAtEach
  <2> QED BY <1>1, <2>1
<1>6. Distinct(IdAtEach(s)) <=> \A i, j \in S : i # j => s[i].id # s[j].id
  <2>1. Distinct(IdAtEach(s)) <=> \A i, j \in S : i < j => s[i].id # s[j].id
    BY <1>1 DEF Distinct, IdAtEach
  <2> QED BY <1>1, <2>1
<1>7. Distinct(IdAtEach(s)) <=> Distinct(IdAtEach(entries))
  <2>1. ASSUME \A i, j \in S : i # j => entries[i].id # entries[j].id,
               NEW i \in S, NEW j \in S, i # j
        PROVE  s[i].id # s[j].id
    <3>1. PICK p \in S : p = At(i) /\ s[i] = entries[p]
      BY <1>1
    <3>2. PICK q \in S : q = At(j) /\ s[j] = entries[q]
      BY <1>1
    <3>3. p # q
      BY <1>4, <2>1, <3>1, <3>2
    <3> QED BY <2>1, <3>1, <3>2, <3>3
  <2>2. ASSUME \A i, j \in S : i # j => s[i].id # s[j].id, NEW i \in S, NEW j \in S, i # j
        PROVE  entries[i].id # entries[j].id
    <3>1. PICK k \in S : At(k) = i
      BY <1>1
    <3>2. PICK l \in S : At(l) = j
      BY <1>1
    <3>3. k # l /\ s[k] = entries[i] /\ s[l] = entries[j]
      BY <1>1, <2>2, <3>1, <3>2
    <3> QED BY <2>2, <3>3
  <2> QED BY <1>5, <1>6, <2>1, <2>2
<1>8. ASSUME Distinct(IdAtEach(entries)) PROVE OnceEach(s)
  <2>1. ASSUME NEW i \in S, NEW j \in S, i < j PROVE s[i].id < s[j].id
    <3>1. s[i].id # s[j].id
      BY <1>1, <1>6, <1>7, <1>8, <2>1
    <3>2. \/ s[i].id < s[j].id
          \/ s[i].id = s[j].id
      <4>1. PICK p \in S : p = At(i) /\ s[i] = entries[p]
        BY <1>1
      <4>2. PICK q \in S : q = At(j) /\ s[j] = entries[q]
        BY <1>1
      <4>3. entries[p].id < entries[q].id \/ (entries[p].id = entries[q].id /\ p < q)
        BY <1>1, <2>1, <4>1, <4>2, ZenonT(60)
      <4> QED BY <4>1, <4>2, <4>3
    <3> QED BY <3>1, <3>2
  <2> QED BY <1>1, <2>1 DEF OnceEach
<1>9. ASSUME OnceEach(entries) PROVE s = entries
  <2>1. \A i, j \in S : i < j => entries[i].id < entries[j].id
    BY <1>9 DEF OnceEach
  <2>2. ASSUME NEW i \in S PROVE Cardinality(Before(entries, i)) = i
    <3>0. i \in Nat
      BY <1>1
    <3>1. Before(entries, i) = 1 .. i
      <4>1. ASSUME NEW j \in S PROVE j \in Before(entries, i) <=> j <= i
        <5>0. /\ j \in Nat
              /\ j \in Before(entries, i) <=>
                    entries[j].id < entries[i].id \/ (entries[j].id = entries[i].id /\ j <= i)
          BY <1>1 DEF Before
        <5>1. j < i \/ j = i \/ i < j
          BY <1>1
        <5>2. entries[i].id \in Nat /\ entries[j].id \in Nat
          BY <1>1
        <5>3. CASE j < i
          <6>1. entries[j].id < entries[i].id
            BY <2>1, <5>3
          <6> QED BY <3>0, <5>0, <5>3, <6>1
        <5>4. CASE j = i
          BY <3>0, <5>0, <5>4
        <5>5. CASE i < j
          <6>1. entries[i].id < entries[j].id
            BY <2>1, <5>5
          <6> QED BY <3>0, <5>0, <5>2, <5>5, <6>1
        <5> QED BY <5>1, <5>3, <5>4, <5>5
      <4>2. Before(entries, i) \subseteq S /\ 1 .. i \subseteq S
        BY <1>1 DEF Before
      <4>3. \A j : j \in Before(entries, i) <=> j \in 1 .. i
        BY <1>1, <3>0, <4>1, <4>2
      <4> QED BY <4>3
    <3>2. 1 \in Int /\ i \in Int /\ ~(1 > i)
      BY <1>1
    <3>3. Cardinality(1 .. i) = IF 1 > i THEN 0 ELSE i - 1 + 1
      BY <3>2, FS_Interval
    <3> QED BY <3>0, <3>1, <3>2, <3>3
  <2>3. ASSUME NEW k \in S PROVE s[k] = entries[k]
    <3>1. At(k) \in S /\ Cardinality(Before(entries, At(k))) = k
      BY <2>2 DEF At, Place
    <3>2. At(k) = k
      BY <2>2, <3>1
    <3> QED BY <1>1, <3>2
  <2>4. s = [k \in S |-> entries[k]]
    BY <1>a, <2>3
  <2>5. entries = [k \in S |-> entries[k]]
    BY DEF IsList
  <2> QED BY <2>4, <2>5
<1> QED BY <1>1, <1>2, <1>3, <1>7, <1>8, <1>9 DEF s

----------------------------------------------------------------------------
(* Checks in a row.                                                        *)

(* There is no first error exactly when no check fires.                    *)
LEMMA NoFirstError ==
  ASSUME NEW checks, DOMAIN checks \subseteq Nat,
         \A i \in DOMAIN checks : checks[i][2] # NoError
  PROVE  FirstError(checks) = NoError <=> \A i \in DOMAIN checks : ~checks[i][1]
<1> DEFINE fired == { i \in DOMAIN checks : checks[i][1] }
<1>1. FirstError(checks) = IF fired = {} THEN NoError ELSE checks[Min(fired)][2]
  BY Zenon DEF FirstError
<1>2. ASSUME fired # {} PROVE Min(fired) \in DOMAIN checks
  <2>1. \E x \in fired : \A y \in fired : x <= y
    BY <1>2, LeastExists
  <2>2. Min(fired) \in fired
    BY <2>1 DEF Min
  <2> QED BY <2>2
<1>3. fired = {} <=> \A i \in DOMAIN checks : ~checks[i][1]
  OBVIOUS
<1> QED BY <1>1, <1>2, <1>3

(* No part has an error exactly when no part reports one.                  *)
LEMMA NoFirstOf ==
  ASSUME NEW errors, DOMAIN errors \subseteq Nat
  PROVE  FirstOf(errors) = NoError <=> \A i \in DOMAIN errors : errors[i] = NoError
<1>1. PICK c : c = [i \in DOMAIN errors |-> <<errors[i] # NoError, errors[i]>>]
  OBVIOUS
<1>2. DOMAIN c = DOMAIN errors
      /\ \A i \in DOMAIN errors : (c[i][1] <=> errors[i] # NoError) /\ c[i][2] = errors[i]
  <2>1. DOMAIN c = DOMAIN errors
    BY <1>1
  <2>2. ASSUME NEW i \in DOMAIN errors
        PROVE  (c[i][1] <=> errors[i] # NoError) /\ c[i][2] = errors[i]
    <3>1. c[i] = <<errors[i] # NoError, errors[i]>>
      BY <1>1
    <3>2. c[i][1] = (errors[i] # NoError)
      BY <3>1
    <3>3. c[i][2] = errors[i]
      BY <3>1
    <3> QED BY <3>2, <3>3
  <2> QED BY <2>1, <2>2
<1>3. FirstOf(errors) = FirstError(c)
  BY <1>1, Zenon DEF FirstOf
<1> DEFINE fired == { i \in DOMAIN c : c[i][1] }
<1>4. FirstError(c) = IF fired = {} THEN NoError ELSE c[Min(fired)][2]
  BY Zenon DEF FirstError
<1>5. ASSUME fired # {} PROVE c[Min(fired)][2] # NoError
  <2>1. \E x \in fired : \A y \in fired : x <= y
    BY <1>2, <1>5, LeastExists
  <2>2. Min(fired) \in fired
    BY <2>1 DEF Min
  <2> QED BY <1>2, <2>2
<1>6. fired = {} <=> \A i \in DOMAIN errors : errors[i] = NoError
  BY <1>2
<1> QED BY <1>3, <1>4, <1>5, <1>6

LEMMA NoneOfTwo ==
  ASSUME NEW a, NEW b
  PROVE  FirstOf(<<a, b>>) = NoError <=> a = NoError /\ b = NoError
<1>1. PICK q : q = <<a, b>>
  OBVIOUS
<1>2. DOMAIN q = {1, 2} /\ q[1] = a /\ q[2] = b
  BY <1>1
<1> QED BY <1>1, <1>2, NoFirstOf

LEMMA NoneOfThree ==
  ASSUME NEW a, NEW b, NEW c
  PROVE  FirstOf(<<a, b, c>>) = NoError <=> a = NoError /\ b = NoError /\ c = NoError
<1>1. PICK q : q = <<a, b, c>>
  OBVIOUS
<1>2. DOMAIN q = {1, 2, 3} /\ q[1] = a /\ q[2] = b /\ q[3] = c
  BY <1>1
<1> QED BY <1>1, <1>2, NoFirstOf

LEMMA NoneOfSix ==
  ASSUME NEW a, NEW b, NEW c, NEW d, NEW e, NEW f
  PROVE  FirstOf(<<a, b, c, d, e, f>>) = NoError <=>
           a = NoError /\ b = NoError /\ c = NoError /\ d = NoError /\ e = NoError /\ f = NoError
<1>1. PICK q : q = <<a, b, c, d, e, f>>
  OBVIOUS
<1>2. DOMAIN q = 1 .. 6
  BY <1>1
<1>3. q[1] = a /\ q[2] = b /\ q[3] = c /\ q[4] = d /\ q[5] = e /\ q[6] = f
  BY <1>1
<1>4. \A i \in 1 .. 6 : i = 1 \/ i = 2 \/ i = 3 \/ i = 4 \/ i = 5 \/ i = 6
  OBVIOUS
<1>5. (\A i \in DOMAIN q : q[i] = NoError) <=>
        a = NoError /\ b = NoError /\ c = NoError /\ d = NoError /\ e = NoError /\ f = NoError
  BY <1>2, <1>3, <1>4
<1>6. FirstOf(q) = NoError <=> \A i \in DOMAIN q : q[i] = NoError
  <2>1. DOMAIN q \subseteq Nat
    BY <1>2
  <2> QED BY <2>1, NoFirstOf
<1> QED BY <1>1, <1>5, <1>6

(* One check, two checks and three.                                        *)
LEMMA OneCheck ==
  ASSUME NEW p \in BOOLEAN, NEW e, e # NoError
  PROVE  FirstError(<< <<p, e>> >>) = NoError <=> ~p
<1>1. PICK q : q = << <<p, e>> >>
  OBVIOUS
<1>2. DOMAIN q = {1} /\ q[1] = <<p, e>>
  BY <1>1
<1>3. q[1][1] = p /\ q[1][2] = e
  BY <1>2
<1>4. FirstError(q) = NoError <=> \A i \in DOMAIN q : ~q[i][1]
  BY <1>2, <1>3, NoFirstError
<1> QED BY <1>1, <1>2, <1>3, <1>4

LEMMA TwoChecks ==
  ASSUME NEW p1 \in BOOLEAN, NEW e1, e1 # NoError, NEW p2 \in BOOLEAN, NEW e2, e2 # NoError
  PROVE  FirstError(<< <<p1, e1>>, <<p2, e2>> >>) = NoError <=> ~p1 /\ ~p2
<1>1. PICK q : q = << <<p1, e1>>, <<p2, e2>> >>
  OBVIOUS
<1>2. DOMAIN q = {1, 2} /\ q[1] = <<p1, e1>> /\ q[2] = <<p2, e2>>
  BY <1>1
<1>3. q[1][1] = p1 /\ q[1][2] = e1 /\ q[2][1] = p2 /\ q[2][2] = e2
  BY <1>2
<1>4. FirstError(q) = NoError <=> \A i \in DOMAIN q : ~q[i][1]
  BY <1>2, <1>3, NoFirstError
<1> QED BY <1>1, <1>2, <1>3, <1>4

LEMMA ThreeChecks ==
  ASSUME NEW p1 \in BOOLEAN, NEW e1, e1 # NoError, NEW p2 \in BOOLEAN, NEW e2, e2 # NoError,
         NEW p3 \in BOOLEAN, NEW e3, e3 # NoError
  PROVE  FirstError(<< <<p1, e1>>, <<p2, e2>>, <<p3, e3>> >>) = NoError <=> ~p1 /\ ~p2 /\ ~p3
<1>1. PICK q : q = << <<p1, e1>>, <<p2, e2>>, <<p3, e3>> >>
  OBVIOUS
<1>2. DOMAIN q = {1, 2, 3} /\ q[1] = <<p1, e1>> /\ q[2] = <<p2, e2>> /\ q[3] = <<p3, e3>>
  BY <1>1
<1>3. /\ q[1][1] = p1 /\ q[1][2] = e1 /\ q[2][1] = p2 /\ q[2][2] = e2
      /\ q[3][1] = p3 /\ q[3][2] = e3
  BY <1>2
<1>4. FirstError(q) = NoError <=> \A i \in DOMAIN q : ~q[i][1]
  BY <1>2, <1>3, NoFirstError
<1> QED BY <1>1, <1>2, <1>3, <1>4

----------------------------------------------------------------------------
(* Registries.                                                             *)

RegistryOk(registry) ==
  /\ IsFiniteSet(registry)
  /\ \A e \in registry : e.id \in Nat
  /\ \A d, e \in registry : d.id = e.id => d = e

LEMMA RegisterKeeps ==
  ASSUME NEW registry, RegistryOk(registry), NEW entry, entry.id \in Nat
  PROVE  /\ RegistryOk(Register(registry, entry))
         /\ registry \subseteq Register(registry, entry)
         /\ Register(registry, entry) \subseteq registry \cup {entry}
<1>1. CASE entry.id \in IdsIn(registry)
  BY <1>1 DEF Register
<1>2. CASE entry.id \notin IdsIn(registry)
  <2>1. Register(registry, entry) = registry \cup {entry}
    BY <1>2 DEF Register
  <2>2. \A e \in registry : e.id # entry.id
    BY <1>2 DEF IdsIn
  <2>3. IsFiniteSet(registry \cup {entry})
    BY FS_AddElement DEF RegistryOk
  <2> QED BY <2>1, <2>2, <2>3 DEF RegistryOk
<1> QED BY <1>1, <1>2

(* The listing of a registry has each of its entries once, in their order. *)
LEMMA ListingIs ==
  ASSUME NEW registry, RegistryOk(registry)
  PROVE  /\ Cardinality(registry) \in Nat
         /\ DOMAIN Listing(registry) = 1 .. Cardinality(registry)
         /\ \A k \in DOMAIN Listing(registry) : Listing(registry)[k] \in registry
         /\ \A j, k \in DOMAIN Listing(registry) :
              j < k => Listing(registry)[j].id < Listing(registry)[k].id
         /\ \A e \in registry : \E k \in DOMAIN Listing(registry) : Listing(registry)[k] = e
<1> DEFINE n == Cardinality(registry)
           R == { p \in registry \X registry : p[1].id < p[2].id }
           upTo == [e \in registry |-> { x \in registry : x.id <= e.id }]
           l == Listing(registry)
<1>1. IsFiniteSet(registry) /\ \A e \in registry : e.id \in Nat
  BY DEF RegistryOk
<1>2. \A x, y \in registry : <<x, y>> \in R <=> x.id < y.id
  OBVIOUS
<1>3. upTo \in [registry -> SUBSET registry]
  OBVIOUS
<1>4. \A e \in registry : upTo[e] = { x \in registry : x.id <= e.id }
  OBVIOUS
<1> HIDE DEF R, upTo
<1>5. \A x, y \in registry : y \in upTo[x] <=> <<y, x>> \in R \/ y = x
  BY <1>1, <1>2, <1>4 DEF RegistryOk
<1>6. \A x \in registry : <<x, x>> \notin R
  BY <1>1, <1>2
<1>7. \A x, y \in registry : x # y => <<x, y>> \in R \/ <<y, x>> \in R
  BY <1>1, <1>2 DEF RegistryOk
<1>8. \A x, y, z \in registry : <<x, y>> \in R /\ <<y, z>> \in R => <<x, z>> \in R
  BY <1>1, <1>2
<1>9. /\ n \in Nat
      /\ \A x, y \in registry : <<x, y>> \in R <=> Cardinality(upTo[x]) < Cardinality(upTo[y])
      /\ \A k \in 1 .. n : \E x \in registry : Cardinality(upTo[x]) = k
      /\ \A x \in registry : Cardinality(upTo[x]) \in 1 .. n
  BY <1>1, <1>3, <1>5, <1>6, <1>7, <1>8, RanksAreAll, Zenon
<1>10. /\ DOMAIN l = 1 .. n
       /\ \A k \in 1 .. n :
            l[k] = CHOOSE e \in registry : Cardinality({ x \in registry : x.id <= e.id }) = k
  BY DEF Listing
<1>11. \A k \in 1 .. n : l[k] \in registry /\ Cardinality(upTo[l[k]]) = k
  <2> TAKE k \in 1 .. n
  <2>1. \E e \in registry : Cardinality({ x \in registry : x.id <= e.id }) = k
    BY <1>4, <1>9
  <2>2. l[k] \in registry /\ Cardinality({ x \in registry : x.id <= l[k].id }) = k
    BY <1>10, <2>1, Zenon
  <2> QED BY <1>4, <2>2
<1> HIDE DEF l
<1>12. ASSUME NEW j \in 1 .. n, NEW k \in 1 .. n, j < k PROVE l[j].id < l[k].id
  BY <1>2, <1>9, <1>11, <1>12
<1>13. ASSUME NEW e \in registry PROVE \E k \in 1 .. n : l[k] = e
  <2>1. PICK k \in 1 .. n : Cardinality(upTo[e]) = k
    BY <1>9
  <2>2. l[k] \in registry /\ Cardinality(upTo[l[k]]) = k /\ k \in Nat /\ ~(k < k)
    BY <1>9, <1>11
  <2>3. l[k] = e
    BY <1>7, <1>9, <2>1, <2>2
  <2> QED BY <2>3
<1> QED BY <1>9, <1>10, <1>11, <1>12, <1>13 DEF l

(* What a catalog says of an entry.                                        *)
Told(e) == [id |-> e.id, version |-> e.version]

LEMMA EntriesAre ==
  ASSUME NEW registry, RegistryOk(registry)
  PROVE  /\ IsList(Entries(registry)) /\ OnceEach(Entries(registry))
         /\ Elements(Entries(registry)) = { Told(e) : e \in registry }
<1> DEFINE l == Listing(registry)
           t == Entries(registry)
           n == Cardinality(registry)
<1>1. /\ n \in Nat /\ DOMAIN l = 1 .. n /\ \A k \in 1 .. n : l[k] \in registry
      /\ \A j, k \in 1 .. n : j < k => l[j].id < l[k].id
      /\ \A e \in registry : \E k \in 1 .. n : l[k] = e
  BY ListingIs
<1>2. t = [k \in 1 .. n |-> Told(l[k])]
  BY <1>1 DEF Entries, Told
<1> HIDE DEF l, t, n
<1>3. Elements(t) = { Told(e) : e \in registry }
  BY <1>1, <1>2 DEF Elements
<1>4. OnceEach(t)
  BY <1>1, <1>2 DEF OnceEach, Told
<1>5. IsList(t)
  <2>1. t \in Seq(Elements(t))
    <3>1. \A k \in 1 .. n : Told(l[k]) \in Elements(t)
      BY <1>1, <1>2 DEF Elements
    <3> QED BY <1>1, <1>2, <3>1
  <2>2. IdsIn(Elements(t)) \subseteq Nat
    BY <1>3 DEF IdsIn, Told, RegistryOk
  <2> QED BY <2>1, <2>2 DEF IsList
<1> QED BY <1>3, <1>4, <1>5 DEF t

----------------------------------------------------------------------------
(* Adapters.                                                               *)

(* What is registered of an offer.                                         *)
EntryFor(offer) ==
  [id |-> offer.metadata.id, metadata |-> MetadataOf(offer.metadata), engine |-> offer.engine]

AdaptersOk ==
  /\ RegistryOk(adapters)
  /\ \A e \in adapters : \E offer \in AdapterOffers :
       MetadataError(offer.metadata) = NoError /\ e = EntryFor(offer)

LEMMA MetadataOfKeeps ==
  ASSUME NEW metadata, IsMetadata(metadata)
  PROVE  /\ MetadataOf(metadata).id = metadata.id
         /\ MetadataOf(metadata).version = metadata.version
         /\ MetadataOf(metadata).upstream = metadata.upstream
         /\ MetadataOf(metadata).capabilities = ById(metadata.capabilities)
         /\ OfferedBy(MetadataOf(metadata)) = OfferedBy(metadata)
         /\ IsMetadata(MetadataOf(metadata))
<1>1. IsList(ById(metadata.capabilities))
  BY Sorting DEF IsMetadata
<1>2. PICK sorted : sorted = ById(metadata.capabilities)
  OBVIOUS
<1>3. MetadataOf(metadata) = [metadata EXCEPT !.capabilities = sorted]
  BY <1>2 DEF MetadataOf
<1> QED BY <1>1, <1>2, <1>3 DEF IsMetadata, OfferedBy

(* Metadata that could be made can be offered.                             *)
LEMMA MadeCanBeOffered ==
  ASSUME NEW metadata, MetadataError(metadata) = NoError
  PROVE  OfferedError(OfferedBy(metadata)) = NoError
<1>1. PICK c : c = <<
               <<metadata.version.major = 0, "ZeroMajorVersion">>,
               <<metadata.capabilities = <<>>, "EmptyCapabilities">>,
               <<~Distinct([i \in DOMAIN metadata.capabilities |-> metadata.capabilities[i].id]),
                 "DuplicateCapability">>,
               <<metadata.id = 0, "InvalidNamespacedId">> >>
  OBVIOUS
<1>2. UpstreamError(metadata.upstream) = NoError /\ FirstError(c) = NoError
  <2>1. MetadataError(metadata) =
          FirstOf(<< UpstreamError(metadata.upstream),
                     FirstOf([i \in DOMAIN metadata.capabilities |->
                                EntryError(metadata.capabilities[i])]), FirstError(c) >>)
    BY <1>1, Zenon DEF MetadataError
  <2> QED BY <2>1, NoneOfThree
<1>3. DOMAIN c = 1 .. 4 /\ \A i \in 1 .. 4 : c[i][2] # NoError
  <2>1. \A i \in 1 .. 4 : i = 1 \/ i = 2 \/ i = 3 \/ i = 4
    OBVIOUS
  <2> QED BY <1>1, <2>1 DEF NoError
<1>4. ~c[1][1] /\ ~c[4][1]
  <2>1. DOMAIN c \subseteq Nat
    BY <1>3
  <2>2. \A i \in DOMAIN c : ~c[i][1]
    BY <1>2, <1>3, <2>1, NoFirstError
  <2> QED BY <1>3, <2>2
<1>5. c[1][1] = (metadata.version.major = 0) /\ c[4][1] = (metadata.id = 0)
  BY <1>1
<1>6. PICK offered : offered = OfferedBy(metadata)
  OBVIOUS
<1>7. offered.id # 0 /\ offered.version.major # 0 /\ offered.upstream = metadata.upstream
  BY <1>4, <1>5, <1>6 DEF OfferedBy
<1>8. FirstError(<< <<offered.version.major = 0, "ZeroMajorVersion">> >>) = NoError
  <2>1. "ZeroMajorVersion" # NoError
    BY DEF NoError
  <2> QED BY <1>7, <2>1, OneCheck
<1>9. FirstError(<< <<offered.id = 0, "InvalidNamespacedId">> >>) = NoError
  <2>1. "InvalidNamespacedId" # NoError
    BY DEF NoError
  <2> QED BY <1>7, <2>1, OneCheck
<1>10. OfferedError(offered) = NoError
  BY <1>2, <1>7, <1>8, <1>9, NoneOfThree DEF OfferedError
<1> QED BY <1>6, <1>10

(* An entry of the registry goes by the id of its metadata.                *)
LEMMA EntryIs ==
  ASSUME AdaptersOk, NEW e \in adapters
  PROVE  /\ e.id = e.metadata.id /\ e.id \in Nat /\ OfferedError(OfferedBy(e.metadata)) = NoError
         /\ \E offer \in AdapterOffers :
              /\ MetadataError(offer.metadata) = NoError /\ IsMetadata(offer.metadata)
              /\ e.id = offer.metadata.id /\ e.engine = offer.engine
              /\ e.metadata = MetadataOf(offer.metadata)
              /\ OfferedBy(e.metadata) = OfferedBy(offer.metadata)
<1>1. PICK offer \in AdapterOffers :
        MetadataError(offer.metadata) = NoError /\ e = EntryFor(offer)
  BY DEF AdaptersOk
<1>2. IsMetadata(offer.metadata)
  BY HostAssumption
<1>3. /\ e.id = offer.metadata.id /\ e.engine = offer.engine
      /\ e.metadata = MetadataOf(offer.metadata)
  BY <1>1 DEF EntryFor
<1>4. /\ MetadataOf(offer.metadata).id = offer.metadata.id
      /\ OfferedBy(MetadataOf(offer.metadata)) = OfferedBy(offer.metadata)
  BY <1>2, MetadataOfKeeps
<1>5. e.id \in Nat
  BY DEF AdaptersOk, RegistryOk
<1> QED BY <1>1, <1>2, <1>3, <1>4, <1>5, MadeCanBeOffered

(* What a catalog says of the adapters.                                    *)
OffersNow == [i \in DOMAIN Metadatas |-> OfferedBy(Metadatas[i])]

LEMMA MetadatasAre ==
  ASSUME AdaptersOk
  PROVE  /\ DOMAIN Metadatas \subseteq Nat
         /\ \A i \in DOMAIN Metadatas : \E e \in adapters : Metadatas[i] = e.metadata
         /\ \A e \in adapters : \E i \in DOMAIN Metadatas : Metadatas[i] = e.metadata
         /\ \A i, j \in DOMAIN Metadatas : Metadatas[i].id = Metadatas[j].id => i = j
         /\ IsList(Metadatas)
         /\ IsList(OffersNow) /\ OnceEach(OffersNow)
         /\ Elements(OffersNow) = { OfferedBy(e.metadata) : e \in adapters }
<1> DEFINE l == Listing(adapters)
           n == Cardinality(adapters)
           m == Metadatas
           o == OffersNow
<1>1. /\ n \in Nat /\ DOMAIN l = 1 .. n /\ \A k \in 1 .. n : l[k] \in adapters
      /\ \A j, k \in 1 .. n : j < k => l[j].id < l[k].id
      /\ \A e \in adapters : \E k \in 1 .. n : l[k] = e
  BY ListingIs DEF AdaptersOk
<1>2. DOMAIN m = 1 .. n /\ (\A k \in 1 .. n : m[k] = l[k].metadata) /\ m = [k \in 1 .. n |-> m[k]]
  BY <1>1 DEF Metadatas
<1>3. o = [k \in 1 .. n |-> OfferedBy(l[k].metadata)]
  BY <1>1, <1>2 DEF OffersNow
<1> HIDE DEF l, n, m, o
<1>4. \A k \in 1 .. n : l[k].metadata.id = l[k].id /\ l[k].id \in Nat
  BY <1>1, EntryIs
<1>5. ASSUME NEW i \in 1 .. n, NEW j \in 1 .. n, m[i].id = m[j].id PROVE i = j
  <2>1. l[i].id = l[j].id /\ l[i].id \in Nat /\ l[j].id \in Nat
    BY <1>2, <1>4, <1>5
  <2>2. ~(i < j) /\ ~(j < i)
    BY <1>1, <2>1
  <2> QED BY <1>1, <2>2
<1>6. \A k \in 1 .. n : o[k].id = l[k].id
  BY <1>3, <1>4 DEF OfferedBy
<1>7. Elements(o) = { OfferedBy(e.metadata) : e \in adapters }
  BY <1>1, <1>3 DEF Elements
<1>8. OnceEach(o)
  BY <1>1, <1>3, <1>6 DEF OnceEach
<1>9. IsList(o)
  <2>1. o \in Seq(Elements(o))
    <3>1. \A k \in 1 .. n : OfferedBy(l[k].metadata) \in Elements(o)
      BY <1>3 DEF Elements
    <3> QED BY <1>1, <1>3, <3>1
  <2>2. IdsIn(Elements(o)) \subseteq Nat
    BY <1>3, <1>4, <1>6 DEF IdsIn, Elements
  <2> QED BY <2>1, <2>2 DEF IsList
<1>10. /\ DOMAIN m \subseteq Nat
       /\ \A i \in DOMAIN m : \E e \in adapters : m[i] = e.metadata
       /\ \A e \in adapters : \E i \in DOMAIN m : m[i] = e.metadata
  BY <1>1, <1>2
<1>11. IsList(m)
  <2>1. \A k \in 1 .. n : m[k] \in Elements(m) /\ m[k].id \in Nat
    BY <1>2, <1>4 DEF Elements
  <2>2. m \in Seq(Elements(m))
    BY <1>1, <1>2, <2>1
  <2>3. IdsIn(Elements(m)) \subseteq Nat
    BY <1>2, <2>1 DEF IdsIn, Elements
  <2> QED BY <2>2, <2>3 DEF IsList
<1> QED BY <1>2, <1>5, <1>7, <1>8, <1>9, <1>10, <1>11 DEF m, o

----------------------------------------------------------------------------
(* Resolution.                                                             *)

(* The verdict on an adapter that was found.                               *)
VerdictOn(adapter, theMetrics, thePolicies, required) ==
  FirstOf(<< AdapterError(adapter, required.adapter),
             MetricError[LookupError(theMetrics, required.metric)],
             PolicyError[LookupError(thePolicies, required.policy)] >>)

LEMMA LookupErrors ==
  ASSUME NEW registry, NEW required
  PROVE  /\ LookupError(registry, required) \in {NoError, "MissingId", "IncompatibleVersion"}
         /\ MetricError[LookupError(registry, required)] = NoError
              <=> LookupError(registry, required) = NoError
         /\ PolicyError[LookupError(registry, required)] = NoError
              <=> LookupError(registry, required) = NoError
BY DEF LookupError, MetricError, PolicyError, NoError

(* Registries that say the same of every entry resolve alike.              *)
LEMMA LookupIsTold ==
  ASSUME NEW registry, RegistryOk(registry), NEW required
  PROVE  LookupError({ Told(e) : e \in registry }, required) = LookupError(registry, required)
<1> DEFINE told == { Told(e) : e \in registry }
<1>1. IdsIn(told) = IdsIn(registry)
  <2>1. ASSUME NEW e \in registry PROVE Told(e) \in told /\ Told(e).id = e.id
    BY DEF Told
  <2>2. ASSUME NEW x \in told PROVE \E e \in registry : x.id = e.id
    BY DEF Told
  <2> HIDE DEF told
  <2> QED BY <2>1, <2>2 DEF IdsIn
<1>2. ASSUME required # <<>>, required[1].id \in IdsIn(registry)
      PROVE  EntryOf(told, required[1].id).version = EntryOf(registry, required[1].id).version
  <2>1. PICK e \in registry : e.id = required[1].id
    BY <1>2 DEF IdsIn
  <2>2. EntryOf(registry, required[1].id) = e
    BY <2>1 DEF EntryOf, RegistryOk
  <2>3. Told(e) \in told /\ Told(e).id = required[1].id /\ Told(e).version = e.version
    BY <2>1 DEF Told
  <2>4. \A x \in told : x.id = required[1].id => x = Told(e)
    BY <2>1 DEF Told, RegistryOk
  <2>5. EntryOf(told, required[1].id) = Told(e)
    <3> HIDE DEF told
    <3> QED BY <2>3, <2>4 DEF EntryOf
  <2> QED BY <2>2, <2>3, <2>5
<1> HIDE DEF told
<1>3. LookupError(told, required) = LookupError(registry, required)
  BY <1>1, <1>2 DEF LookupError
<1> QED BY <1>3 DEF told

(* A registry that has grown still has what it had.                        *)
LEMMA LookupStays ==
  ASSUME NEW registry, RegistryOk(registry), NEW earlier, NEW required,
         earlier \subseteq { Told(e) : e \in registry },
         LookupError(earlier, required) = NoError
  PROVE  LookupError(registry, required) = NoError
<1>1. CASE required = <<>>
  BY <1>1 DEF LookupError
<1>2. CASE required # <<>>
  <2>1. /\ required[1].id \in IdsIn(earlier)
        /\ Supports(EntryOf(earlier, required[1].id).version, required[1].version)
    BY <1>2 DEF LookupError, NoError
  <2>2. PICK x \in earlier : x.id = required[1].id
    BY <2>1 DEF IdsIn
  <2>3. PICK y : y = EntryOf(earlier, required[1].id)
    OBVIOUS
  <2>4. y \in earlier /\ y.id = required[1].id
    BY <2>2, <2>3 DEF EntryOf
  <2>5. PICK e \in registry : y = Told(e)
    BY <2>4
  <2>6. e.id = required[1].id /\ e.version = y.version
    BY <2>4, <2>5 DEF Told
  <2>7. EntryOf(registry, required[1].id) = e
    BY <2>6 DEF EntryOf, RegistryOk
  <2>8. required[1].id \in IdsIn(registry)
    BY <2>6 DEF IdsIn
  <2> QED BY <2>1, <2>3, <2>6, <2>7, <2>8 DEF LookupError
<1> QED BY <1>1, <1>2

(* The adapter that is found.                                              *)
LEMMA FoundOne ==
  ASSUME NEW list, DOMAIN list \subseteq Nat, NEW id, NEW i \in DOMAIN list,
         \A j \in DOMAIN list : list[j].id = id <=> j = i
  PROVE  Called(list, id) = {i} /\ Min(Called(list, id)) = i
<1>1. Called(list, id) = {i}
  BY DEF Called
<1>2. Min({i}) = i
  <2>1. \E x \in {i} : \A y \in {i} : x <= y
    OBVIOUS
  <2>2. Min({i}) \in {i}
    BY <2>1 DEF Min
  <2> QED BY <2>2
<1> QED BY <1>1, <1>2

LEMMA ResolveFound ==
  ASSUME NEW list, DOMAIN list \subseteq Nat, NEW theMetrics, NEW thePolicies, NEW required,
         NEW i \in DOMAIN list,
         \A j \in DOMAIN list : list[j].id = required.adapter.id <=> j = i
  PROVE  ResolveError(list, theMetrics, thePolicies, required)
           = VerdictOn(list[i], theMetrics, thePolicies, required)
BY FoundOne DEF ResolveError, VerdictOn

LEMMA ResolveMissing ==
  ASSUME NEW list, NEW theMetrics, NEW thePolicies, NEW required,
         \A j \in DOMAIN list : list[j].id # required.adapter.id
  PROVE  ResolveError(list, theMetrics, thePolicies, required) = "MissingAdapter"
BY DEF ResolveError, Called

(* What is asked of an adapter is in what is offered of it.                *)
LEMMA OfferIsEnough ==
  ASSUME NEW metadata, NEW required
  PROVE  AdapterError(OfferedBy(metadata), required) = AdapterError(metadata, required)
BY DEF AdapterError, OfferedBy

(* The resolution against the host's registries.                           *)
LEMMA ResolvedIs ==
  ASSUME AdaptersOk
  PROVE  /\ (\A e \in adapters : e.id # bundle.adapter.id) => ResolvedNow = "MissingAdapter"
         /\ \A e \in adapters : e.id = bundle.adapter.id =>
              ResolvedNow = VerdictOn(e.metadata, metrics, policies, bundle)
<1> DEFINE m == Metadatas
<1>1. /\ DOMAIN m \subseteq Nat
      /\ \A i \in DOMAIN m : \E e \in adapters : m[i] = e.metadata
      /\ \A e \in adapters : \E i \in DOMAIN m : m[i] = e.metadata
      /\ \A i, j \in DOMAIN m : m[i].id = m[j].id => i = j
  BY MetadatasAre
<1>2. ResolvedNow = ResolveError(m, metrics, policies, bundle)
  BY DEF ResolvedNow
<1> HIDE DEF m
<1>3. ASSUME \A e \in adapters : e.id # bundle.adapter.id PROVE ResolvedNow = "MissingAdapter"
  <2>1. \A j \in DOMAIN m : m[j].id # bundle.adapter.id
    BY <1>1, <1>3, EntryIs
  <2> QED BY <1>2, <2>1, ResolveMissing
<1>4. ASSUME NEW e \in adapters, e.id = bundle.adapter.id
      PROVE  ResolvedNow = VerdictOn(e.metadata, metrics, policies, bundle)
  <2>1. PICK i \in DOMAIN m : m[i] = e.metadata
    BY <1>1
  <2>2. m[i].id = bundle.adapter.id
    BY <1>4, <2>1, EntryIs
  <2>3. \A j \in DOMAIN m : m[j].id = bundle.adapter.id <=> j = i
    BY <1>1, <2>2
  <2> QED BY <1>1, <1>2, <2>1, <2>3, ResolveFound
<1> QED BY <1>3, <1>4

----------------------------------------------------------------------------
(* Catalogs.                                                               *)

(* What a catalog names is there, and each thing once.                     *)
Truthful(text) ==
  /\ Elements(text.adapters) \subseteq { OfferedBy(e.metadata) : e \in adapters }
  /\ Elements(text.metrics) \subseteq { Told(e) : e \in metrics }
  /\ Elements(text.policies) \subseteq { Told(e) : e \in policies }

Listed3(text) == IsList(text.adapters) /\ IsList(text.metrics) /\ IsList(text.policies)

RegistriesOk ==
  /\ AdaptersOk
  /\ RegistryOk(metrics) /\ metrics \subseteq MetricOffers
  /\ RegistryOk(policies) /\ policies \subseteq PolicyOffers

(* A catalog of what the host has now.                                     *)
CatalogNow == NewCatalog(OffersNow, Entries(metrics), Entries(policies))

LEMMA NoneListed == IsList(<<>>) /\ OnceEach(<<>>) /\ Elements(<<>>) = {} /\ ById(<<>>) = <<>>
<1>1. Elements(<<>>) = {}
  BY DEF Elements
<1>2. IsList(<<>>) /\ OnceEach(<<>>)
  BY <1>1 DEF IsList, OnceEach, IdsIn
<1> QED BY <1>1, <1>2, Sorting

LEMMA NewCatalogIs ==
  ASSUME NEW a, NEW m, NEW p, OnceEach(a), OnceEach(m), OnceEach(p), IsList(a), IsList(m), IsList(p)
  PROVE  NewCatalog(a, m, p) = [form |-> "good", adapters |-> a, metrics |-> m, policies |-> p]
BY Sorting DEF NewCatalog

LEMMA ExportsAre ==
  ASSUME RegistriesOk, NEW made \in Exports
  PROVE  Listed3(made) /\ Truthful(made)
<1>1. /\ IsList(OffersNow) /\ OnceEach(OffersNow)
      /\ Elements(OffersNow) = { OfferedBy(e.metadata) : e \in adapters }
  BY MetadatasAre DEF RegistriesOk
<1>2. /\ IsList(Entries(metrics)) /\ OnceEach(Entries(metrics))
      /\ Elements(Entries(metrics)) = { Told(e) : e \in metrics }
  BY EntriesAre DEF RegistriesOk
<1>3. /\ IsList(Entries(policies)) /\ OnceEach(Entries(policies))
      /\ Elements(Entries(policies)) = { Told(e) : e \in policies }
  BY EntriesAre DEF RegistriesOk
<1>4. made = CatalogNow \/ made = NewCatalog(OffersNow, <<>>, <<>>)
  BY Zenon DEF Exports, CatalogNow, FromAdapterMetadata, OffersNow
<1>5. CASE made = CatalogNow
  <2>1. made = [form |-> "good", adapters |-> OffersNow, metrics |-> Entries(metrics),
                policies |-> Entries(policies)]
    BY <1>1, <1>2, <1>3, <1>5, NewCatalogIs DEF CatalogNow
  <2>2. made.adapters = OffersNow /\ made.metrics = Entries(metrics) /\ made.policies = Entries(policies)
    BY <2>1
  <2> QED BY <1>1, <1>2, <1>3, <2>2 DEF Listed3, Truthful
<1>6. CASE made = NewCatalog(OffersNow, <<>>, <<>>)
  <2>1. made = [form |-> "good", adapters |-> OffersNow, metrics |-> <<>>, policies |-> <<>>]
    BY <1>1, <1>6, NoneListed, NewCatalogIs
  <2>2. made.adapters = OffersNow /\ made.metrics = <<>> /\ made.policies = <<>>
    BY <2>1
  <2> QED BY <1>1, <2>2, NoneListed DEF Listed3, Truthful
<1> QED BY <1>4, <1>5, <1>6

(* A bundle that passes against a truthful catalog resolves.               *)
LEMMA TruthfulPredicts ==
  ASSUME RegistriesOk, NEW text, Listed3(text), Truthful(text),
         PreflightError(text, bundle) = NoError
  PROVE  ResolvedNow = NoError
<1> DEFINE found == Called(text.adapters, bundle.adapter.id)
<1>1. PreflightError(text, bundle) =
        IF found = {} THEN "MissingAdapter"
        ELSE VerdictOn(text.adapters[Min(found)], Elements(text.metrics),
                       Elements(text.policies), bundle)
  BY Zenon DEF PreflightError, VerdictOn
<1>2. found # {}
  BY <1>1 DEF NoError
<1>3. found \subseteq Nat
  BY DEF Called, Listed3, IsList
<1>4. PICK i : i = Min(found)
  OBVIOUS
<1>5. i \in DOMAIN text.adapters /\ text.adapters[i].id = bundle.adapter.id
  <2>1. \E x \in found : \A y \in found : x <= y
    <3> HIDE DEF found
    <3> QED BY <1>2, <1>3, LeastExists
  <2>2. i \in found
    BY <1>4, <2>1 DEF Min
  <2> QED BY <2>2 DEF Called
<1>6. PICK e \in adapters : text.adapters[i] = OfferedBy(e.metadata)
  BY <1>5 DEF Truthful, Elements
<1>7. e.id = bundle.adapter.id
  <2>1. e.metadata.id = bundle.adapter.id
    BY <1>5, <1>6 DEF OfferedBy
  <2> QED BY <2>1, EntryIs DEF RegistriesOk
<1>8. VerdictOn(OfferedBy(e.metadata), Elements(text.metrics), Elements(text.policies), bundle) = NoError
  BY <1>1, <1>2, <1>4, <1>6
<1>9. /\ AdapterError(e.metadata, bundle.adapter) = NoError
      /\ LookupError(Elements(text.metrics), bundle.metric) = NoError
      /\ LookupError(Elements(text.policies), bundle.policy) = NoError
  BY <1>8, NoneOfThree, OfferIsEnough, LookupErrors DEF VerdictOn
<1>10. LookupError(metrics, bundle.metric) = NoError
  BY <1>9, LookupStays DEF RegistriesOk, Truthful
<1>11. LookupError(policies, bundle.policy) = NoError
  BY <1>9, LookupStays DEF RegistriesOk, Truthful
<1>12. VerdictOn(e.metadata, metrics, policies, bundle) = NoError
  BY <1>9, <1>10, <1>11, NoneOfThree, LookupErrors DEF VerdictOn
<1> QED BY <1>7, <1>12, ResolvedIs DEF RegistriesOk

(* What is offered of a list of adapters.                                  *)
LEMMA OffersAreList ==
  ASSUME NEW list, IsList(list), NEW offers,
         offers = [i \in DOMAIN list |-> OfferedBy(list[i])]
  PROVE  IsList(offers)
<1>1. /\ DOMAIN offers = DOMAIN list
      /\ \A i \in DOMAIN list : offers[i] = OfferedBy(list[i]) /\ offers[i].id = list[i].id
  BY DEF OfferedBy
<1>2. \A i \in DOMAIN list : offers[i] \in Elements(offers)
  BY <1>1 DEF Elements
<1>3. offers \in Seq(Elements(offers))
  <2>1. PICK n \in Nat : DOMAIN list = 1 .. n
    BY DEF IsList
  <2>2. offers = [i \in 1 .. n |-> offers[i]]
    BY <1>1, <2>1
  <2> QED BY <1>2, <2>1, <2>2
<1>4. IdsIn(Elements(offers)) \subseteq Nat
  BY <1>1 DEF IdsIn, Elements, IsList
<1> QED BY <1>3, <1>4 DEF IsList

(* What is in order is named once.                                         *)
LEMMA OnceIsDistinct ==
  ASSUME NEW entries, IsList(entries), OnceEach(entries)
  PROVE  Distinct(IdAtEach(entries))
<1>1. \A i \in DOMAIN entries : entries[i].id \in Nat
  BY DEF IsList, IdsIn, Elements
<1>2. \A i, j \in DOMAIN entries : i < j => entries[i].id # entries[j].id
  BY <1>1 DEF OnceEach
<1> QED BY <1>2 DEF Distinct, IdAtEach

(* A list of adapters that a catalog can be made of resolves as the        *)
(* catalog does.                                                           *)
LEMMA CatalogResolvesAlike ==
  ASSUME RegistriesOk, NEW list, IsList(list), NEW offers,
         offers = [i \in DOMAIN list |-> OfferedBy(list[i])],
         NEW made, made = NewCatalog(offers, Entries(metrics), Entries(policies)),
         Distinct(IdAtEach(offers))
  PROVE  PreflightError(made, bundle) = ResolveError(list, metrics, policies, bundle)
<1>1. /\ DOMAIN offers = DOMAIN list /\ DOMAIN list \subseteq Nat
      /\ \A i \in DOMAIN list : offers[i] = OfferedBy(list[i]) /\ offers[i].id = list[i].id
  BY DEF IsList, OfferedBy
<1>2. IsList(offers)
  BY OffersAreList
<1>3. PICK sorted : sorted = ById(offers)
  OBVIOUS
<1>4. /\ IsList(sorted) /\ OnceEach(sorted) /\ Elements(sorted) = Elements(offers)
  BY <1>2, <1>3, Sorting
<1>5. made = [form |-> "good", adapters |-> sorted, metrics |-> Entries(metrics),
              policies |-> Entries(policies)]
  BY <1>3, EntriesAre, Sorting DEF NewCatalog, RegistriesOk
<1>6. made.adapters = sorted /\ made.metrics = Entries(metrics) /\ made.policies = Entries(policies)
  BY <1>5
<1>7. \A r : LookupError(Elements(made.metrics), r) = LookupError(metrics, r)
  BY <1>6, EntriesAre, LookupIsTold DEF RegistriesOk
<1>8. \A r : LookupError(Elements(made.policies), r) = LookupError(policies, r)
  BY <1>6, EntriesAre, LookupIsTold DEF RegistriesOk
<1> DEFINE found == Called(sorted, bundle.adapter.id)
<1>9. PreflightError(made, bundle) =
        IF found = {} THEN "MissingAdapter"
        ELSE VerdictOn(sorted[Min(found)], metrics, policies, bundle)
  <2>1. PreflightError(made, bundle) =
          IF found = {} THEN "MissingAdapter"
          ELSE FirstOf(<< AdapterError(sorted[Min(found)], bundle.adapter),
                          MetricError[LookupError(Elements(made.metrics), bundle.metric)],
                          PolicyError[LookupError(Elements(made.policies), bundle.policy)] >>)
    BY <1>6, Zenon DEF PreflightError
  <2> QED BY <1>7, <1>8, <2>1, Zenon DEF VerdictOn
<1>10. /\ DOMAIN sorted \subseteq Nat
       /\ \A j, k \in DOMAIN sorted : sorted[j].id = sorted[k].id => j = k
  <2>1. PICK n \in Nat : DOMAIN sorted = 1 .. n
    BY <1>4 DEF IsList
  <2>2. \A j \in DOMAIN sorted : sorted[j].id \in Nat
    BY <1>4 DEF IsList, IdsIn, Elements
  <2>3. ASSUME NEW j \in 1 .. n, NEW k \in 1 .. n, sorted[j].id = sorted[k].id PROVE j = k
    <3>1. ~(j < k) /\ ~(k < j)
      BY <1>4, <2>1, <2>2, <2>3 DEF OnceEach
    <3> QED BY <2>1, <3>1
  <2> QED BY <2>1, <2>3
<1>11. CASE \A i \in DOMAIN list : list[i].id # bundle.adapter.id
  <2>1. \A x \in Elements(offers) : x.id # bundle.adapter.id
    BY <1>1, <1>11 DEF Elements
  <2>2. \A k \in DOMAIN sorted : sorted[k].id # bundle.adapter.id
    BY <1>4, <2>1 DEF Elements
  <2>3. found = {}
    BY <2>2 DEF Called
  <2> QED BY <1>9, <1>11, <2>3, ResolveMissing
<1>12. CASE \E i \in DOMAIN list : list[i].id = bundle.adapter.id
  <2>1. PICK i \in DOMAIN list : list[i].id = bundle.adapter.id
    BY <1>12
  <2>2. ASSUME NEW j \in DOMAIN list, list[j].id = bundle.adapter.id PROVE j = i
    <3>1. offers[i].id = offers[j].id
      BY <1>1, <2>1, <2>2
    <3>2. \A a, b \in DOMAIN offers : a < b => offers[a].id # offers[b].id
      BY DEF Distinct, IdAtEach
    <3>3. ~(i < j) /\ ~(j < i)
      BY <1>1, <3>1, <3>2
    <3> QED BY <1>1, <3>3
  <2>9. offers[i] \in Elements(sorted)
    BY <1>1, <1>4, <2>1 DEF Elements
  <2>3. PICK k \in DOMAIN sorted : sorted[k] = OfferedBy(list[i])
    BY <1>1, <2>1, <2>9 DEF Elements
  <2>4. sorted[k].id = bundle.adapter.id
    BY <1>1, <2>1, <2>3
  <2>5. Called(sorted, bundle.adapter.id) = {k} /\ Min(found) = k
    BY <1>10, <2>4, FoundOne
  <2>6. PreflightError(made, bundle) = VerdictOn(sorted[k], metrics, policies, bundle)
    BY <1>9, <2>5
  <2>7. ResolveError(list, metrics, policies, bundle) = VerdictOn(list[i], metrics, policies, bundle)
    BY <1>1, <2>1, <2>2, ResolveFound
  <2>8. VerdictOn(sorted[k], metrics, policies, bundle) = VerdictOn(list[i], metrics, policies, bundle)
    BY <2>3, OfferIsEnough DEF VerdictOn
  <2> QED BY <2>6, <2>7, <2>8
<1> QED BY <1>11, <1>12

(* A catalog that can be made names each thing once.                       *)
NamedOnce(text) ==
  /\ Distinct(IdAtEach(text.adapters)) /\ Distinct(IdAtEach(text.metrics))
  /\ Distinct(IdAtEach(text.policies))

LEMMA NamedOnceOf ==
  ASSUME NEW text
  PROVE  NewCatalogError(text) = NoError <=> NamedOnce(text)
<1>1. /\ "DuplicateAdapter" # NoError /\ "DuplicateMetric" # NoError
      /\ "DuplicatePolicy" # NoError
  BY DEF NoError
<1>2. PICK a \in BOOLEAN : a = (~Distinct(IdAtEach(text.adapters)))
  OBVIOUS
<1>3. PICK m \in BOOLEAN : m = (~Distinct(IdAtEach(text.metrics)))
  OBVIOUS
<1>4. PICK p \in BOOLEAN : p = (~Distinct(IdAtEach(text.policies)))
  OBVIOUS
<1>5. FirstError(<< <<a, "DuplicateAdapter">>, <<m, "DuplicateMetric">>,
                    <<p, "DuplicatePolicy">> >>) = NoError <=> ~a /\ ~m /\ ~p
  BY <1>1, ThreeChecks
<1>6. NewCatalogError(text) =
        FirstError(<< <<a, "DuplicateAdapter">>, <<m, "DuplicateMetric">>,
                      <<p, "DuplicatePolicy">> >>)
  BY <1>2, <1>3, <1>4 DEF NewCatalogError
<1>7. /\ a <=> ~Distinct(IdAtEach(text.adapters))
      /\ m <=> ~Distinct(IdAtEach(text.metrics))
      /\ p <=> ~Distinct(IdAtEach(text.policies))
  BY <1>2, <1>3, <1>4
<1> QED BY <1>5, <1>6, <1>7 DEF NamedOnce

(* A catalog of what the host has can be read.                             *)
LEMMA CatalogNowReads ==
  ASSUME RegistriesOk
  PROVE  ReadCatalogError(CatalogNow) = NoError
<1>1. /\ IsList(OffersNow) /\ OnceEach(OffersNow)
      /\ Elements(OffersNow) = { OfferedBy(e.metadata) : e \in adapters }
  BY MetadatasAre DEF RegistriesOk
<1>2. /\ IsList(Entries(metrics)) /\ OnceEach(Entries(metrics))
      /\ Elements(Entries(metrics)) = { Told(e) : e \in metrics }
  BY EntriesAre DEF RegistriesOk
<1>3. /\ IsList(Entries(policies)) /\ OnceEach(Entries(policies))
      /\ Elements(Entries(policies)) = { Told(e) : e \in policies }
  BY EntriesAre DEF RegistriesOk
<1>4. PICK text : text = CatalogNow
  OBVIOUS
<1>5. text = [form |-> "good", adapters |-> OffersNow, metrics |-> Entries(metrics),
              policies |-> Entries(policies)]
  BY <1>1, <1>2, <1>3, <1>4, NewCatalogIs DEF CatalogNow
<1>6. /\ text.form = "good" /\ text.adapters = OffersNow
      /\ text.metrics = Entries(metrics) /\ text.policies = Entries(policies)
  BY <1>5
<1>7. FirstError(<< <<text.form = "shape", "Json">>,
                    <<text.form = "schema", "UnsupportedSchema">> >>) = NoError
  <2>1. "Json" # NoError /\ "UnsupportedSchema" # NoError
    BY DEF NoError
  <2>2. (text.form = "shape") = FALSE /\ (text.form = "schema") = FALSE
    BY <1>6
  <2> QED BY <2>1, <2>2, TwoChecks
<1>8. FirstOf([i \in DOMAIN text.adapters |-> OfferedError(text.adapters[i])]) = NoError
  <2>1. PICK q : q = [i \in DOMAIN text.adapters |-> OfferedError(text.adapters[i])]
    OBVIOUS
  <2>2. DOMAIN q = DOMAIN OffersNow /\ DOMAIN OffersNow \subseteq Nat
    BY <1>1, <1>6, <2>1 DEF IsList
  <2>3. ASSUME NEW i \in DOMAIN OffersNow PROVE q[i] = NoError
    <3>1. PICK e \in adapters : OffersNow[i] = OfferedBy(e.metadata)
      BY <1>1 DEF Elements
    <3> QED BY <1>6, <2>1, <3>1, EntryIs DEF RegistriesOk
  <2> QED BY <2>1, <2>2, <2>3, NoFirstOf
<1>9. ASSUME NEW registry, registry \subseteq MetricOffers \cup PolicyOffers, NEW entries,
             IsList(entries), Elements(entries) = { Told(e) : e \in registry }
      PROVE  EntriesError(entries) = NoError
  <2>1. PICK q : q = [i \in DOMAIN entries |-> EntryError(entries[i])]
    OBVIOUS
  <2>2. DOMAIN q = DOMAIN entries /\ DOMAIN entries \subseteq Nat
    BY <1>9, <2>1 DEF IsList
  <2>3. ASSUME NEW i \in DOMAIN entries PROVE q[i] = NoError
    <3>1. PICK e \in registry : entries[i] = Told(e)
      BY <1>9 DEF Elements
    <3>2. EntryError(e) = NoError
      BY <1>9, HostAssumption
    <3>3. EntryError(Told(e)) = EntryError(e)
      BY DEF EntryError, Told
    <3> QED BY <2>1, <3>1, <3>2, <3>3
  <2>4. FirstOf(q) = NoError
    BY <2>2, <2>3, NoFirstOf
  <2> QED BY <2>1, <2>4 DEF EntriesError
<1>10. EntriesError(text.metrics) = NoError
  BY <1>2, <1>6, <1>9 DEF RegistriesOk
<1>11. EntriesError(text.policies) = NoError
  BY <1>3, <1>6, <1>9 DEF RegistriesOk
<1>13. NewCatalogError(text) = NoError
  BY <1>1, <1>2, <1>3, <1>6, OnceIsDistinct, NamedOnceOf DEF NamedOnce
<1>14. FirstError(<< <<NewCatalog(text.adapters, text.metrics, text.policies) # text,
                       "NonCanonicalJson">> >>) = NoError
  <2>1. NewCatalog(text.adapters, text.metrics, text.policies) = text
    BY <1>4, <1>6 DEF CatalogNow
  <2>2. "NonCanonicalJson" # NoError
    BY DEF NoError
  <2> QED BY <2>1, <2>2, OneCheck
<1>15. ReadCatalogError(text) = NoError
  BY <1>7, <1>8, <1>10, <1>11, <1>13, <1>14, NoneOfSix DEF ReadCatalogError
<1> QED BY <1>4, <1>15

(* A catalog that is read names each thing once.                           *)
LEMMA ReadNamesOnce ==
  ASSUME NEW text, Listed3(text), ReadCatalogError(text) = NoError
  PROVE  OnceEach(text.adapters) /\ OnceEach(text.metrics) /\ OnceEach(text.policies)
<1>1. /\ NewCatalogError(text) = NoError
      /\ FirstError(<< <<NewCatalog(text.adapters, text.metrics, text.policies) # text,
                         "NonCanonicalJson">> >>) = NoError
  BY NoneOfSix DEF ReadCatalogError
<1>2. NewCatalog(text.adapters, text.metrics, text.policies) = text
  <2>1. "NonCanonicalJson" # NoError
    BY DEF NoError
  <2> QED BY <1>1, <2>1, OneCheck
<1>3. /\ ById(text.adapters) = text.adapters /\ ById(text.metrics) = text.metrics
      /\ ById(text.policies) = text.policies
  <2>1. /\ NewCatalog(text.adapters, text.metrics, text.policies).adapters = ById(text.adapters)
        /\ NewCatalog(text.adapters, text.metrics, text.policies).metrics = ById(text.metrics)
        /\ NewCatalog(text.adapters, text.metrics, text.policies).policies = ById(text.policies)
    BY DEF NewCatalog
  <2> QED BY <1>2, <2>1
<1>4. NamedOnce(text)
  BY <1>1, NamedOnceOf
<1> QED BY <1>3, <1>4, Sorting DEF Listed3, NamedOnce

----------------------------------------------------------------------------
(* The invariant of the host.                                              *)

HostInv ==
  /\ RegistriesOk
  /\ alterations \in Nat
  /\ pc # "host" => catalog = <<>>
  /\ catalog # <<>> => Listed3(catalog[1])
  /\ catalog # <<>> /\ alterations = 0 => Truthful(catalog[1])

LEMMA HostStarts == HostInit => HostInv
<1> SUFFICES ASSUME HostInit PROVE HostInv
  OBVIOUS
<1>1. RegistryOk({})
  BY FS_EmptySet DEF RegistryOk
<1> QED BY <1>1 DEF HostInit, HostInv, RegistriesOk, AdaptersOk

LEMMA RegisterAdapterKeeps == HostInv /\ RegisterAdapter => HostInv'
<1> SUFFICES ASSUME HostInv, RegisterAdapter PROVE HostInv'
  OBVIOUS
<1>1. PICK offer \in AdapterOffers :
        /\ MetadataError(offer.metadata) = NoError
        /\ adapters' = Register(adapters, EntryFor(offer))
  BY DEF RegisterAdapter, EntryFor
<1>2. EntryFor(offer).id \in Nat
  BY HostAssumption DEF EntryFor, IsMetadata
<1>3. /\ RegistryOk(adapters') /\ adapters \subseteq adapters'
      /\ adapters' \subseteq adapters \cup {EntryFor(offer)}
  BY <1>1, <1>2, RegisterKeeps DEF HostInv, RegistriesOk, AdaptersOk
<1>4. UNCHANGED <<pc, metrics, policies, catalog, alterations>>
  BY DEF RegisterAdapter
<1>5. RegistriesOk'
  BY <1>1, <1>3, <1>4 DEF HostInv, RegistriesOk, AdaptersOk
<1>6. catalog # <<>> /\ alterations = 0 => Truthful(catalog[1])'
  BY <1>3, <1>4 DEF HostInv, Truthful
<1> QED BY <1>4, <1>5, <1>6 DEF HostInv

LEMMA RegisterMetricKeeps == HostInv /\ RegisterMetric => HostInv'
<1> SUFFICES ASSUME HostInv, RegisterMetric PROVE HostInv'
  OBVIOUS
<1>1. PICK offer \in MetricOffers : metrics' = Register(metrics, offer)
  BY DEF RegisterMetric
<1>2. offer.id \in Nat
  BY HostAssumption
<1>3. /\ RegistryOk(metrics') /\ metrics \subseteq metrics'
      /\ metrics' \subseteq metrics \cup {offer}
  BY <1>1, <1>2, RegisterKeeps DEF HostInv, RegistriesOk
<1>4. UNCHANGED <<pc, adapters, policies, catalog, alterations>>
  BY DEF RegisterMetric
<1>5. RegistriesOk'
  BY <1>3, <1>4 DEF HostInv, RegistriesOk, AdaptersOk
<1>6. catalog # <<>> /\ alterations = 0 => Truthful(catalog[1])'
  BY <1>3, <1>4 DEF HostInv, Truthful
<1> QED BY <1>4, <1>5, <1>6 DEF HostInv

LEMMA RegisterPolicyKeeps == HostInv /\ RegisterPolicy => HostInv'
<1> SUFFICES ASSUME HostInv, RegisterPolicy PROVE HostInv'
  OBVIOUS
<1>1. PICK offer \in PolicyOffers : policies' = Register(policies, offer)
  BY DEF RegisterPolicy
<1>2. offer.id \in Nat
  BY HostAssumption
<1>3. /\ RegistryOk(policies') /\ policies \subseteq policies'
      /\ policies' \subseteq policies \cup {offer}
  BY <1>1, <1>2, RegisterKeeps DEF HostInv, RegistriesOk
<1>4. UNCHANGED <<pc, adapters, metrics, catalog, alterations>>
  BY DEF RegisterPolicy
<1>5. RegistriesOk'
  BY <1>3, <1>4 DEF HostInv, RegistriesOk, AdaptersOk
<1>6. catalog # <<>> /\ alterations = 0 => Truthful(catalog[1])'
  BY <1>3, <1>4 DEF HostInv, Truthful
<1> QED BY <1>4, <1>5, <1>6 DEF HostInv

LEMMA ExportKeeps == HostInv /\ Export => HostInv'
<1> SUFFICES ASSUME HostInv, Export PROVE HostInv'
  OBVIOUS
<1>1. PICK made \in Exports : catalog' = <<made>>
  BY DEF Export
<1>2. Listed3(made) /\ Truthful(made)
  BY ExportsAre DEF HostInv
<1>3. UNCHANGED <<pc, adapters, metrics, policies, alterations>> /\ pc = "host"
  BY DEF Export
<1>4. RegistriesOk'
  BY <1>3 DEF HostInv, RegistriesOk, AdaptersOk
<1>5. catalog'[1] = made
  BY <1>1
<1>6. Listed3(catalog[1])'
  BY <1>2, <1>5 DEF Listed3
<1>7. Truthful(catalog[1])'
  BY <1>2, <1>3, <1>5 DEF Truthful
<1> QED BY <1>3, <1>4, <1>6, <1>7 DEF HostInv

LEMMA AlterKeeps == HostInv /\ Alter => HostInv'
<1> SUFFICES ASSUME HostInv, Alter PROVE HostInv'
  OBVIOUS
<1>1. PICK text : /\ IsList(text.adapters) /\ IsList(text.metrics) /\ IsList(text.policies)
                  /\ catalog' = <<text>>
  BY DEF Alter
<1>2. UNCHANGED <<pc, adapters, metrics, policies>> /\ pc = "host"
  BY DEF Alter
<1>3. alterations' \in Nat /\ alterations' # 0
  BY DEF Alter, HostInv
<1>4. RegistriesOk'
  BY <1>2 DEF HostInv, RegistriesOk, AdaptersOk
<1>5. catalog'[1] = text
  BY <1>1
<1>6. Listed3(catalog[1])'
  BY <1>1, <1>5 DEF Listed3
<1> QED BY <1>2, <1>3, <1>4, <1>6 DEF HostInv

(* Executions and the hand-over leave no catalog behind.                   *)
LEMMA DoneKeeps ==
  ASSUME HostInv, Refuse \/ Execute \/ Evaluate \/ HandOver
  PROVE  HostInv'
<1>1. CASE Refuse \/ Execute \/ Evaluate
  <2>1. UNCHANGED <<adapters, metrics, policies>> /\ catalog' = <<>> /\ alterations' = 0
    BY <1>1 DEF Refuse, Execute, Evaluate
  <2>2. RegistriesOk'
    BY <2>1 DEF HostInv, RegistriesOk, AdaptersOk
  <2> QED BY <2>1, <2>2 DEF HostInv
<1>2. CASE HandOver
  <2>1. /\ adapters' = {} /\ metrics' = {} /\ policies' = {}
        /\ catalog' = <<>> /\ alterations' = alterations
    BY <1>2 DEF HandOver, HostInv
  <2>2. RegistryOk({})
    BY FS_EmptySet DEF RegistryOk
  <2>3. RegistriesOk'
    BY <2>1, <2>2 DEF RegistriesOk, AdaptersOk
  <2> QED BY <2>1, <2>3 DEF HostInv
<1> QED BY <1>1, <1>2

LEMMA HostStep == HostInv /\ [Next]_<<host, publication>> => HostInv'
<1> SUFFICES ASSUME HostInv, [Next]_<<host, publication>> PROVE HostInv'
  OBVIOUS
<1>1. CASE UNCHANGED host
  <2>1. UNCHANGED <<pc, adapters, metrics, policies, catalog, alterations>>
    BY <1>1 DEF host
  <2>2. RegistriesOk'
    BY <2>1 DEF HostInv, RegistriesOk, AdaptersOk
  <2>3. catalog # <<>> /\ alterations = 0 => Truthful(catalog[1])'
    BY <2>1 DEF HostInv, Truthful
  <2> QED BY <2>1, <2>2, <2>3 DEF HostInv
<1>2. CASE HostNext
  <2>1. CASE RegisterAdapter
    BY <2>1, RegisterAdapterKeeps
  <2>2. CASE RegisterMetric
    BY <2>2, RegisterMetricKeeps
  <2>3. CASE RegisterPolicy
    BY <2>3, RegisterPolicyKeeps
  <2>4. CASE Export
    BY <2>4, ExportKeeps
  <2>5. CASE Alter
    BY <2>5, AlterKeeps
  <2>6. CASE Refuse \/ Execute \/ Evaluate \/ HandOver
    BY <2>6, DoneKeeps
  <2> QED BY <1>2, <2>1, <2>2, <2>3, <2>4, <2>5, <2>6 DEF HostNext
<1>3. UNCHANGED host \/ HostNext
  BY DEF Next
<1> QED BY <1>1, <1>2, <1>3

LEMMA HostInvariant == Spec => []HostInv
<1>1. Init => HostInv
  BY HostStarts DEF Init
<1> QED BY <1>1, HostStep, PTL DEF Spec

(* What the host, its callers and its readers may rely on.                 *)
LEMMA PredictsByInvariant == HostInv => PreflightPredicts
<1> SUFFICES ASSUME HostInv PROVE PreflightPredicts
  OBVIOUS
<1>1. RegistriesOk
  BY DEF HostInv
<1>2. ASSUME catalog # <<>>, alterations = 0
      PROVE  PreflightFilesError(bundle, catalog[1]) = NoError => ResolvedNow = NoError
  <2>1. Listed3(catalog[1]) /\ Truthful(catalog[1])
    BY <1>2 DEF HostInv
  <2>2. PreflightFilesError(bundle, catalog[1]) = NoError => PreflightError(catalog[1], bundle) = NoError
    BY Zenon DEF PreflightFilesError
  <2> QED BY <1>1, <2>1, <2>2, TruthfulPredicts
<1>3. ASSUME catalog # <<>>, catalog[1] = CatalogNow, ReadBundleError(bundle) = NoError
      PROVE  PreflightFilesError(bundle, catalog[1]) = ResolvedNow
  <2>1. ReadCatalogError(catalog[1]) = NoError
    BY <1>1, <1>3, CatalogNowReads
  <2>2. PreflightFilesError(bundle, catalog[1]) = PreflightError(catalog[1], bundle)
    BY <1>3, <2>1, Zenon DEF PreflightFilesError
  <2>3. IsList(Metadatas) /\ Distinct(IdAtEach(OffersNow))
    BY <1>1, MetadatasAre, OnceIsDistinct DEF RegistriesOk
  <2>4. PreflightError(CatalogNow, bundle) = ResolveError(Metadatas, metrics, policies, bundle)
    BY <1>1, <2>3, CatalogResolvesAlike DEF CatalogNow, OffersNow
  <2> QED BY <1>3, <2>2, <2>4 DEF ResolvedNow
<1>4. ASSUME catalog # <<>>, ReadCatalogError(catalog[1]) = NoError
      PROVE  /\ OnceEach(catalog[1].adapters) /\ OnceEach(catalog[1].metrics)
             /\ OnceEach(catalog[1].policies)
  BY <1>4, ReadNamesOnce DEF HostInv
<1>5. ASSUME NEW list \in AdapterLists, NEW made, NEW offers,
             offers = [i \in DOMAIN list |-> OfferedBy(list[i])],
             made = NewCatalog(offers, Entries(metrics), Entries(policies)),
             NewCatalogError(made) = NoError
      PROVE  PreflightError(made, bundle) = ResolveError(list, metrics, policies, bundle)
  <2>1. IsList(list)
    BY HostAssumption
  <2>2. IsList(offers)
    BY <1>5, <2>1, OffersAreList
  <2>3. made.adapters = ById(offers)
    BY <1>5 DEF NewCatalog
  <2>4. Distinct(IdAtEach(ById(offers)))
    BY <1>5, <2>3, NamedOnceOf DEF NamedOnce
  <2>5. Distinct(IdAtEach(offers))
    BY <2>2, <2>4, Sorting
  <2> QED BY <1>1, <1>5, <2>1, <2>5, CatalogResolvesAlike
<1>6. catalog # <<>> /\ alterations = 0 =>
       /\ PreflightFilesError(bundle, catalog[1]) = NoError => ResolvedNow = NoError
       /\ catalog[1] = NewCatalog([i \in DOMAIN Metadatas |-> OfferedBy(Metadatas[i])],
                                  Entries(metrics), Entries(policies))
            /\ ReadBundleError(bundle) = NoError
            => PreflightFilesError(bundle, catalog[1]) = ResolvedNow
  BY <1>2, <1>3, Zenon DEF CatalogNow, OffersNow
<1>7. \A list \in AdapterLists :
       LET made == NewCatalog([i \in DOMAIN list |-> OfferedBy(list[i])],
                              Entries(metrics), Entries(policies))
       IN  NewCatalogError(made) = NoError =>
             PreflightError(made, bundle) = ResolveError(list, metrics, policies, bundle)
  BY <1>5, Zenon
<1> QED BY <1>4, <1>6, <1>7, Zenon DEF PreflightPredicts

(* A preflight predicts the execution, whatever is offered and registered  *)
(* and however a catalog is changed on its way: what a host exported, and  *)
(* what it can be made of, resolves as the host does (resolve_bundle,      *)
(* resolve_bundle_requirements, preflight_scenario_bundle_files).          *)
THEOREM PreflightAlwaysPredicts == Spec => []PreflightPredicts
BY HostInvariant, PredictsByInvariant, PTL

----------------------------------------------------------------------------
(* Bundles that can be read.                                               *)

LEMMA ReadableIsInOrder ==
  ASSUME NEW text \in BundleTexts, ReadBundleError(text) = NoError
  PROVE  /\ OnceEach(text.scenarios) /\ Len(text.scenarios) \in Nat \ {0}
         /\ DOMAIN text.scenarios = 1 .. Len(text.scenarios)
         /\ text.scenarios \in Seq(Elements(text.scenarios))
         /\ \A i \in DOMAIN text.scenarios : text.scenarios[i].id \in Nat
<1>1. /\ "scenarios" \in DOMAIN text /\ IsList(text.scenarios)
  BY HostAssumption
<1>2. /\ NewBundleError(text) = NoError
      /\ FirstError(<< <<NewBundle(text) # text, "NonCanonicalJson">> >>) = NoError
  <2>1. PICK q : q =
          << FirstError(FormChecks(text)), OfferedError(text.adapter),
             EntriesError(text.metric), EntriesError(text.policy),
             FirstError(<< <<0 \in IdsIn(Elements(text.scenarios)), "InvalidScenarioId">> >>),
             NewBundleError(text),
             FirstError(<< <<NewBundle(text) # text, "NonCanonicalJson">> >>) >>
    OBVIOUS
  <2>2. FirstOf(q) = NoError
    BY <2>1, Zenon DEF ReadBundleError
  <2>3. DOMAIN q = 1 .. 7
    BY <2>1
  <2>4. \A i \in 1 .. 7 : q[i] = NoError
    BY <2>2, <2>3, NoFirstOf
  <2>5. /\ q[6] = NewBundleError(text)
        /\ q[7] = FirstError(<< <<NewBundle(text) # text, "NonCanonicalJson">> >>)
    BY <2>1
  <2>6. q[6] = NoError /\ q[7] = NoError
    BY <2>4
  <2> QED BY <2>5, <2>6
<1>3. NewBundle(text) = text
  <2>1. "NonCanonicalJson" # NoError
    BY DEF NoError
  <2> QED BY <1>2, <2>1, OneCheck
<1>4. text.scenarios # <<>> /\ Distinct(IdAtEach(text.scenarios))
  <2>1. /\ "EmptyScenarios" # NoError /\ "DuplicateScenario" # NoError
        /\ "InvalidNamespacedId" # NoError
    BY DEF NoError
  <2>2. PICK a \in BOOLEAN : a = (text.scenarios = <<>>)
    OBVIOUS
  <2>3. PICK d \in BOOLEAN : d = (~Distinct(IdAtEach(text.scenarios)))
    OBVIOUS
  <2>4. PICK z \in BOOLEAN : z = (text.id = 0)
    OBVIOUS
  <2>5. FirstError(<< <<a, "EmptyScenarios">>, <<d, "DuplicateScenario">>,
                      <<z, "InvalidNamespacedId">> >>) = NoError
    BY <1>2, <2>2, <2>3, <2>4 DEF NewBundleError
  <2>6. ~a /\ ~d
    BY <2>1, <2>5, ThreeChecks
  <2> QED BY <2>2, <2>3, <2>6
<1>5. ById(text.scenarios) = text.scenarios
  <2>1. NewBundle(text).scenarios = ById(text.scenarios)
    BY <1>1 DEF NewBundle
  <2> QED BY <1>3, <2>1
<1>6. OnceEach(text.scenarios)
  BY <1>1, <1>4, <1>5, Sorting
<1>7. \A i \in DOMAIN text.scenarios : text.scenarios[i].id \in Nat
  BY <1>1, PlacesOf
<1>8. /\ text.scenarios \in Seq(Elements(text.scenarios))
      /\ Len(text.scenarios) \in Nat /\ DOMAIN text.scenarios = 1 .. Len(text.scenarios)
  BY <1>1 DEF IsList
<1> QED BY <1>4, <1>6, <1>7, <1>8

----------------------------------------------------------------------------
(* What was resolved.                                                      *)

LEMMA LookupFinds ==
  ASSUME NEW registry, NEW required, required # <<>>,
         LookupError(registry, required) = NoError
  PROVE  /\ EntryOf(registry, required[1].id) \in registry
         /\ EntryOf(registry, required[1].id).id = required[1].id
         /\ Keeps(EntryOf(registry, required[1].id).version, required[1].version)
<1>1. /\ required[1].id \in IdsIn(registry)
      /\ Supports(EntryOf(registry, required[1].id).version, required[1].version)
  BY DEF LookupError, NoError
<1>2. \E e \in registry : e.id = required[1].id
  BY <1>1 DEF IdsIn
<1>3. /\ EntryOf(registry, required[1].id) \in registry
      /\ EntryOf(registry, required[1].id).id = required[1].id
  BY <1>2 DEF EntryOf
<1> QED BY <1>1, <1>3 DEF Supports, Keeps

(* The adapter that is executed is the one that was offered and fits.      *)
Fits(offer) ==
  /\ MetadataError(offer.metadata) = NoError /\ IsMetadata(offer.metadata)
  /\ Adapter.engine = offer.engine /\ Adapter.metadata = MetadataOf(offer.metadata)
  /\ offer.metadata.id = bundle.adapter.id
  /\ Supports(offer.metadata.version, bundle.adapter.version)
  /\ UpstreamFits(offer.metadata.upstream, bundle.adapter.upstream)

LEMMA ResolvedFits ==
  ASSUME RegistriesOk, ResolvedNow = NoError
  PROVE  /\ \E offer \in AdapterOffers : Fits(offer)
         /\ LookupError(metrics, bundle.metric) = NoError
         /\ LookupError(policies, bundle.policy) = NoError
<1>1. PICK e \in adapters : e.id = bundle.adapter.id
  BY ResolvedIs DEF RegistriesOk, NoError
<1>2. VerdictOn(e.metadata, metrics, policies, bundle) = NoError
  BY <1>1, ResolvedIs DEF RegistriesOk
<1>3. /\ AdapterError(e.metadata, bundle.adapter) = NoError
      /\ LookupError(metrics, bundle.metric) = NoError
      /\ LookupError(policies, bundle.policy) = NoError
  BY <1>2, NoneOfThree, LookupErrors DEF VerdictOn
<1>4. Adapter = e
  BY <1>1 DEF Adapter, EntryOf, RegistriesOk, AdaptersOk, RegistryOk
<1>5. PICK offer \in AdapterOffers :
        /\ MetadataError(offer.metadata) = NoError /\ IsMetadata(offer.metadata)
        /\ e.id = offer.metadata.id /\ e.engine = offer.engine
        /\ e.metadata = MetadataOf(offer.metadata)
        /\ OfferedBy(e.metadata) = OfferedBy(offer.metadata)
  BY EntryIs DEF RegistriesOk
<1>6. e.metadata.version = offer.metadata.version /\ e.metadata.upstream = offer.metadata.upstream
  BY <1>5, MetadataOfKeeps
<1>7. /\ Supports(offer.metadata.version, bundle.adapter.version)
      /\ UpstreamFits(offer.metadata.upstream, bundle.adapter.upstream)
  <2>1. "IncompatibleAdapterVersion" # NoError /\ "AdapterUpstreamMismatch" # NoError
    BY DEF NoError
  <2>2. PICK a \in BOOLEAN : a = (~Supports(e.metadata.version, bundle.adapter.version))
    OBVIOUS
  <2>3. PICK u \in BOOLEAN : u = (~UpstreamFits(e.metadata.upstream, bundle.adapter.upstream))
    OBVIOUS
  <2>4. FirstError(<< <<a, "IncompatibleAdapterVersion">>, <<u, "AdapterUpstreamMismatch">> >>)
          = NoError
    BY <1>3, <2>2, <2>3 DEF AdapterError
  <2>5. ~a /\ ~u
    BY <2>1, <2>4, TwoChecks
  <2> QED BY <1>6, <2>2, <2>3, <2>5
<1> QED BY <1>1, <1>3, <1>4, <1>5, <1>7 DEF Fits

----------------------------------------------------------------------------
(* What a batch calls and answers.                                         *)

LEMMA PositionsAre ==
  ASSUME NEW engine, NEW scenarios, scenarios \in Seq(Elements(scenarios)), NEW failure
  PROVE  \E last \in 0 .. Len(scenarios) + 1 :
           /\ PositionsCalled(engine, scenarios, failure) = [i \in 1 .. last |-> i - 1]
           /\ EvaluateBatch(engine, scenarios, failure) # failure => last = Len(scenarios) + 1
<1> DEFINE n == Len(scenarios)
           given == [i \in DOMAIN scenarios |-> engine.evaluate[scenarios[i].intervention]]
           S == {engine.baseline} \cup { engine.evaluate[scenarios[i].intervention] :
                                           i \in DOMAIN scenarios }
<1>1. n \in Nat /\ DOMAIN scenarios = 1 .. n
  OBVIOUS
<1>2. given \in Seq(S) /\ Len(given) = n /\ <<engine.baseline>> \in Seq(S)
      /\ Len(<<engine.baseline>>) = 1
  BY <1>1
<1>3. PICK answers : answers = <<engine.baseline>> \o given
  OBVIOUS
<1>4. /\ answers \in Seq(S) /\ Len(answers) = n + 1
  <2> HIDE DEF given, S, n
  <2> QED BY <1>1, <1>2, <1>3
<1>5. \A i \in DOMAIN answers : answers[i] \in S
  <2> HIDE DEF given, S, n
  <2> QED BY <1>4
<1> DEFINE failing == { i \in DOMAIN answers : answers[i] = failure }
           last == IF failing = {} THEN Len(answers)
                   ELSE CHOOSE i \in failing : \A j \in failing : i <= j
<1>6. PositionsCalled(engine, scenarios, failure) = [i \in 1 .. last |-> i - 1]
  BY <1>3, Zenon DEF PositionsCalled
<1>7. DOMAIN answers = 1 .. n + 1
  BY <1>1, <1>4
<1>8. last \in 0 .. n + 1
  <2>1. CASE failing = {}
    BY <1>1, <1>4, <2>1
  <2>2. CASE failing # {}
    <3>1. failing \subseteq Nat
      BY <1>1, <1>7
    <3>2. \E i \in failing : \A j \in failing : i <= j
      <4> HIDE DEF failing
      <4> QED BY <2>2, <3>1, LeastExists
    <3>3. last \in failing
      BY <2>2, <3>2
    <3>4. last \in DOMAIN answers
      <4> HIDE DEF last
      <4> QED BY <3>3
    <3>5. n + 1 \in Nat
      BY <1>1
    <3> HIDE DEF last, n, failing
    <3> QED BY <1>7, <3>4, <3>5
  <2> QED BY <2>1, <2>2
<1>9. ASSUME EvaluateBatch(engine, scenarios, failure) # failure PROVE last = n + 1
  <2>1. failure \notin S
    BY <1>9 DEF EvaluateBatch
  <2>2. failing = {}
    BY <1>5, <2>1
  <2> QED BY <1>4, <2>2
<1> HIDE DEF last, n
<1>10. n = Len(scenarios)
  BY DEF n
<1> QED BY <1>6, <1>8, <1>9, <1>10

LEMMA BatchIs ==
  ASSUME NEW engine, NEW scenarios, NEW failure, NEW answered,
         answered = EvaluateBatch(engine, scenarios, failure), answered # failure
  PROVE  /\ answered.baseline = engine.baseline
         /\ DOMAIN answered.outcomes = DOMAIN scenarios
         /\ \A i \in DOMAIN scenarios :
              /\ answered.outcomes[i].scenario = scenarios[i]
              /\ answered.outcomes[i].signature = engine.evaluate[scenarios[i].intervention]
              /\ answered.outcomes[i].signature # failure
<1>1. failure \notin {engine.baseline} \cup
                     { engine.evaluate[scenarios[i].intervention] : i \in DOMAIN scenarios }
  BY DEF EvaluateBatch
<1>2. answered = [baseline |-> engine.baseline,
                  outcomes |-> [i \in DOMAIN scenarios |->
                                  [scenario |-> scenarios[i],
                                   signature |-> engine.evaluate[scenarios[i].intervention]]]]
  BY <1>1 DEF EvaluateBatch
<1> QED BY <1>1, <1>2

----------------------------------------------------------------------------
(* The best of a batch.                                                    *)

(* What holds of 0 and of every successor holds up to n.                   *)
LEMMA UpTo ==
  ASSUME NEW n \in Nat, NEW S, 0 \in S, \A i \in 0 .. n - 1 : i \in S => i + 1 \in S
  PROVE  0 .. n \subseteq S
<1> DEFINE T == (0 .. n) \ S
<1>1. SUFFICES ASSUME T # {} PROVE FALSE
  OBVIOUS
<1>2. PICK x \in T : \A y \in T : x <= y
  <2>1. T \subseteq Nat
    OBVIOUS
  <2> HIDE DEF T
  <2> QED BY <1>1, <2>1, LeastExists
<1>3. x - 1 \in 0 .. n - 1 /\ x - 1 \notin T
  BY <1>2
<1> QED BY <1>3

(* The positions that best_by_policy holds after each of n scores.         *)
Choosing(f, worth, n) ==
  f = [i \in 0 .. n |-> IF i = 0 THEN 0 ELSE Improve(worth, f[i - 1], i)]

LEMMA ChoosingExists ==
  ASSUME NEW worth, NEW n \in Nat
  PROVE  \E f : Choosing(f, worth, n)
<1> DEFINE S == { m \in Nat : \E f : Choosing(f, worth, m) }
<1>1. 0 \in S
  <2>1. Choosing([i \in 0 .. 0 |-> 0], worth, 0)
    BY DEF Choosing
  <2> QED BY <2>1
<1>2. ASSUME NEW m \in 0 .. n - 1, m \in S PROVE m + 1 \in S
  <2>1. PICK f : Choosing(f, worth, m)
    BY <1>2
  <2> DEFINE g == [i \in 0 .. m + 1 |-> IF i <= m THEN f[i] ELSE Improve(worth, f[m], m + 1)]
  <2>2. ASSUME NEW i \in 0 .. m + 1
        PROVE  g[i] = IF i = 0 THEN 0 ELSE Improve(worth, g[i - 1], i)
    BY <2>1 DEF Choosing
  <2>3. Choosing(g, worth, m + 1)
    BY <2>2 DEF Choosing
  <2> QED BY <2>3
<1>3. 0 .. n \subseteq S
  BY <1>1, <1>2, UpTo
<1> QED BY <1>3

(* b is the first of the best among the first n.                           *)
FirstOfBest(worth, b, n) ==
  /\ b \in 1 .. n
  /\ \A j \in 1 .. n : worth[j] <= worth[b] /\ (j < b => worth[j] < worth[b])

LEMMA BestIsFirst ==
  ASSUME NEW n \in Nat \ {0}, NEW worth, worth \in [1 .. n -> Int]
  PROVE  FirstOfBest(worth, BestByPolicy(worth), n)
<1>1. Len(worth) = n
  <2>1. worth = [i \in 1 .. n |-> worth[i]]
    OBVIOUS
  <2>2. \A i \in 1 .. n : worth[i] \in Int
    OBVIOUS
  <2> QED BY <2>1, <2>2
<1>2. PICK f : Choosing(f, worth, n) /\ BestByPolicy(worth) = f[n]
  <2> DEFINE r == CHOOSE g : Choosing(g, worth, n)
  <2>1. Choosing(r, worth, n)
    BY ChoosingExists
  <2>2. BestByPolicy(worth) = r[n]
    BY <1>1 DEF BestByPolicy, Choosing
  <2> QED BY <2>1, <2>2
<1>3. f[0] = 0 /\ \A i \in 1 .. n : f[i] = Improve(worth, f[i - 1], i)
  BY <1>2 DEF Choosing
<1> DEFINE S == { m \in 0 .. n : IF m = 0 THEN f[m] = 0 ELSE FirstOfBest(worth, f[m], m) }
<1>4. 0 \in S
  BY <1>3
<1>5. ASSUME NEW m \in 0 .. n - 1, m \in S PROVE m + 1 \in S
  <2>1. /\ m + 1 \in 1 .. n /\ m + 1 # 0 /\ m \in Nat
        /\ f[m + 1] = IF f[m] = 0 THEN m + 1
                      ELSE IF worth[m + 1] > worth[f[m]] THEN m + 1 ELSE f[m]
    BY <1>3 DEF Improve
  <2>2. CASE m = 0
    BY <1>5, <2>1, <2>2 DEF FirstOfBest
  <2>3. CASE m # 0
    <3>1. FirstOfBest(worth, f[m], m) /\ f[m] \in 1 .. m /\ f[m] # 0
      BY <1>5, <2>3 DEF FirstOfBest
    <3>2. /\ worth[m + 1] \in Int /\ worth[f[m]] \in Int
          /\ \A j \in 1 .. m : worth[j] \in Int
      BY <2>1, <3>1
    <3>3. FirstOfBest(worth, f[m + 1], m + 1)
      <4>1. CASE worth[m + 1] > worth[f[m]]
        <5>1. f[m + 1] = m + 1
          BY <2>1, <3>1, <4>1
        <5>2. ASSUME NEW j \in 1 .. m PROVE worth[j] < worth[m + 1]
          BY <3>1, <3>2, <4>1 DEF FirstOfBest
        <5> QED BY <2>1, <3>2, <5>1, <5>2 DEF FirstOfBest
      <4>2. CASE ~(worth[m + 1] > worth[f[m]])
        <5>1. f[m + 1] = f[m]
          BY <2>1, <3>1, <4>2
        <5> QED BY <2>1, <3>1, <3>2, <4>2, <5>1 DEF FirstOfBest
      <4> QED BY <4>1, <4>2
    <3> QED BY <2>1, <3>3
  <2> QED BY <2>2, <2>3
<1>6. n \in S
  <2> HIDE DEF S
  <2>1. 0 .. n \subseteq S
    BY <1>4, <1>5, UpTo
  <2> QED BY <2>1
<1> QED BY <1>2, <1>6

----------------------------------------------------------------------------
(* The invariant of an execution.                                          *)

(* Until a host executes, it has called nothing.                           *)
Idle == bundle \in BundleTexts /\ called = <<>> /\ outcome = "none" /\ record = <<>>

ExecutionInv ==
  /\ HostInv
  /\ pc = "host" => Idle
  /\ ExecutionIsBound

LEMMA NothingIsBound ==
  called = <<>> /\ outcome = "none" /\ record = <<>> => ExecutionIsBound
BY DEF ExecutionIsBound

LEMMA OptionIs ==
  ASSUME NEW value, IsOption(value)
  PROVE  value = <<>> \/ (DOMAIN value = {1} /\ Len(value) = 1)
<1>1. Len(value) \in Nat /\ DOMAIN value = 1 .. Len(value) /\ Len(value) <= 1
  BY DEF IsOption
<1>2. Len(value) = 0 \/ Len(value) = 1
  BY <1>1
<1>3. Len(value) = 0 => value = <<>>
  BY EmptySeq DEF IsOption
<1> QED BY <1>1, <1>2, <1>3

(* What a refused bundle leaves.                                           *)
LEMMA RefuseBinds ==
  ASSUME ExecutionInv, Refuse
  PROVE  ExecutionIsBound'
<1>1. called' = <<>> /\ outcome' = "refused" /\ record' = <<>>
  BY DEF ExecutionInv, Idle, Refuse
<1> QED BY <1>1 DEF ExecutionIsBound

(* The calls of an execution.                                              *)
CallsAreBound(offer) ==
  /\ \A i \in DOMAIN called : called[i] = [engine |-> offer.engine, position |-> i - 1]
  /\ offer.metadata.id = bundle.adapter.id
  /\ Keeps(offer.metadata.version, bundle.adapter.version)
  /\ bundle.adapter.upstream # <<>> => offer.metadata.upstream = bundle.adapter.upstream
  /\ record # <<>> => record[1].adapter = MetadataOf(offer.metadata)

LEMMA ThreeInARow ==
  ASSUME NEW a, NEW b, NEW c
  PROVE  <<a>> \o <<b, c>> = <<a, b, c>>
<1> DEFINE S == {a, b, c}
<1>1. a \in S /\ b \in S /\ c \in S
  OBVIOUS
<1> HIDE DEF S
<1>2. <<a>> \in Seq(S) /\ <<b, c>> \in Seq(S) /\ <<a, b, c>> \in Seq(S)
  BY <1>1
<1>3. PICK s, t, u : s = <<a>> /\ t = <<b, c>> /\ u = <<a, b, c>>
  OBVIOUS
<1>4. /\ s \in Seq(S) /\ t \in Seq(S) /\ u \in Seq(S)
      /\ Len(s) = 1 /\ s[1] = a /\ Len(t) = 2 /\ t[1] = b /\ t[2] = c
      /\ Len(u) = 3 /\ u[1] = a /\ u[2] = b /\ u[3] = c
  BY <1>2, <1>3
<1>5. PICK v : v = s \o t
  OBVIOUS
<1>6. v \in Seq(S) /\ Len(v) = 3 /\ v[1] = a /\ v[2] = b /\ v[3] = c
  <2>1. /\ v \in Seq(S) /\ Len(v) = Len(s) + Len(t)
        /\ \A i \in 1 .. Len(s) + Len(t) : v[i] = IF i <= Len(s) THEN s[i] ELSE t[i - Len(s)]
    BY <1>4, <1>5, ConcatProperties
  <2> QED BY <1>4, <2>1
<1>7. \A i \in 1 .. 3 : v[i] = u[i]
  BY <1>4, <1>6
<1>8. v = u
  BY <1>4, <1>6, <1>7
<1> QED BY <1>3, <1>5, <1>8

(* The scores of an execution.                                             *)
ScoresAreBound ==
  /\ Len(scores) = Len(bundle.metric)
  /\ \A i \in DOMAIN scores :
       \E offer \in MetricOffers :
         /\ offer.id = bundle.metric[i].id /\ Keeps(offer.version, bundle.metric[i].version)
         /\ \A s \in DOMAIN bundle.scenarios :
              scores[i][s] = [id |-> bundle.scenarios[s].id,
                              score |-> <<offer.implementation, batch[1].baseline,
                                          batch[1].outcomes[s].signature>>]

LEMMA ScoresAre ==
  ASSUME RegistriesOk, bundle \in BundleTexts, bundle' = bundle,
         LookupError(metrics, bundle.metric) = NoError,
         NEW answered, DOMAIN answered.outcomes = DOMAIN bundle.scenarios,
         \A i \in DOMAIN bundle.scenarios : answered.outcomes[i].scenario = bundle.scenarios[i],
         Score(answered)
  PROVE  ScoresAreBound'
<1>1. batch' = <<answered>> /\ batch'[1] = answered
  BY Zenon DEF Score
<1>2. bundle.metric = <<>> \/ (DOMAIN bundle.metric = {1} /\ Len(bundle.metric) = 1)
  BY HostAssumption, OptionIs
<1>3. CASE bundle.metric = <<>>
  <2>1. scores' = <<>>
    BY <1>3, Zenon DEF Score
  <2> QED BY <1>3, <2>1, SMTT(30) DEF ScoresAreBound
<1>4. CASE bundle.metric # <<>>
  <2>1. PICK metric : metric = EntryOf(metrics, bundle.metric[1].id)
    OBVIOUS
  <2>2. metric \in MetricOffers /\ metric.id = bundle.metric[1].id
          /\ Keeps(metric.version, bundle.metric[1].version)
    BY <1>4, <2>1, LookupFinds DEF RegistriesOk
  <2>3. PICK given : given = ScoreAgainstBaseline(answered, <<metric.implementation>>)
    OBVIOUS
  <2>4. scores' = <<given>>
    BY <1>4, <2>1, <2>3, Zenon DEF Score
  <2>5. ASSUME NEW s \in DOMAIN bundle.scenarios
        PROVE  given[s] = [id |-> bundle.scenarios[s].id,
                           score |-> <<metric.implementation, answered.baseline,
                                       answered.outcomes[s].signature>>]
    <3>2. given[s] = [id |-> answered.outcomes[s].scenario.id,
                      score |-> <<metric.implementation>>
                                  \o <<answered.baseline, answered.outcomes[s].signature>>]
      BY <2>3 DEF ScoreAgainstBaseline
    <3>3. <<metric.implementation>> \o <<answered.baseline, answered.outcomes[s].signature>>
            = <<metric.implementation, answered.baseline, answered.outcomes[s].signature>>
      BY ThreeInARow
    <3> QED BY <3>2, <3>3
  <2>6. DOMAIN scores' = {1} /\ scores'[1] = given /\ Len(scores') = 1
    BY <2>4
  <2> QED BY <1>1, <1>2, <1>4, <2>2, <2>5, <2>6 DEF ScoresAreBound
<1> QED BY <1>3, <1>4, SMTT(30)

(* The selection of an execution.                                          *)
SelectionIsBound ==
  /\ Len(selection) = Len(bundle.policy)
  /\ \A i \in DOMAIN selection :
       \E offer \in PolicyOffers :
         /\ offer.id = bundle.policy[i].id /\ Keeps(offer.version, bundle.policy[i].version)
         /\ \A o \in Elements(batch[1].outcomes) :
              LET score == PolicyScore(offer.implementation, o.signature) IN
                \/ score < selection[i].score
                \/ score = selection[i].score /\ selection[i].scenario <= o.scenario.id

LEMMA SelectionIs ==
  ASSUME RegistriesOk, bundle \in BundleTexts, bundle' = bundle,
         LookupError(policies, bundle.policy) = NoError, ReadBundleError(bundle) = NoError,
         NEW answers \in Engines,
         NEW answered, DOMAIN answered.outcomes = DOMAIN bundle.scenarios,
         \A i \in DOMAIN bundle.scenarios :
           /\ answered.outcomes[i].scenario = bundle.scenarios[i]
           /\ answered.outcomes[i].signature = answers.evaluate[bundle.scenarios[i].intervention]
           /\ answered.outcomes[i].signature # Failure,
         Score(answered)
  PROVE  SelectionIsBound'
<1>1. batch' = <<answered>> /\ batch'[1] = answered
  BY Zenon DEF Score
<1>2. bundle.policy = <<>> \/ (DOMAIN bundle.policy = {1} /\ Len(bundle.policy) = 1)
  BY HostAssumption, OptionIs
<1>3. CASE bundle.policy = <<>>
  <2>1. selection' = <<>>
    BY <1>3 DEF Score
  <2> QED BY <1>3, <2>1 DEF SelectionIsBound
<1>4. CASE bundle.policy # <<>>
  <2>1. PICK policy : policy = EntryOf(policies, bundle.policy[1].id)
    OBVIOUS
  <2>2. /\ policy \in PolicyOffers /\ policy.id = bundle.policy[1].id
        /\ Keeps(policy.version, bundle.policy[1].version)
    BY <1>4, <2>1, LookupFinds DEF RegistriesOk
  <2>3. PICK worth : worth = [i \in DOMAIN answered.outcomes |->
                                PolicyScore(policy.implementation, answered.outcomes[i].signature)]
    OBVIOUS
  <2>4. PICK n : n = Len(bundle.scenarios)
    OBVIOUS
  <2>5. /\ n \in Nat \ {0} /\ DOMAIN bundle.scenarios = 1 .. n /\ OnceEach(bundle.scenarios)
        /\ \A i \in 1 .. n : bundle.scenarios[i].id \in Nat
    BY <2>4, ReadableIsInOrder
  <2>6. worth \in [1 .. n -> Int]
    <3>1. \A i \in 1 .. n : PolicyScore(policy.implementation, answered.outcomes[i].signature) \in Int
      BY <2>2, <2>5, HostAssumption, SMTT(30)
    <3> QED BY <2>3, <2>5, <3>1
  <2>7. PICK best : best = BestByPolicy(worth)
    OBVIOUS
  <2>8. FirstOfBest(worth, best, n)
    BY <2>5, <2>6, <2>7, BestIsFirst
  <2>9. best \in 1 .. n /\ best # 0
    BY <2>8, SMTT(30) DEF FirstOfBest
  <2>10. selection' = IF best = 0 THEN <<>>
                      ELSE <<[scenario |-> answered.outcomes[best].scenario.id,
                              score |-> worth[best]]>>
    <3>1. worth = [i \in DOMAIN answered.outcomes |->
                     PolicyScore(EntryOf(policies, bundle.policy[1].id).implementation,
                                 answered.outcomes[i].signature)]
      BY <2>1, <2>3
    <3>2. selection' =
            LET p == EntryOf(policies, bundle.policy[1].id)
                v == [i \in DOMAIN answered.outcomes |->
                        PolicyScore(p.implementation, answered.outcomes[i].signature)]
                b == BestByPolicy(v)
            IN  IF b = 0 THEN <<>>
                ELSE <<[scenario |-> answered.outcomes[b].scenario.id, score |-> v[b]]>>
      <4>1. selection' =
              IF bundle.policy = <<>> THEN <<>>
              ELSE LET p == EntryOf(policies, bundle.policy[1].id)
                       v == [i \in DOMAIN answered.outcomes |->
                               PolicyScore(p.implementation, answered.outcomes[i].signature)]
                       b == BestByPolicy(v)
                   IN  IF b = 0 THEN <<>>
                       ELSE <<[scenario |-> answered.outcomes[b].scenario.id, score |-> v[b]]>>
        BY Zenon DEF Score
      <4> QED BY <1>4, <4>1, Zenon
    <3>3. PICK w :
            /\ w = [i \in DOMAIN answered.outcomes |->
                      PolicyScore(EntryOf(policies, bundle.policy[1].id).implementation,
                                  answered.outcomes[i].signature)]
            /\ selection' = IF BestByPolicy(w) = 0 THEN <<>>
                            ELSE <<[scenario |-> answered.outcomes[BestByPolicy(w)].scenario.id,
                                    score |-> w[BestByPolicy(w)]]>>
      <4> WITNESS [i \in DOMAIN answered.outcomes |->
                     PolicyScore(EntryOf(policies, bundle.policy[1].id).implementation,
                                 answered.outcomes[i].signature)]
      <4> QED BY <3>2, Zenon
    <3>4. w = worth
      BY <3>1, <3>3, Zenon
    <3> QED BY <2>7, <3>3, <3>4, Zenon
  <2>11. PICK chosen : chosen = [scenario |-> bundle.scenarios[best].id, score |-> worth[best]]
    OBVIOUS
  <2>12. selection' = <<chosen>>
    BY <2>5, <2>9, <2>10, <2>11
  <2>13. ASSUME NEW o \in Elements(answered.outcomes)
         PROVE  \/ PolicyScore(policy.implementation, o.signature) < chosen.score
                \/ /\ PolicyScore(policy.implementation, o.signature) = chosen.score
                   /\ chosen.scenario <= o.scenario.id
    <3>1. PICK i \in 1 .. n : o = answered.outcomes[i]
      BY <2>5 DEF Elements
    <3>2. /\ PolicyScore(policy.implementation, o.signature) = worth[i]
          /\ o.scenario.id = bundle.scenarios[i].id
      BY <2>3, <2>5, <3>1
    <3>3. worth[i] \in Int /\ worth[best] \in Int
      BY <2>6, <2>9
    <3>4. worth[i] <= worth[best] /\ (i < best => worth[i] < worth[best])
      BY <2>8 DEF FirstOfBest
    <3>5. best < i => bundle.scenarios[best].id < bundle.scenarios[i].id
      BY <2>5, <2>9 DEF OnceEach
    <3>6. bundle.scenarios[best].id \in Nat /\ bundle.scenarios[i].id \in Nat
      BY <2>5, <2>9
    <3>7. i < best \/ i = best \/ best < i
      BY <2>5, <2>9
    <3>8. worth[i] < worth[best] \/ (worth[i] = worth[best]
                                       /\ bundle.scenarios[best].id <= bundle.scenarios[i].id)
      BY <3>3, <3>4, <3>5, <3>6, <3>7
    <3> QED BY <2>11, <3>2, <3>8
  <2>14. DOMAIN selection' = {1} /\ selection'[1] = chosen /\ Len(selection') = 1
    BY <2>12
  <2> QED BY <1>1, <1>2, <1>4, <2>2, <2>13, <2>14 DEF SelectionIsBound
<1> QED BY <1>3, <1>4, SMTT(30)

LEMMA ExecuteBinds ==
  ASSUME ExecutionInv, Execute
  PROVE  ExecutionIsBound'
<1>1. /\ RegistriesOk /\ bundle \in BundleTexts /\ record' = <<>> /\ bundle' = bundle
      /\ ReadBundleError(bundle) = NoError /\ ResolvedNow = NoError
  BY DEF ExecutionInv, HostInv, Idle, Execute
<1>17. PICK answers \in Engines :
        LET given == EvaluateBatch(answers, bundle.scenarios, Failure) IN
          /\ called' = PositionsAt(PositionsCalled(answers, bundle.scenarios, Failure))
          /\ IF given = Failure
             THEN outcome' = "failed" /\ UNCHANGED <<batch, scores, selection>>
             ELSE outcome' = "executed" /\ Score(given)
  BY Zenon DEF Execute
<1>18. PICK answered : answered = EvaluateBatch(answers, bundle.scenarios, Failure)
  OBVIOUS
<1>2. /\ called' = PositionsAt(PositionsCalled(answers, bundle.scenarios, Failure))
      /\ IF answered = Failure
         THEN outcome' = "failed" /\ UNCHANGED <<batch, scores, selection>>
         ELSE outcome' = "executed" /\ Score(answered)
  BY <1>17, <1>18, Zenon
<1>3. PICK offer \in AdapterOffers : Fits(offer)
  BY <1>1, ResolvedFits
<1>4. PICK n : n = Len(bundle.scenarios)
  OBVIOUS
<1>5. /\ n \in Nat \ {0} /\ OnceEach(bundle.scenarios)
      /\ bundle.scenarios \in Seq(Elements(bundle.scenarios))
  BY <1>1, <1>4, ReadableIsInOrder
<1>6. PICK last \in 0 .. n + 1 :
        /\ PositionsCalled(answers, bundle.scenarios, Failure) = [i \in 1 .. last |-> i - 1]
        /\ answered # Failure => last = n + 1
  BY <1>18, <1>4, <1>5, PositionsAre
<1>7. called' = [i \in 1 .. last |-> [engine |-> offer.engine, position |-> i - 1]]
  BY <1>2, <1>3, <1>6 DEF PositionsAt, Fits
<1>8. /\ Len(called') = last
      /\ \A i \in DOMAIN called' : called'[i] = [engine |-> offer.engine, position |-> i - 1]
  BY <1>5, <1>7
<1>9. CallsAreBound(offer)'
  BY <1>1, <1>3, <1>8 DEF CallsAreBound, Fits, Supports, Keeps, UpstreamFits
<1>10. Len(called') <= Len(bundle.scenarios) + 1
  BY <1>4, <1>5, <1>8
<1>11. outcome' # "refused" /\ (outcome' = "executed" => answered # Failure)
  BY <1>2
<1>12. ASSUME answered # Failure
       PROVE  Len(called') = Len(bundle.scenarios) + 1 /\ ScoresAreBound' /\ SelectionIsBound'
  <2>1. /\ DOMAIN answered.outcomes = DOMAIN bundle.scenarios
        /\ \A i \in DOMAIN bundle.scenarios :
             /\ answered.outcomes[i].scenario = bundle.scenarios[i]
             /\ answered.outcomes[i].signature = answers.evaluate[bundle.scenarios[i].intervention]
             /\ answered.outcomes[i].signature # Failure
    BY <1>18, <1>12, BatchIs
  <2>2. Score(answered)
    BY <1>2, <1>12
  <2>3. LookupError(metrics, bundle.metric) = NoError /\ LookupError(policies, bundle.policy) = NoError
    BY <1>1, ResolvedFits
  <2>4. ScoresAreBound'
    BY <1>1, <2>1, <2>2, <2>3, ScoresAre
  <2>5. SelectionIsBound'
    BY <1>1, <2>1, <2>2, <2>3, SelectionIs
  <2> QED BY <1>4, <1>6, <1>8, <1>12, <2>4, <2>5
<1>13. \E o \in AdapterOffers : CallsAreBound(o)'
  BY <1>9
<1>14. called' # <<>> =>
         /\ \E o \in AdapterOffers :
              /\ \A i \in DOMAIN called' : called'[i] = [engine |-> o.engine, position |-> i - 1]
              /\ o.metadata.id = bundle'.adapter.id
              /\ Keeps(o.metadata.version, bundle'.adapter.version)
              /\ bundle'.adapter.upstream # <<>> => o.metadata.upstream = bundle'.adapter.upstream
              /\ record' # <<>> => record'[1].adapter = MetadataOf(o.metadata)
         /\ Len(called') <= Len(bundle'.scenarios) + 1 /\ OnceEach(bundle'.scenarios)
  BY <1>1, <1>5, <1>10, <1>13 DEF CallsAreBound
<1>15. outcome' = "executed" =>
         /\ Len(called') = Len(bundle'.scenarios) + 1
         /\ ScoresAreBound' /\ SelectionIsBound'
  BY <1>1, <1>11, <1>12
<1>16. DOMAIN record' = {}
  BY <1>1
<1> QED BY <1>11, <1>14, <1>15, <1>16, Zenon DEF ExecutionIsBound, ScoresAreBound, SelectionIsBound

----------------------------------------------------------------------------
(* Records.                                                                *)

(* Checks none of which fires.                                             *)
LEMMA NothingFires ==
  ASSUME NEW checks, \A i \in DOMAIN checks : ~checks[i][1]
  PROVE  FirstError(checks) = NoError
BY DEF FirstError

LEMMA TwoPass ==
  ASSUME NEW e1, NEW e2
  PROVE  FirstError(<< <<FALSE, e1>>, <<FALSE, e2>> >>) = NoError
<1>1. PICK c : c = << <<FALSE, e1>>, <<FALSE, e2>> >>
  OBVIOUS
<1>2. /\ DOMAIN c = 1 .. 2
      /\ c[1][1] = FALSE /\ c[2][1] = FALSE
  BY <1>1
<1>3. \A i \in 1 .. 2 : i = 1 \/ i = 2
  OBVIOUS
<1>4. \A i \in DOMAIN c : c[i][1] = FALSE
  BY <1>2, <1>3, Zenon
<1> QED BY <1>1, <1>4, NothingFires, Zenon

LEMMA FourPass ==
  ASSUME NEW e1, NEW e2, NEW e3, NEW e4
  PROVE  FirstError(<< <<FALSE, e1>>, <<FALSE, e2>>, <<FALSE, e3>>, <<FALSE, e4>> >>) = NoError
<1>1. PICK c : c = << <<FALSE, e1>>, <<FALSE, e2>>, <<FALSE, e3>>, <<FALSE, e4>> >>
  OBVIOUS
<1>2. /\ DOMAIN c = 1 .. 4
      /\ c[1][1] = FALSE /\ c[2][1] = FALSE /\ c[3][1] = FALSE /\ c[4][1] = FALSE
  BY <1>1
<1>3. \A i \in 1 .. 4 : i = 1 \/ i = 2 \/ i = 3 \/ i = 4
  OBVIOUS
<1>4. \A i \in DOMAIN c : c[i][1] = FALSE
  BY <1>2, <1>3, Zenon
<1> QED BY <1>1, <1>4, NothingFires, Zenon

LEMMA FivePass ==
  ASSUME NEW e1, NEW e2, NEW e3, NEW e4, NEW e5
  PROVE  FirstError(<< <<FALSE, e1>>, <<FALSE, e2>>, <<FALSE, e3>>, <<FALSE, e4>>,
                       <<FALSE, e5>> >>) = NoError
<1>1. PICK c : c = << <<FALSE, e1>>, <<FALSE, e2>>, <<FALSE, e3>>, <<FALSE, e4>>,
                      <<FALSE, e5>> >>
  OBVIOUS
<1>2. /\ DOMAIN c = 1 .. 5
      /\ c[1][1] = FALSE /\ c[2][1] = FALSE /\ c[3][1] = FALSE /\ c[4][1] = FALSE
      /\ c[5][1] = FALSE
  BY <1>1
<1>3. \A i \in 1 .. 5 : i = 1 \/ i = 2 \/ i = 3 \/ i = 4 \/ i = 5
  OBVIOUS
<1>4. \A i \in DOMAIN c : c[i][1] = FALSE
  BY <1>2, <1>3, Zenon
<1> QED BY <1>1, <1>4, NothingFires, Zenon

LEMMA SixPass ==
  ASSUME NEW e1, NEW e2, NEW e3, NEW e4, NEW e5, NEW e6
  PROVE  FirstError(<< <<FALSE, e1>>, <<FALSE, e2>>, <<FALSE, e3>>, <<FALSE, e4>>,
                       <<FALSE, e5>>, <<FALSE, e6>> >>) = NoError
<1>1. PICK c : c = << <<FALSE, e1>>, <<FALSE, e2>>, <<FALSE, e3>>, <<FALSE, e4>>,
                      <<FALSE, e5>>, <<FALSE, e6>> >>
  OBVIOUS
<1>2. /\ DOMAIN c = 1 .. 6
      /\ c[1][1] = FALSE /\ c[2][1] = FALSE /\ c[3][1] = FALSE /\ c[4][1] = FALSE
      /\ c[5][1] = FALSE /\ c[6][1] = FALSE
  BY <1>1
<1>3. \A i \in 1 .. 6 : i = 1 \/ i = 2 \/ i = 3 \/ i = 4 \/ i = 5 \/ i = 6
  OBVIOUS
<1>4. \A i \in DOMAIN c : c[i][1] = FALSE
  BY <1>2, <1>3, Zenon
<1> QED BY <1>1, <1>4, NothingFires, Zenon

LEMMA ElevenPass ==
  ASSUME NEW e1, NEW e2, NEW e3, NEW e4, NEW e5, NEW e6, NEW e7, NEW e8, NEW e9, NEW e10, NEW e11
  PROVE  FirstError(<< <<FALSE, e1>>, <<FALSE, e2>>, <<FALSE, e3>>, <<FALSE, e4>>,
                       <<FALSE, e5>>, <<FALSE, e6>>, <<FALSE, e7>>, <<FALSE, e8>>,
                       <<FALSE, e9>>, <<FALSE, e10>>, <<FALSE, e11>> >>) = NoError
<1>1. PICK c : c = << <<FALSE, e1>>, <<FALSE, e2>>, <<FALSE, e3>>, <<FALSE, e4>>,
                      <<FALSE, e5>>, <<FALSE, e6>>, <<FALSE, e7>>, <<FALSE, e8>>,
                      <<FALSE, e9>>, <<FALSE, e10>>, <<FALSE, e11>> >>
  OBVIOUS
<1>2. /\ DOMAIN c = 1 .. 11
      /\ c[1][1] = FALSE /\ c[2][1] = FALSE /\ c[3][1] = FALSE /\ c[4][1] = FALSE
      /\ c[5][1] = FALSE /\ c[6][1] = FALSE /\ c[7][1] = FALSE /\ c[8][1] = FALSE
      /\ c[9][1] = FALSE /\ c[10][1] = FALSE /\ c[11][1] = FALSE
  BY <1>1
<1>3. \A i \in 1 .. 11 : i = 1 \/ i = 2 \/ i = 3 \/ i = 4 \/ i = 5 \/ i = 6 \/ i = 7 \/ i = 8
                       \/ i = 9 \/ i = 10 \/ i = 11
  OBVIOUS
<1>4. \A i \in DOMAIN c : c[i][1] = FALSE
  BY <1>2, <1>3, Zenon
<1> QED BY <1>1, <1>4, NothingFires, Zenon

(* Metadata that could be made are accepted again, and made the same.      *)
LEMMA MadeIsMade ==
  ASSUME NEW metadata, IsMetadata(metadata), MetadataError(metadata) = NoError
  PROVE  /\ MetadataError(MetadataOf(metadata)) = NoError
         /\ MetadataOf(MetadataOf(metadata)) = MetadataOf(metadata)
<1>1. PICK made : made = MetadataOf(metadata)
  OBVIOUS
<1>2. /\ made.id = metadata.id /\ made.version = metadata.version
      /\ made.upstream = metadata.upstream /\ made.capabilities = ById(metadata.capabilities)
      /\ IsMetadata(made)
  BY <1>1, MetadataOfKeeps
<1>3. /\ DOMAIN made.capabilities = DOMAIN metadata.capabilities
      /\ IsList(made.capabilities) /\ IsList(metadata.capabilities)
      /\ Elements(made.capabilities) = Elements(metadata.capabilities)
      /\ Distinct(IdAtEach(made.capabilities)) <=> Distinct(IdAtEach(metadata.capabilities))
  BY <1>2, Sorting DEF IsMetadata
<1>4. PICK c : c = <<
               <<metadata.version.major = 0, "ZeroMajorVersion">>,
               <<metadata.capabilities = <<>>, "EmptyCapabilities">>,
               <<~Distinct([i \in DOMAIN metadata.capabilities |-> metadata.capabilities[i].id]),
                 "DuplicateCapability">>,
               <<metadata.id = 0, "InvalidNamespacedId">> >>
  OBVIOUS
<1>5. PICK entries : entries = [i \in DOMAIN metadata.capabilities |->
                                  EntryError(metadata.capabilities[i])]
  OBVIOUS
<1>6. /\ UpstreamError(metadata.upstream) = NoError /\ FirstOf(entries) = NoError
      /\ FirstError(c) = NoError
  <2>1. MetadataError(metadata) =
          FirstOf(<< UpstreamError(metadata.upstream), FirstOf(entries), FirstError(c) >>)
    BY <1>4, <1>5, Zenon DEF MetadataError
  <2> QED BY <2>1, NoneOfThree
<1>7. DOMAIN c = 1 .. 4 /\ \A i \in 1 .. 4 : c[i][2] # NoError
  <2>1. \A i \in 1 .. 4 : i = 1 \/ i = 2 \/ i = 3 \/ i = 4
    OBVIOUS
  <2> QED BY <1>4, <2>1 DEF NoError
<1>8. ~c[1][1] /\ ~c[2][1] /\ ~c[3][1] /\ ~c[4][1]
  <2>1. DOMAIN c \subseteq Nat
    BY <1>7
  <2>2. \A i \in DOMAIN c : ~c[i][1]
    BY <1>6, <1>7, <2>1, NoFirstError
  <2> QED BY <1>7, <2>2
<1>9. /\ c[1][1] = (metadata.version.major = 0) /\ c[2][1] = (metadata.capabilities = <<>>)
      /\ c[3][1] = (~Distinct([i \in DOMAIN metadata.capabilities |-> metadata.capabilities[i].id]))
      /\ c[4][1] = (metadata.id = 0)
  BY <1>4
<1>10. /\ metadata.version.major # 0 /\ metadata.capabilities # <<>> /\ metadata.id # 0
       /\ Distinct(IdAtEach(metadata.capabilities))
  BY <1>8, <1>9, Zenon DEF IdAtEach
<1>11. made.capabilities # <<>>
  <2>1. Len(metadata.capabilities) \in Nat
          /\ DOMAIN metadata.capabilities = 1 .. Len(metadata.capabilities)
    BY <1>3 DEF IsList
  <2>2. Len(metadata.capabilities) = 0 => metadata.capabilities = <<>>
    BY <1>3, EmptySeq DEF IsList
  <2>3. 1 \in DOMAIN metadata.capabilities
    BY <1>10, <2>1, <2>2
  <2>4. DOMAIN <<>> = {}
    OBVIOUS
  <2> QED BY <1>3, <2>3, <2>4
<1>12. FirstError(<<
         <<made.version.major = 0, "ZeroMajorVersion">>,
         <<made.capabilities = <<>>, "EmptyCapabilities">>,
         <<~Distinct([i \in DOMAIN made.capabilities |-> made.capabilities[i].id]),
           "DuplicateCapability">>,
         <<made.id = 0, "InvalidNamespacedId">> >>) = NoError
  <2>1. Distinct([i \in DOMAIN made.capabilities |-> made.capabilities[i].id])
    BY <1>3, <1>10, Zenon DEF IdAtEach
  <2>2. /\ (made.version.major = 0) = FALSE /\ (made.capabilities = <<>>) = FALSE
        /\ (made.id = 0) = FALSE
    BY <1>2, <1>10, <1>11
  <2>3. (~Distinct([i \in DOMAIN made.capabilities |-> made.capabilities[i].id])) = FALSE
    BY <2>1, Zenon
  <2> QED BY <2>2, <2>3, FourPass, Zenon
<1>13. FirstOf([i \in DOMAIN made.capabilities |-> EntryError(made.capabilities[i])]) = NoError
  <2>1. PICK q : q = [i \in DOMAIN made.capabilities |-> EntryError(made.capabilities[i])]
    OBVIOUS
  <2>2. DOMAIN q = DOMAIN made.capabilities /\ DOMAIN q \subseteq Nat
    BY <1>3, <2>1 DEF IsList
  <2>3. \A i \in DOMAIN metadata.capabilities : EntryError(metadata.capabilities[i]) = NoError
    <3>1. DOMAIN entries = DOMAIN metadata.capabilities /\ DOMAIN entries \subseteq Nat
      BY <1>3, <1>5 DEF IsList
    <3>2. \A i \in DOMAIN entries : entries[i] = NoError
      BY <1>6, <3>1, NoFirstOf
    <3> QED BY <1>5, <3>1, <3>2
  <2>4. ASSUME NEW i \in DOMAIN q PROVE q[i] = NoError
    <3>1. made.capabilities[i] \in Elements(metadata.capabilities)
      BY <1>3, <2>2, <2>4 DEF Elements
    <3>2. PICK j \in DOMAIN metadata.capabilities : made.capabilities[i] = metadata.capabilities[j]
      BY <3>1 DEF Elements
    <3> QED BY <2>1, <2>3, <3>2
  <2>5. FirstOf(q) = NoError
    BY <2>2, <2>4, NoFirstOf
  <2> QED BY <2>1, <2>5
<1>14. MetadataError(made) = NoError
  <2>1. UpstreamError(made.upstream) = NoError
    BY <1>2, <1>6
  <2>2. FirstOf(<<NoError, NoError, NoError>>) = NoError
    BY NoneOfThree
  <2> QED BY <1>12, <1>13, <2>1, <2>2, Zenon DEF MetadataError
<1>15. MetadataOf(made) = made
  <2>1. OnceEach(made.capabilities)
    BY <1>2, <1>3, <1>10, Sorting
  <2>2. ById(made.capabilities) = made.capabilities
    BY <1>3, <2>1, Sorting
  <2>3. made = [x \in DOMAIN metadata |->
                  IF x = "capabilities" THEN ById(metadata.capabilities) ELSE metadata[x]]
    BY <1>1 DEF MetadataOf
  <2>4. MetadataOf(made) = [x \in DOMAIN made |->
                              IF x = "capabilities" THEN made.capabilities ELSE made[x]]
    BY <2>2 DEF MetadataOf
  <2>5. made = [x \in DOMAIN made |-> made[x]]
    BY <2>3
  <2>6. \A x \in DOMAIN made : (IF x = "capabilities" THEN made.capabilities ELSE made[x]) = made[x]
    OBVIOUS
  <2>7. MetadataOf(made) = [x \in DOMAIN made |-> made[x]]
    BY <2>4, <2>6
  <2> QED BY <2>5, <2>7
<1> QED BY <1>1, <1>14, <1>15

(* How a bounded evaluation of n scenarios may end.                        *)
Interrupted(report, n, limit, deadline) ==
  /\ report.terminal.state = "interrupted"
  /\ report.terminal.reason = "DeadlineReached" => deadline
  /\ report.terminal.reason = "EvaluationLimitReached" => report.done = limit /\ report.done < n
BaselineFailed(report, limit) ==
  /\ report.terminal.state = "failed" /\ report.terminal.scenario = <<>>
  /\ report.terminal.error = Payload
  /\ report.baseline = <<>> /\ limit # 0
CandidateFailed(report, n, limit) ==
  /\ report.terminal.state = "failed"
  /\ report.terminal.scenario = <<bundle.scenarios[report.done + 1].id>>
  /\ report.terminal.error = Payload
  /\ report.baseline # <<>> /\ report.done < limit /\ report.done < n
Completed(report, n) ==
  report.terminal.state = "completed" /\ report.baseline # <<>> /\ report.done = n
Ended(report, n, limit, deadline) ==
  /\ report.done \in 0 .. n /\ report.done <= limit
  /\ report.baseline = <<>> \/ report.baseline = <<Payload>>
  /\ report.baseline = <<>> => report.done = 0
  /\ limit = 0 => report.baseline = <<>>
  /\ \/ Interrupted(report, n, limit, deadline)
     \/ BaselineFailed(report, limit)
     \/ CandidateFailed(report, n, limit)
     \/ Completed(report, n)

LEMMA ReportsEnd ==
  ASSUME NEW n \in Nat \ {0}, NEW limit \in Nat, NEW deadline \in BOOLEAN,
         NEW report \in Reports(n, limit, deadline)
  PROVE  Ended(report, n, limit, deadline)
<1> DEFINE interrupted(done) ==
             { [state |-> "interrupted", reason |-> r] :
                 r \in {"Cancelled"} \cup (IF deadline THEN {"DeadlineReached"} ELSE {})
                         \cup (IF done = limit /\ done < n THEN {"EvaluationLimitReached"} ELSE {}) }
           failed(scenario) == [state |-> "failed", scenario |-> scenario, error |-> Payload]
           ended(done) ==
             interrupted(done)
               \cup (IF done < limit /\ done < n
                     THEN {failed(<<bundle.scenarios[done + 1].id>>)} ELSE {})
               \cup (IF done = n THEN {[state |-> "completed"]} ELSE {})
           most == IF limit < n THEN limit ELSE n
<1>1. report \in { [baseline |-> <<>>, done |-> 0, terminal |-> t] : t \in interrupted(0) }
      \cup (IF limit = 0 THEN {}
            ELSE { [baseline |-> <<>>, done |-> 0, terminal |-> failed(<<>>)] }
                 \cup UNION { { [baseline |-> <<Payload>>, done |-> m, terminal |-> t] :
                                  t \in ended(m) } : m \in 0 .. most })
  BY Zenon DEF Reports
<1>2. ASSUME NEW done, NEW t \in interrupted(done)
      PROVE  /\ t.state = "interrupted"
             /\ t.reason = "DeadlineReached" => deadline
             /\ t.reason = "EvaluationLimitReached" => done = limit /\ done < n
  <2>1. PICK r \in {"Cancelled"} \cup (IF deadline THEN {"DeadlineReached"} ELSE {})
                     \cup (IF done = limit /\ done < n THEN {"EvaluationLimitReached"} ELSE {}) :
          t = [state |-> "interrupted", reason |-> r]
    BY <1>2
  <2>2. t.state = "interrupted" /\ t.reason = r
    BY <2>1
  <2>3. r = "DeadlineReached" => deadline
    BY <2>1
  <2>4. r = "EvaluationLimitReached" => done = limit /\ done < n
    BY <2>1
  <2> QED BY <2>2, <2>3, <2>4
<1> HIDE DEF interrupted
<1>3. <<Payload>> # <<>>
  OBVIOUS
<1>4. CASE report \in { [baseline |-> <<>>, done |-> 0, terminal |-> t] : t \in interrupted(0) }
  <2>1. PICK t \in interrupted(0) : report = [baseline |-> <<>>, done |-> 0, terminal |-> t]
    BY <1>4
  <2>2. report.baseline = <<>> /\ report.done = 0 /\ report.terminal = t
    BY <2>1
  <2>3. Interrupted(report, n, limit, deadline)
    BY <1>2, <2>2 DEF Interrupted
  <2> QED BY <2>2, <2>3 DEF Ended
<1>5. CASE limit # 0 /\ report = [baseline |-> <<>>, done |-> 0, terminal |-> failed(<<>>)]
  <2>1. report.baseline = <<>> /\ report.done = 0 /\ report.terminal = failed(<<>>)
    BY <1>5
  <2>2. BaselineFailed(report, limit)
    BY <1>5, <2>1 DEF BaselineFailed
  <2> QED BY <1>5, <2>1, <2>2 DEF Ended
<1>6. CASE limit # 0 /\ \E m \in 0 .. most :
             \E t \in ended(m) : report = [baseline |-> <<Payload>>, done |-> m, terminal |-> t]
  <2>7. PICK m \in 0 .. most :
          \E t \in ended(m) : report = [baseline |-> <<Payload>>, done |-> m, terminal |-> t]
    BY <1>6
  <2>1. PICK t \in ended(m) : report = [baseline |-> <<Payload>>, done |-> m, terminal |-> t]
    BY <2>7
  <2>2. report.baseline = <<Payload>> /\ report.done = m /\ report.terminal = t
    BY <2>1
  <2>3. m \in 0 .. n /\ m <= limit
    BY <2>1
  <2>4. CASE t \in interrupted(m)
    <3>1. Interrupted(report, n, limit, deadline)
      BY <1>2, <2>2, <2>4 DEF Interrupted
    <3> QED BY <1>6, <2>2, <2>3, <3>1 DEF Ended
  <2>5. CASE m < limit /\ m < n /\ t = failed(<<bundle.scenarios[m + 1].id>>)
    <3>1. CandidateFailed(report, n, limit)
      BY <1>3, <2>2, <2>5 DEF CandidateFailed
    <3> QED BY <1>6, <2>2, <2>3, <3>1 DEF Ended
  <2>6. CASE m = n /\ t = [state |-> "completed"]
    <3>1. Completed(report, n)
      BY <1>3, <2>2, <2>6 DEF Completed
    <3> QED BY <1>6, <2>2, <2>3, <3>1 DEF Ended
  <2> QED BY <2>1, <2>4, <2>5, <2>6
<1>7. \/ report \in { [baseline |-> <<>>, done |-> 0, terminal |-> t] : t \in interrupted(0) }
      \/ limit # 0 /\ report = [baseline |-> <<>>, done |-> 0, terminal |-> failed(<<>>)]
      \/ limit # 0 /\ \E m \in 0 .. most :
           \E t \in ended(m) : report = [baseline |-> <<Payload>>, done |-> m, terminal |-> t]
  <2> HIDE DEF ended, failed, most
  <2> QED BY <1>1
<1> QED BY <1>4, <1>5, <1>6, <1>7

(* The bundle's ids, and what is left of them.                             *)
LEMMA IdsAre ==
  ASSUME bundle \in BundleTexts, ReadBundleError(bundle) = NoError
  PROVE  /\ Listed(bundle) \in Seq(Nat) /\ Len(Listed(bundle)) = Len(bundle.scenarios)
         /\ Len(bundle.scenarios) \in Nat \ {0}
         /\ \A i \in 1 .. Len(bundle.scenarios) : Listed(bundle)[i] = bundle.scenarios[i].id
<1>1. PICK n : n = Len(bundle.scenarios)
  OBVIOUS
<1>2. /\ n \in Nat \ {0} /\ DOMAIN bundle.scenarios = 1 .. n
      /\ \A i \in 1 .. n : bundle.scenarios[i].id \in Nat
  BY <1>1, ReadableIsInOrder
<1>3. PICK ids : ids = Listed(bundle)
  OBVIOUS
<1>4. ids = [i \in 1 .. n |-> bundle.scenarios[i].id]
  BY <1>2, <1>3 DEF Listed
<1>5. ids \in Seq(Nat) /\ Len(ids) = n /\ \A i \in 1 .. n : ids[i] = bundle.scenarios[i].id
  BY <1>2, <1>4
<1> QED BY <1>1, <1>2, <1>3, <1>5

LEMMA Rest ==
  ASSUME NEW ids \in Seq(Nat), NEW n \in Nat, n = Len(ids), NEW m \in 0 .. n
  PROVE  /\ SubSeq(ids, m + 1, n) \in Seq(Nat)
         /\ Len(SubSeq(ids, m + 1, n)) = n - m
         /\ m = n => SubSeq(ids, m + 1, n) = <<>>
         /\ m < n => /\ SubSeq(ids, m + 1, n) # <<>>
                     /\ SubSeq(ids, m + 1, n)[1] = ids[m + 1]
                     /\ IsPrefix(<<ids[m + 1]>>, SubSeq(ids, m + 1, n))
<1>1. \A i \in m + 1 .. n : ids[i] \in Nat
  OBVIOUS
<1>2. m + 1 \in Int /\ n \in Int
  OBVIOUS
<1>3. PICK s : s = SubSeq(ids, m + 1, n)
  OBVIOUS
<1>4. /\ s \in Seq(Nat)
      /\ Len(s) = IF m + 1 <= n THEN n - (m + 1) + 1 ELSE 0
      /\ \A i \in 1 .. n - (m + 1) + 1 : s[i] = ids[m + 1 + i - 1]
  BY <1>1, <1>2, <1>3, SubSeqProperties
<1>5. m < n => s[1] = ids[m + 1] /\ s # <<>>
  BY <1>2, <1>4
<1>6. m = n => s = <<>>
  BY <1>2, <1>4, EmptySeq
<1>7. Len(s) = n - m
  BY <1>2, <1>4
<1>8. ASSUME m < n PROVE IsPrefix(<<ids[m + 1]>>, s)
  <2>1. PICK id \in Nat : id = ids[m + 1]
    BY <1>1, <1>8
  <2>2. <<id>> \in Seq(Nat) /\ Len(<<id>>) = 1
    OBVIOUS
  <2>3. PICK q : q = <<id>>
    OBVIOUS
  <2>4. q \in Seq(Nat) /\ Len(q) = 1 /\ q[1] = id
    BY <2>2, <2>3
  <2>5. PICK r : r = SubSeq(s, 1, 1)
    OBVIOUS
  <2>6. \A i \in 1 .. 1 : s[i] \in Nat
    BY <1>4, <1>5, <1>8, <2>1
  <2>7. /\ r \in Seq(Nat) /\ Len(r) = IF 1 <= 1 THEN 1 - 1 + 1 ELSE 0
        /\ \A i \in 1 .. 1 - 1 + 1 : r[i] = s[1 + i - 1]
    BY <2>5, <2>6, SubSeqProperties
  <2>8. Len(r) = 1 /\ r[1] = id
    BY <1>5, <1>8, <2>1, <2>7
  <2>9. \A i \in 1 .. Len(q) : r[i] = q[i]
    BY <2>4, <2>8
  <2>10. r = q
    BY <2>4, <2>7, <2>8, <2>9
  <2>11. SubSeq(q, 1, 1) = q
    BY <2>4, SubSeqFull
  <2>12. Len(q) <= Len(s)
    BY <1>7, <1>8, <2>4
  <2>13. IsPrefix(q, s)
    BY <2>4, <2>5, <2>10, <2>11, <2>12 DEF IsPrefix
  <2> QED BY <2>1, <2>3, <2>13
<1> QED BY <1>3, <1>4, <1>5, <1>6, <1>7, <1>8

(* What is captured.                                                       *)
Begun(report) ==
  report.done + (IF report.terminal.state = "failed" THEN Len(report.terminal.scenario) ELSE 0)

LEMMA CaptureBinds ==
  ASSUME NEW report, NEW limit, NEW deadline, NEW r, r = Capture(report, limit, deadline)
  PROVE  /\ r.form = "good" /\ r.run = 1 /\ r.codecs
         /\ r.digest = bundle /\ r.bundle = bundle.id /\ r.seed = bundle.seed
         /\ r.adapter = Adapter.metadata
<1>1. PICK o : o = [i \in 1 .. report.done |-> [scenario |-> bundle.scenarios[i].id,
                                               payload |-> Payload]]
  OBVIOUS
<1>2. PICK s : s = SubSeq(Listed(bundle), Begun(report) + 1, Len(bundle.scenarios))
  OBVIOUS
<1>3. r = Bind(RecordOf(report.baseline, o, s, report.terminal, limit, deadline), 1, bundle,
               Adapter.metadata)
  BY <1>1, <1>2, Zenon DEF Capture, Begun
<1> QED BY <1>3 DEF Bind, RecordOf

LEMMA CaptureRecords ==
  ASSUME NEW report, NEW limit, NEW deadline, NEW r, r = Capture(report, limit, deadline)
  PROVE  /\ r.baseline = report.baseline
         /\ r.outcomes = [i \in 1 .. report.done |-> [scenario |-> bundle.scenarios[i].id,
                                                      payload |-> Payload]]
         /\ r.terminal = report.terminal /\ r.limit = limit /\ r.deadline = deadline
<1>1. PICK o : o = [i \in 1 .. report.done |-> [scenario |-> bundle.scenarios[i].id,
                                               payload |-> Payload]]
  OBVIOUS
<1>2. PICK s : s = SubSeq(Listed(bundle), Begun(report) + 1, Len(bundle.scenarios))
  OBVIOUS
<1>3. r = Bind(RecordOf(report.baseline, o, s, report.terminal, limit, deadline), 1, bundle,
               Adapter.metadata)
  BY <1>1, <1>2, Zenon DEF Capture, Begun
<1>4. r.outcomes = o
  BY <1>3 DEF Bind, RecordOf
<1>5. /\ r.baseline = report.baseline
      /\ r.terminal = report.terminal /\ r.limit = limit /\ r.deadline = deadline
  BY <1>3 DEF Bind, RecordOf
<1> QED BY <1>1, <1>4, <1>5, Zenon

LEMMA CaptureLeaves ==
  ASSUME NEW report, NEW limit, NEW deadline, NEW r, r = Capture(report, limit, deadline)
  PROVE  r.pending = SubSeq(Listed(bundle), Begun(report) + 1, Len(bundle.scenarios))
<1>1. PICK o : o = [i \in 1 .. report.done |-> [scenario |-> bundle.scenarios[i].id,
                                               payload |-> Payload]]
  OBVIOUS
<1>2. PICK s : s = SubSeq(Listed(bundle), Begun(report) + 1, Len(bundle.scenarios))
  OBVIOUS
<1>3. r = Bind(RecordOf(report.baseline, o, s, report.terminal, limit, deadline), 1, bundle,
               Adapter.metadata)
  BY <1>1, <1>2, Zenon DEF Capture, Begun
<1>4. r.pending = s
  BY <1>3 DEF Bind, RecordOf
<1> QED BY <1>2, <1>4, Zenon

(* Eleven checks, the sixth of which fires.                                *)
LEMMA SixthFires ==
  ASSUME NEW p1, NEW e1, e1 # NoError, NEW p2, NEW e2, e2 # NoError,
         NEW p3, NEW e3, e3 # NoError, NEW p4, NEW e4, e4 # NoError,
         NEW p5, NEW e5, e5 # NoError, NEW e6, e6 # NoError,
         NEW p7, NEW e7, e7 # NoError, NEW p8, NEW e8, e8 # NoError,
         NEW p9, NEW e9, e9 # NoError, NEW p10, NEW e10, e10 # NoError,
         NEW p11, NEW e11, e11 # NoError
  PROVE  FirstError(<< <<p1, e1>>, <<p2, e2>>, <<p3, e3>>, <<p4, e4>>, <<p5, e5>>, <<TRUE, e6>>,
                       <<p7, e7>>, <<p8, e8>>, <<p9, e9>>, <<p10, e10>>, <<p11, e11>> >>) # NoError
<1>1. PICK c : c = << <<p1, e1>>, <<p2, e2>>, <<p3, e3>>, <<p4, e4>>, <<p5, e5>>, <<TRUE, e6>>,
                      <<p7, e7>>, <<p8, e8>>, <<p9, e9>>, <<p10, e10>>, <<p11, e11>> >>
  OBVIOUS
<1>2. /\ DOMAIN c = 1 .. 11 /\ c[6][1] = TRUE
      /\ c[1][2] = e1 /\ c[2][2] = e2 /\ c[3][2] = e3 /\ c[4][2] = e4
      /\ c[5][2] = e5 /\ c[6][2] = e6 /\ c[7][2] = e7 /\ c[8][2] = e8
      /\ c[9][2] = e9 /\ c[10][2] = e10 /\ c[11][2] = e11
  BY <1>1
<1>3. \A i \in 1 .. 11 : i = 1 \/ i = 2 \/ i = 3 \/ i = 4 \/ i = 5 \/ i = 6 \/ i = 7 \/ i = 8
                       \/ i = 9 \/ i = 10 \/ i = 11
  OBVIOUS
<1>4. /\ c[1][2] # NoError /\ c[2][2] # NoError /\ c[3][2] # NoError /\ c[4][2] # NoError
      /\ c[5][2] # NoError /\ c[6][2] # NoError /\ c[7][2] # NoError /\ c[8][2] # NoError
      /\ c[9][2] # NoError /\ c[10][2] # NoError /\ c[11][2] # NoError
  BY <1>2
<1>5. \A i \in DOMAIN c : c[i][2] # NoError
  BY <1>2, <1>3, <1>4, Zenon
<1>6. c[6][1] /\ 6 \in DOMAIN c /\ DOMAIN c \subseteq Nat
  BY <1>2
<1>7. FirstError(c) # NoError
  BY <1>5, <1>6, NoFirstError
<1> QED BY <1>1, <1>7

(* The record is bound to the bundle, and to no other.                     *)
LEMMA RecordIsBound ==
  ASSUME NEW offer, Fits(offer),
         NEW report, NEW limit, NEW deadline, NEW r, r = Capture(report, limit, deadline)
  PROVE  BindingError(r, bundle) = NoError
<1>1. PICK b : b = bundle
  OBVIOUS
<1>9. /\ r.form = "good" /\ r.run = 1 /\ r.codecs
      /\ r.digest = bundle /\ r.bundle = bundle.id /\ r.seed = bundle.seed
      /\ r.adapter = Adapter.metadata
  BY CaptureBinds
<1>2. /\ r.form = "good" /\ r.run = 1 /\ r.codecs
      /\ r.digest = b /\ r.bundle = b.id /\ r.seed = b.seed
      /\ r.adapter = MetadataOf(offer.metadata)
  BY <1>1, <1>9 DEF Fits
<1>3. /\ MetadataError(r.adapter) = NoError /\ MetadataOf(r.adapter) = r.adapter
      /\ r.adapter.id = offer.metadata.id /\ r.adapter.version = offer.metadata.version
      /\ r.adapter.upstream = offer.metadata.upstream
  BY <1>2, MadeIsMade, MetadataOfKeeps DEF Fits
<1>4. /\ Supports(r.adapter.version, b.adapter.version) /\ r.adapter.id = b.adapter.id
      /\ UpstreamFits(r.adapter.upstream, b.adapter.upstream)
  BY <1>1, <1>3 DEF Fits
<1>5. /\ (r.form = "long") = FALSE /\ (r.form = "shape") = FALSE
      /\ (r.form = "noncanonical") = FALSE /\ (r.form = "schema") = FALSE
      /\ (r.run = 0) = FALSE
      /\ (r.digest # b \/ r.bundle # b.id \/ r.seed # b.seed) = FALSE
      /\ (MetadataError(r.adapter) # NoError) = FALSE
      /\ (MetadataOf(r.adapter) # r.adapter) = FALSE
  BY <1>2, <1>3
<1>6. /\ (r.adapter.id # b.adapter.id \/ ~Supports(r.adapter.version, b.adapter.version)) = FALSE
      /\ (~UpstreamFits(r.adapter.upstream, b.adapter.upstream)) = FALSE
  BY <1>4, Zenon
<1>7. (~r.codecs) = FALSE
  BY <1>2
<1>8. BindingError(r, b) = NoError
  BY <1>5, <1>6, <1>7, ElevenPass, Zenon DEF BindingError
<1> QED BY <1>1, <1>8

LEMMA OtherBundlesAreRefused ==
  ASSUME NEW r, NEW text, r.digest # text
  PROVE  VerifyError(r, text) # NoError
<1>1. (r.digest # text \/ r.bundle # text.id \/ r.seed # text.seed) = TRUE
  BY Zenon
<1>11. PICK p1 : (r.form = "long") = p1
  OBVIOUS
<1>12. PICK p2 : (r.form = "shape") = p2
  OBVIOUS
<1>13. PICK p3 : (r.form = "noncanonical") = p3
  OBVIOUS
<1>14. PICK p4 : (r.form = "schema") = p4
  OBVIOUS
<1>15. PICK p5 : (r.run = 0) = p5
  OBVIOUS
<1>16. PICK p7 : (MetadataError(r.adapter) # NoError) = p7
  OBVIOUS
<1>17. PICK p8 : (MetadataOf(r.adapter) # r.adapter) = p8
  OBVIOUS
<1>18. PICK p9 : (r.adapter.id # text.adapter.id
                        \/ ~Supports(r.adapter.version, text.adapter.version)) = p9
  OBVIOUS
<1>19. PICK p10 : (~UpstreamFits(r.adapter.upstream, text.adapter.upstream)) = p10
  OBVIOUS
<1>20. PICK p11 : (~r.codecs) = p11
  OBVIOUS
<1>2. /\ "record exceeds byte limit" # NoError /\ "Json" # NoError
      /\ "noncanonical record or duplicate/missing fields" # NoError
      /\ "unsupported schema or evidence kind" # NoError /\ "invalid run ID" # NoError
      /\ "input bundle binding mismatch" # NoError /\ "invalid adapter metadata" # NoError
      /\ "noncanonical adapter metadata" # NoError /\ "adapter contract mismatch" # NoError
      /\ "adapter upstream mismatch" # NoError /\ "invalid codec ID" # NoError
  BY DEF NoError
<1>21. FirstError(<<
         <<p1, "record exceeds byte limit">>, <<p2, "Json">>,
         <<p3, "noncanonical record or duplicate/missing fields">>,
         <<p4, "unsupported schema or evidence kind">>, <<p5, "invalid run ID">>,
         <<TRUE, "input bundle binding mismatch">>,
         <<p7, "invalid adapter metadata">>, <<p8, "noncanonical adapter metadata">>,
         <<p9, "adapter contract mismatch">>, <<p10, "adapter upstream mismatch">>,
         <<p11, "invalid codec ID">> >>) # NoError
  BY <1>2, SixthFires, Zenon
<1>22. BindingError(r, text) = FirstError(<<
         <<p1, "record exceeds byte limit">>, <<p2, "Json">>,
         <<p3, "noncanonical record or duplicate/missing fields">>,
         <<p4, "unsupported schema or evidence kind">>, <<p5, "invalid run ID">>,
         <<TRUE, "input bundle binding mismatch">>,
         <<p7, "invalid adapter metadata">>, <<p8, "noncanonical adapter metadata">>,
         <<p9, "adapter contract mismatch">>, <<p10, "adapter upstream mismatch">>,
         <<p11, "invalid codec ID">> >>)
  BY <1>1, <1>11, <1>12, <1>13, <1>14, <1>15, <1>16, <1>17, <1>18, <1>19, <1>20, ZenonT(120) DEF BindingError
<1>3. BindingError(r, text) # NoError
  BY <1>21, <1>22, Zenon
<1>4. RecordError(r, text) # NoError
  BY <1>3, Zenon DEF RecordError
<1>5. "invalid canonical input bundle" # NoError
  BY DEF NoError
<1> QED BY <1>4, <1>5, Zenon DEF VerifyError

LEMMA RecordIsOfOne ==
  ASSUME NEW offer, Fits(offer),
         NEW report, NEW limit, NEW deadline, NEW r, r = Capture(report, limit, deadline)
  PROVE  /\ r.adapter = MetadataOf(offer.metadata)
         /\ \A text \in BundleTexts \ {bundle} : VerifyError(r, text) # NoError
<1>1. /\ r.form = "good" /\ r.run = 1 /\ r.codecs
      /\ r.digest = bundle /\ r.bundle = bundle.id /\ r.seed = bundle.seed
      /\ r.adapter = Adapter.metadata
  BY CaptureBinds
<1>2. r.adapter = MetadataOf(offer.metadata)
  BY <1>1 DEF Fits
<1>3. ASSUME NEW text \in BundleTexts \ {bundle} PROVE VerifyError(r, text) # NoError
  <2>1. r.digest # text
    BY <1>1
  <2> QED BY <2>1, OtherBundlesAreRefused
<1> QED BY <1>2, <1>3

(* The successes are within the quota, after a baseline, a prefix.         *)
LEMMA PrefixIsAccepted ==
  ASSUME bundle \in BundleTexts, ReadBundleError(bundle) = NoError,
         NEW limit \in Nat, NEW deadline \in BOOLEAN, NEW report,
         Ended(report, Len(bundle.scenarios), limit, deadline),
         NEW r, r = Capture(report, limit, deadline)
  PROVE  PrefixError(r, bundle) = NoError
<1>1. PICK b : b = bundle
  OBVIOUS
<1>2. PICK n : n = Len(bundle.scenarios)
  OBVIOUS
<1>3. PICK ids : ids = Listed(bundle)
  OBVIOUS
<1>4. PICK m : m = report.done
  OBVIOUS
<1>5. /\ ids \in Seq(Nat) /\ Len(ids) = n /\ n \in Nat \ {0}
      /\ \A i \in 1 .. n : ids[i] = bundle.scenarios[i].id
  BY <1>2, <1>3, IdsAre
<1>6. /\ m \in 0 .. n /\ m <= limit
      /\ report.baseline = <<>> \/ report.baseline = <<Payload>>
      /\ report.baseline = <<>> => m = 0
  BY <1>2, <1>4 DEF Ended
<1>11. /\ r.baseline = report.baseline /\ r.limit = limit
       /\ r.outcomes = [i \in 1 .. report.done |-> [scenario |-> bundle.scenarios[i].id,
                                                    payload |-> Payload]]
  BY CaptureRecords
<1>7. /\ DOMAIN r.outcomes = 1 .. m /\ Len(r.outcomes) = m
      /\ \A i \in 1 .. m : r.outcomes[i].scenario = ids[i] /\ r.outcomes[i].payload.long = FALSE
  <2>1. Payload.long = FALSE
    BY DEF Payload
  <2> QED BY <1>4, <1>5, <1>6, <1>11, <2>1
<1>8. /\ (Len(r.outcomes) > r.limit) = FALSE
      /\ (r.baseline = <<>> /\ r.outcomes # <<>>) = FALSE
  <2>1. ASSUME r.baseline = <<>> PROVE r.outcomes = <<>>
    BY <1>4, <1>6, <1>11, <2>1
  <2> QED BY <1>6, <1>7, <1>11, <2>1
<1>9. (\E i \in DOMAIN r.baseline : r.baseline[i].long) = FALSE
  <2>1. \A i \in DOMAIN r.baseline : r.baseline[i].long = FALSE
    <3>1. Payload.long = FALSE
      BY DEF Payload
    <3>2. CASE r.baseline = <<>>
      BY <3>2
    <3>3. CASE r.baseline = <<Payload>>
      BY <3>1, <3>3
    <3> QED BY <1>6, <1>11, <3>2, <3>3
  <2> QED BY <2>1, Zenon
<1>10. IsPrefix(Succeeded(r), Listed(b))
  <2>1. PICK s : s = Succeeded(r)
    OBVIOUS
  <2>2. s = [i \in DOMAIN r.outcomes |-> r.outcomes[i].scenario]
    BY <2>1 DEF Succeeded
  <2>3. s \in Seq(Nat) /\ Len(s) = m /\ \A i \in 1 .. m : s[i] = ids[i]
    <3>1. \A i \in 1 .. m : ids[i] \in Nat /\ r.outcomes[i].scenario = ids[i]
      BY <1>5, <1>6, <1>7
    <3> QED BY <1>6, <1>7, <2>2, <3>1
  <2>4. SubSeq(s, 1, Len(s)) = s
    BY <2>3, SubSeqFull
  <2>5. SubSeq(ids, 1, Len(s)) = s
    <3>1. PICK t : t = SubSeq(ids, 1, m)
      OBVIOUS
    <3>2. \A i \in 1 .. m : ids[i] \in Nat
      BY <1>5, <1>6
    <3>3. m \in Int /\ 1 \in Int /\ m \in Nat
      BY <1>5, <1>6
    <3>4. /\ t \in Seq(Nat) /\ Len(t) = IF 1 <= m THEN m - 1 + 1 ELSE 0
          /\ \A i \in 1 .. m - 1 + 1 : t[i] = ids[1 + i - 1]
      BY <3>1, <3>2, <3>3, SubSeqProperties
    <3>5. Len(t) = m /\ \A i \in 1 .. m : t[i] = s[i]
      BY <2>3, <3>3, <3>4, SMTT(30)
    <3>6. t = s
      BY <2>3, <3>4, <3>5
    <3> QED BY <2>3, <3>1, <3>6
  <2>6. Len(s) <= Len(ids)
    BY <1>5, <1>6, <2>3
  <2>7. IsPrefix(s, ids)
    BY <2>4, <2>5, <2>6 DEF IsPrefix
  <2> QED BY <1>1, <1>3, <2>1, <2>7
<1>12. (\E i \in DOMAIN r.outcomes : r.outcomes[i].payload.long) = FALSE
  BY <1>7, Zenon
<1>13. (~IsPrefix(Succeeded(r), Listed(b))) = FALSE
  BY <1>10, Zenon
<1>14. PrefixError(r, b) = NoError
  BY <1>8, <1>9, <1>12, <1>13, FivePass, Zenon DEF PrefixError
<1> QED BY <1>1, <1>14

(* What the record leaves of the bundle is what its terminal left.         *)
LEMMA WhatIsLeft ==
  ASSUME bundle \in BundleTexts, ReadBundleError(bundle) = NoError,
         NEW limit \in Nat, NEW deadline \in BOOLEAN, NEW report,
         Ended(report, Len(bundle.scenarios), limit, deadline),
         NEW r, r = Capture(report, limit, deadline)
  PROVE  /\ Len(r.outcomes) = report.done
         /\ Unfinished(r, bundle) = SubSeq(Listed(bundle), report.done + 1, Len(bundle.scenarios))
         /\ r.pending = SubSeq(Listed(bundle), Begun(report) + 1, Len(bundle.scenarios))
         /\ NeverStarted(r, bundle) = r.pending
         /\ Begun(report) \in 0 .. Len(bundle.scenarios)
         /\ report.terminal.state # "failed" => Begun(report) = report.done
<1>1. PICK n : n = Len(bundle.scenarios)
  OBVIOUS
<1>2. PICK m : m = report.done
  OBVIOUS
<1>3. n \in Nat \ {0} /\ m \in 0 .. n /\ m \in Nat
  BY <1>1, <1>2, IdsAre DEF Ended
<1>4. /\ r.terminal = report.terminal
      /\ r.outcomes = [i \in 1 .. report.done |-> [scenario |-> bundle.scenarios[i].id,
                                                   payload |-> Payload]]
      /\ r.pending = SubSeq(Listed(bundle), Begun(report) + 1, Len(bundle.scenarios))
  BY CaptureRecords, CaptureLeaves
<1>5. Len(r.outcomes) = m
  BY <1>2, <1>3, <1>4
<1>6. Unfinished(r, bundle) = SubSeq(Listed(bundle), m + 1, n)
  BY <1>1, <1>5 DEF Unfinished
<1>7. CASE report.terminal.state # "failed"
  <2>1. Begun(report) = m
    BY <1>2, <1>3, <1>7 DEF Begun
  <2>2. NeverStarted(r, bundle) = Unfinished(r, bundle)
    BY <1>4, <1>7 DEF NeverStarted
  <2> QED BY <1>1, <1>2, <1>3, <1>4, <1>5, <1>6, <2>1, <2>2
<1>8. CASE BaselineFailed(report, limit)
  <2>1. report.terminal.state = "failed" /\ report.terminal.scenario = <<>>
    BY <1>8 DEF BaselineFailed
  <2>2. Begun(report) = m
    BY <1>2, <1>3, <2>1 DEF Begun
  <2>3. NeverStarted(r, bundle) = Unfinished(r, bundle)
    BY <1>4, <2>1 DEF NeverStarted
  <2> QED BY <1>1, <1>2, <1>3, <1>4, <1>5, <1>6, <2>1, <2>2, <2>3
<1>9. CASE CandidateFailed(report, n, limit)
  <2>1. /\ report.terminal.state = "failed" /\ m < n
        /\ report.terminal.scenario = <<bundle.scenarios[report.done + 1].id>>
    BY <1>2, <1>9 DEF CandidateFailed
  <2>2. report.terminal.scenario # <<>> /\ Len(report.terminal.scenario) = 1
    BY <2>1
  <2>3. Begun(report) = m + 1
    BY <1>2, <1>3, <2>1, <2>2 DEF Begun
  <2>4. NeverStarted(r, bundle) = SubSeq(Listed(bundle), m + 2, n)
    BY <1>1, <1>4, <1>5, <2>1, <2>2 DEF NeverStarted
  <2>5. Begun(report) + 1 = m + 2
    BY <1>3, <2>3
  <2>6. NeverStarted(r, bundle) = r.pending
    BY <1>1, <1>4, <2>4, <2>5, Zenon
  <2>7. Unfinished(r, bundle) = SubSeq(Listed(bundle), report.done + 1, Len(bundle.scenarios))
    BY <1>1, <1>2, <1>6, Zenon
  <2>8. r.pending = SubSeq(Listed(bundle), Begun(report) + 1, Len(bundle.scenarios))
    BY <1>4, Zenon
  <2>9. Begun(report) \in 0 .. Len(bundle.scenarios)
    BY <1>1, <1>3, <2>1, <2>3
  <2> QED BY <1>2, <1>5, <2>1, <2>6, <2>7, <2>8, <2>9, Zenon
<1>10. report.terminal.state # "failed" \/ BaselineFailed(report, limit)
         \/ CandidateFailed(report, n, limit)
  BY <1>1 DEF Ended, Interrupted, Completed
<1> QED BY <1>7, <1>8, <1>9, <1>10

(* The terminal state is one the successes admit.                          *)
LEMMA TerminalIsAccepted ==
  ASSUME bundle \in BundleTexts, ReadBundleError(bundle) = NoError,
         NEW limit \in Nat, NEW deadline \in BOOLEAN, NEW report,
         Ended(report, Len(bundle.scenarios), limit, deadline),
         NEW r, r = Capture(report, limit, deadline)
  PROVE  TerminalError(r, bundle) = NoError
<1>1. PICK b : b = bundle
  OBVIOUS
<1>2. PICK t : t = r.terminal
  OBVIOUS
<1>3. PICK left : left = Unfinished(r, b)
  OBVIOUS
<1>4. PICK n : n = Len(bundle.scenarios)
  OBVIOUS
<1>5. PICK ids : ids = Listed(bundle)
  OBVIOUS
<1>6. PICK m : m = report.done
  OBVIOUS
<1>7. /\ ids \in Seq(Nat) /\ Len(ids) = n /\ n \in Nat \ {0}
      /\ \A i \in 1 .. n : ids[i] = bundle.scenarios[i].id
  BY <1>4, <1>5, IdsAre
<1>8. /\ m \in 0 .. n /\ m <= limit /\ m \in Nat
      /\ report.baseline = <<>> => m = 0
  BY <1>4, <1>6, <1>7 DEF Ended
<1>9. /\ r.baseline = report.baseline /\ t = report.terminal
      /\ r.limit = limit /\ r.deadline = deadline
      /\ r.outcomes = [i \in 1 .. report.done |-> [scenario |-> bundle.scenarios[i].id,
                                                   payload |-> Payload]]
  BY <1>2, CaptureRecords
<1>10. PICK begun : begun = Begun(report)
  OBVIOUS
<1>11. /\ Len(r.outcomes) = m /\ left = SubSeq(ids, m + 1, n)
       /\ r.pending = SubSeq(ids, begun + 1, n) /\ begun \in 0 .. n
       /\ t.state # "failed" => begun = m
  <2>1. /\ Len(r.outcomes) = report.done
        /\ Unfinished(r, bundle) = SubSeq(Listed(bundle), report.done + 1, Len(bundle.scenarios))
        /\ r.pending = SubSeq(Listed(bundle), Begun(report) + 1, Len(bundle.scenarios))
        /\ Begun(report) \in 0 .. Len(bundle.scenarios)
        /\ report.terminal.state # "failed" => Begun(report) = report.done
    BY WhatIsLeft, SMTT(30)
  <2>2. t.state # "failed" => begun = m
    BY <1>6, <1>9, <1>10, <2>1
  <2> QED BY <1>1, <1>3, <1>4, <1>5, <1>6, <1>10, <2>1, <2>2, Zenon
<1>18. Len(r.outcomes) = m /\ r.limit = limit /\ m \in Nat
  BY <1>8, <1>9, <1>11, Zenon
<1>12. CASE Completed(report, n)
  <2>1. t.state = "completed" /\ r.baseline # <<>> /\ m = n
    BY <1>6, <1>9, <1>12 DEF Completed
  <2>2. left = <<>> /\ r.pending = <<>>
    BY <1>7, <1>8, <1>11, <2>1, Rest
  <2>3. (t.state = "completed" /\ (r.baseline = <<>> \/ r.pending # <<>> \/ left # <<>>)) = FALSE
    BY <2>1, <2>2
  <2>4. /\ (t.state = "failed" /\ t.error.long) = FALSE
        /\ (t.state = "failed" /\ t.scenario # <<>>
              /\ (r.baseline = <<>> \/ ~IsPrefix(t.scenario, left)
                    \/ Len(r.outcomes) >= r.limit)) = FALSE
        /\ (t.state = "failed" /\ t.scenario = <<>>
              /\ (r.baseline # <<>> \/ r.outcomes # <<>> \/ r.limit = 0)) = FALSE
        /\ (t.state = "interrupted" /\ t.reason = "DeadlineReached" /\ ~r.deadline) = FALSE
        /\ (t.state = "interrupted" /\ t.reason = "EvaluationLimitReached"
              /\ (r.pending = <<>> \/ Len(r.outcomes) # r.limit)) = FALSE
    <3>1. (t.state = "failed") = FALSE /\ (t.state = "interrupted") = FALSE
      BY <2>1
    <3> QED BY <3>1, Zenon
  <2>5. TerminalError(r, b) = NoError
    BY <1>2, <1>3, <2>3, <2>4, SixPass, Zenon DEF TerminalError
  <2> QED BY <1>1, <2>5
<1>13. CASE Interrupted(report, n, limit, deadline)
  <2>1. /\ t.state = "interrupted"
        /\ t.reason = "DeadlineReached" => r.deadline
        /\ t.reason = "EvaluationLimitReached" => m < n /\ Len(r.outcomes) = r.limit
    BY <1>6, <1>9, <1>11, <1>13 DEF Interrupted
  <2>2. begun = m
    BY <1>11, <2>1
  <2>3. m < n => r.pending # <<>>
    BY <1>7, <1>8, <1>11, <2>2, Rest
  <2>4. (t.state = "interrupted" /\ t.reason = "DeadlineReached" /\ ~r.deadline) = FALSE
    BY <2>1, Zenon
  <2>5. (t.state = "interrupted" /\ t.reason = "EvaluationLimitReached"
           /\ (r.pending = <<>> \/ Len(r.outcomes) # r.limit)) = FALSE
    BY <2>1, <2>3, Zenon
  <2>6. /\ (t.state = "completed" /\ (r.baseline = <<>> \/ r.pending # <<>> \/ left # <<>>)) = FALSE
        /\ (t.state = "failed" /\ t.error.long) = FALSE
        /\ (t.state = "failed" /\ t.scenario # <<>>
              /\ (r.baseline = <<>> \/ ~IsPrefix(t.scenario, left)
                    \/ Len(r.outcomes) >= r.limit)) = FALSE
        /\ (t.state = "failed" /\ t.scenario = <<>>
              /\ (r.baseline # <<>> \/ r.outcomes # <<>> \/ r.limit = 0)) = FALSE
    <3>1. (t.state = "failed") = FALSE /\ (t.state = "completed") = FALSE
      BY <2>1
    <3> QED BY <3>1, Zenon
  <2>7. TerminalError(r, b) = NoError
    BY <1>2, <1>3, <2>4, <2>5, <2>6, SixPass, Zenon DEF TerminalError
  <2> QED BY <1>1, <2>7
<1>14. ASSUME t.state = "failed",
              (t.state = "failed" /\ t.error.long) = FALSE,
              (t.state = "failed" /\ t.scenario # <<>>
                 /\ (r.baseline = <<>> \/ ~IsPrefix(t.scenario, left)
                       \/ Len(r.outcomes) >= r.limit)) = FALSE,
              (t.state = "failed" /\ t.scenario = <<>>
                 /\ (r.baseline # <<>> \/ r.outcomes # <<>> \/ r.limit = 0)) = FALSE
       PROVE  TerminalError(r, bundle) = NoError
  <2>1. /\ (t.state = "completed" /\ (r.baseline = <<>> \/ r.pending # <<>> \/ left # <<>>)) = FALSE
        /\ (t.state = "interrupted" /\ t.reason = "DeadlineReached" /\ ~r.deadline) = FALSE
        /\ (t.state = "interrupted" /\ t.reason = "EvaluationLimitReached"
              /\ (r.pending = <<>> \/ Len(r.outcomes) # r.limit)) = FALSE
    <3>1. (t.state = "completed") = FALSE /\ (t.state = "interrupted") = FALSE
      BY <1>14
    <3> QED BY <3>1, Zenon
  <2>2. TerminalError(r, b) = NoError
    BY <1>2, <1>3, <1>14, <2>1, SixPass, Zenon DEF TerminalError
  <2> QED BY <1>1, <2>2
<1>15. Payload.long = FALSE
  BY DEF Payload
<1>16. CASE BaselineFailed(report, limit)
  <2>1. /\ t.state = "failed" /\ t.scenario = <<>> /\ t.error = Payload
        /\ r.baseline = <<>> /\ limit # 0
    BY <1>9, <1>16 DEF BaselineFailed
  <2>2. r.outcomes = <<>>
    BY <1>6, <1>8, <1>9, <2>1
  <2>3. (t.state = "failed" /\ t.error.long) = FALSE
    BY <1>15, <2>1
  <2>4. (t.state = "failed" /\ t.scenario # <<>>
           /\ (r.baseline = <<>> \/ ~IsPrefix(t.scenario, left)
                 \/ Len(r.outcomes) >= r.limit)) = FALSE
    BY <2>1, Zenon
  <2>5. (t.state = "failed" /\ t.scenario = <<>>
           /\ (r.baseline # <<>> \/ r.outcomes # <<>> \/ r.limit = 0)) = FALSE
    BY <1>9, <2>1, <2>2
  <2> QED BY <1>14, <2>1, <2>3, <2>4, <2>5, Zenon
<1>17. CASE CandidateFailed(report, n, limit)
  <2>1. /\ t.state = "failed" /\ t.scenario = <<bundle.scenarios[m + 1].id>>
        /\ t.error = Payload /\ r.baseline # <<>> /\ m < limit /\ m < n
    BY <1>6, <1>9, <1>17 DEF CandidateFailed
  <2>2. t.scenario = <<ids[m + 1]>>
    BY <1>7, <1>8, <2>1
  <2>3. IsPrefix(<<ids[m + 1]>>, left)
    BY <1>7, <1>8, <1>11, <2>1, Rest
  <2>4. (t.state = "failed" /\ t.error.long) = FALSE
    BY <1>15, <2>1
  <2>5. (Len(r.outcomes) >= r.limit) = FALSE /\ (r.baseline = <<>>) = FALSE
    BY <1>18, <2>1
  <2>6. (t.state = "failed" /\ t.scenario # <<>>
           /\ (r.baseline = <<>> \/ ~IsPrefix(t.scenario, left)
                 \/ Len(r.outcomes) >= r.limit)) = FALSE
    BY <2>2, <2>3, <2>5, Zenon
  <2>7. t.scenario # <<>>
    BY <2>2
  <2>8. (t.state = "failed" /\ t.scenario = <<>>
           /\ (r.baseline # <<>> \/ r.outcomes # <<>> \/ r.limit = 0)) = FALSE
    BY <2>7, Zenon
  <2> QED BY <1>14, <2>1, <2>4, <2>6, <2>8, Zenon
<1> QED BY <1>4, <1>12, <1>13, <1>16, <1>17 DEF Ended

(* The reader accepts the record.                                          *)
LEMMA RecordIsAccepted ==
  ASSUME bundle \in BundleTexts, ReadBundleError(bundle) = NoError,
         NEW limit \in Nat, NEW deadline \in BOOLEAN, NEW report,
         Ended(report, Len(bundle.scenarios), limit, deadline),
         NEW r, r = Capture(report, limit, deadline), NEW offer, Fits(offer)
  PROVE  VerifyError(r, bundle) = NoError
<1>1. BindingError(r, bundle) = NoError
  BY RecordIsBound
<1>2. PrefixError(r, bundle) = NoError
  BY PrefixIsAccepted
<1>3. TerminalError(r, bundle) = NoError
  BY TerminalIsAccepted
<1>4. SuffixError(r, bundle) = NoError
  <2>1. r.pending = NeverStarted(r, bundle)
    BY WhatIsLeft
  <2>2. r.limit = limit /\ r.baseline = report.baseline
    <3>1. /\ r.baseline = report.baseline
          /\ r.outcomes = [i \in 1 .. report.done |-> [scenario |-> bundle.scenarios[i].id,
                                                       payload |-> Payload]]
          /\ r.terminal = report.terminal /\ r.limit = limit /\ r.deadline = deadline
      BY CaptureRecords
    <3> QED BY <3>1, Zenon
  <2>3. (r.limit = 0 /\ r.baseline # <<>>) = FALSE
    BY <2>2 DEF Ended
  <2>4. (r.pending # NeverStarted(r, bundle)) = FALSE
    BY <2>1
  <2> QED BY <2>3, <2>4, TwoPass, Zenon DEF SuffixError
<1>5. FirstOf(<<NoError, NoError>>) = NoError
  BY NoneOfTwo
<1>6. LifecycleError(r, bundle) = NoError
  BY <1>2, <1>3, <1>4, <1>5, Zenon DEF LifecycleError
<1>7. RecordError(r, bundle) = NoError
  BY <1>1, <1>6, Zenon DEF RecordError
<1> QED BY <1>7, Zenon DEF VerifyError

----------------------------------------------------------------------------
(* The bounded evaluation.                                                 *)

LEMMA CallsAre ==
  ASSUME NEW n \in Nat \ {0}, NEW limit \in Nat, NEW deadline, NEW report,
         Ended(report, n, limit, deadline)
  PROVE  \E last \in 0 .. n + 1 : CallsOf(report) = [i \in 1 .. last |-> i - 1]
<1>1. PICK last : last =
        IF report.baseline = <<>> THEN (IF report.terminal.state = "failed" THEN 0 ELSE -1)
        ELSE report.done + (IF report.terminal.state = "failed" THEN 1 ELSE 0)
  OBVIOUS
<1>2. CallsOf(report) = [i \in 1 .. last + 1 |-> i - 1]
  BY <1>1, Zenon DEF CallsOf
<1>3. last + 1 \in 0 .. n + 1
  <2>1. CASE report.baseline = <<>>
    BY <1>1, <2>1
  <2>2. CASE report.baseline # <<>> /\ report.terminal.state = "failed"
    <3>1. report.done \in 0 .. n /\ report.done < n
      BY <2>2 DEF Ended, Interrupted, BaselineFailed, CandidateFailed, Completed
    <3> QED BY <1>1, <2>2, <3>1
  <2>3. CASE report.baseline # <<>> /\ report.terminal.state # "failed"
    <3>1. report.done \in 0 .. n
      BY DEF Ended
    <3> QED BY <1>1, <2>3, <3>1
  <2> QED BY <2>1, <2>2, <2>3
<1> QED BY <1>2, <1>3

LEMMA EvaluateBinds ==
  ASSUME ExecutionInv, Evaluate
  PROVE  ExecutionIsBound'
<1>1. /\ RegistriesOk /\ bundle \in BundleTexts /\ bundle' = bundle
      /\ ReadBundleError(bundle) = NoError /\ ResolvedNow = NoError /\ outcome' = "evaluated"
  BY DEF ExecutionInv, HostInv, Idle, Evaluate
<1>2. PICK limit \in Limits, deadline \in BOOLEAN :
        \E report \in Reports(Len(bundle.scenarios), limit, deadline) :
          /\ called' = PositionsAt(CallsOf(report))
          /\ record' = <<Capture(report, limit, deadline)>>
  BY Zenon DEF Evaluate
<1>3. PICK report \in Reports(Len(bundle.scenarios), limit, deadline) :
        /\ called' = PositionsAt(CallsOf(report))
        /\ record' = <<Capture(report, limit, deadline)>>
  BY <1>2, Zenon
<1>4. PICK offer \in AdapterOffers : Fits(offer)
  BY <1>1, ResolvedFits
<1>5. PICK n : n = Len(bundle.scenarios)
  OBVIOUS
<1>6. n \in Nat \ {0} /\ OnceEach(bundle.scenarios)
  BY <1>1, <1>5, ReadableIsInOrder
<1>7. limit \in Nat
  BY HostAssumption
<1>8. Ended(report, n, limit, deadline)
  BY <1>3, <1>5, <1>6, <1>7, ReportsEnd
<1>9. PICK last \in 0 .. n + 1 : CallsOf(report) = [i \in 1 .. last |-> i - 1]
  BY <1>6, <1>7, <1>8, CallsAre
<1>10. called' = [i \in 1 .. last |-> [engine |-> offer.engine, position |-> i - 1]]
  BY <1>3, <1>4, <1>9 DEF PositionsAt, Fits
<1>11. /\ Len(called') = last
       /\ \A i \in DOMAIN called' : called'[i] = [engine |-> offer.engine, position |-> i - 1]
  BY <1>6, <1>10
<1>12. PICK r : r = Capture(report, limit, deadline)
  OBVIOUS
<1>13. record' = <<r>> /\ DOMAIN record' = {1} /\ record'[1] = r
  BY <1>3, <1>12
<1>14. /\ r.adapter = MetadataOf(offer.metadata)
       /\ \A text \in BundleTexts \ {bundle} : VerifyError(r, text) # NoError
  BY <1>4, <1>12, RecordIsOfOne
<1>15. VerifyError(r, bundle) = NoError
  BY <1>1, <1>4, <1>5, <1>7, <1>8, <1>12, RecordIsAccepted
<1>17. CallsAreBound(offer)'
  BY <1>1, <1>4, <1>11, <1>13, <1>14 DEF CallsAreBound, Fits, Supports, Keeps, UpstreamFits
<1>18. Len(called') <= Len(bundle'.scenarios) + 1
  BY <1>1, <1>5, <1>6, <1>11
<1>19. called' # <<>> =>
         /\ \E o \in AdapterOffers :
              /\ \A i \in DOMAIN called' : called'[i] = [engine |-> o.engine, position |-> i - 1]
              /\ o.metadata.id = bundle'.adapter.id
              /\ Keeps(o.metadata.version, bundle'.adapter.version)
              /\ bundle'.adapter.upstream # <<>> => o.metadata.upstream = bundle'.adapter.upstream
              /\ record' # <<>> => record'[1].adapter = MetadataOf(o.metadata)
         /\ Len(called') <= Len(bundle'.scenarios) + 1 /\ OnceEach(bundle'.scenarios)
  BY <1>1, <1>6, <1>17, <1>18 DEF CallsAreBound
<1>20. outcome' # "refused" /\ outcome' # "executed"
  BY <1>1
<1>21. \A i \in DOMAIN record' :
         /\ VerifyError(record'[i], bundle') = NoError
         /\ \A text \in BundleTexts \ {bundle'} : VerifyError(record'[i], text) # NoError
  BY <1>1, <1>13, <1>14, <1>15
<1> QED BY <1>19, <1>20, <1>21, Zenon DEF ExecutionIsBound

----------------------------------------------------------------------------
(* Every step.                                                             *)

LEMMA ExecutionStarts == Init => ExecutionInv
<1> SUFFICES ASSUME Init PROVE ExecutionInv
  OBVIOUS
<1>1. HostInit
  BY DEF Init
<1>2. HostInv /\ Idle
  BY <1>1, HostStarts DEF HostInit, Idle
<1>3. ExecutionIsBound
  BY <1>2, NothingIsBound DEF Idle
<1> QED BY <1>2, <1>3 DEF ExecutionInv

(* A host that goes on without executing.                                  *)
LEMMA StillIdle ==
  ASSUME ExecutionInv, pc = "host", UNCHANGED <<pc, bundle, called, outcome, record>>
  PROVE  (pc' = "host" => Idle') /\ ExecutionIsBound'
<1>1. Idle'
  BY DEF ExecutionInv, Idle
<1>2. called' = <<>> /\ outcome' = "none" /\ record' = <<>>
  BY <1>1 DEF Idle
<1>3. ExecutionIsBound'
  BY <1>2 DEF ExecutionIsBound
<1> QED BY <1>1, <1>3

(* What was bound stays so while nothing happens.                          *)
CallsKeptBound ==
  called # <<>> =>
    /\ \E offer \in AdapterOffers : CallsAreBound(offer)
    /\ Len(called) <= Len(bundle.scenarios) + 1 /\ OnceEach(bundle.scenarios)
AnswersBound ==
  outcome = "executed" =>
    Len(called) = Len(bundle.scenarios) + 1 /\ ScoresAreBound /\ SelectionIsBound
RecordsBound ==
  \A i \in DOMAIN record :
    /\ VerifyError(record[i], bundle) = NoError
    /\ \A text \in BundleTexts \ {bundle} : VerifyError(record[i], text) # NoError

LEMMA ExecutionStep == ExecutionInv /\ [Next]_<<host, publication>> => ExecutionInv'
<1> SUFFICES ASSUME ExecutionInv, [Next]_<<host, publication>> PROVE ExecutionInv'
  OBVIOUS
<1>1. HostInv'
  BY HostStep DEF ExecutionInv
<1>2. CASE UNCHANGED host
  <2>1. ExecutionIsBound'
    <3>1. /\ called' = called /\ bundle' = bundle /\ record' = record /\ outcome' = outcome
          /\ scores' = scores /\ selection' = selection /\ batch' = batch
      BY <1>2 DEF host
    <3>2. CallsKeptBound /\ (outcome = "refused" => called = <<>>) /\ AnswersBound /\ RecordsBound
      BY Zenon DEF ExecutionInv, ExecutionIsBound, CallsKeptBound, CallsAreBound, AnswersBound,
                   ScoresAreBound, SelectionIsBound, RecordsBound
    <3>3. CallsKeptBound'
      BY <3>1, <3>2 DEF CallsKeptBound, CallsAreBound
    <3>4. AnswersBound'
      <4>1. ScoresAreBound => ScoresAreBound'
        BY <3>1 DEF ScoresAreBound
      <4>2. SelectionIsBound => SelectionIsBound'
        BY <3>1 DEF SelectionIsBound
      <4> QED BY <3>1, <3>2, <4>1, <4>2 DEF AnswersBound
    <3>5. RecordsBound'
      BY <3>1, <3>2 DEF RecordsBound
    <3>6. outcome' = "refused" => called' = <<>>
      BY <3>1, <3>2
    <3> QED BY <3>3, <3>4, <3>5, <3>6, Zenon
            DEF ExecutionIsBound, CallsKeptBound, CallsAreBound, AnswersBound, ScoresAreBound,
                SelectionIsBound, RecordsBound
  <2>2. pc' = "host" => Idle'
    BY <1>2 DEF ExecutionInv, Idle, host
  <2> QED BY <1>1, <2>1, <2>2 DEF ExecutionInv
<1>3. CASE RegisterAdapter
  <2>1. (pc' = "host" => Idle') /\ ExecutionIsBound'
    BY <1>3, StillIdle DEF RegisterAdapter
  <2> QED BY <1>1, <2>1 DEF ExecutionInv
<1>4. CASE RegisterMetric
  <2>1. (pc' = "host" => Idle') /\ ExecutionIsBound'
    BY <1>4, StillIdle DEF RegisterMetric
  <2> QED BY <1>1, <2>1 DEF ExecutionInv
<1>5. CASE RegisterPolicy
  <2>1. (pc' = "host" => Idle') /\ ExecutionIsBound'
    BY <1>5, StillIdle DEF RegisterPolicy
  <2> QED BY <1>1, <2>1 DEF ExecutionInv
<1>6. CASE Export
  <2>1. (pc' = "host" => Idle') /\ ExecutionIsBound'
    BY <1>6, StillIdle DEF Export
  <2> QED BY <1>1, <2>1 DEF ExecutionInv
<1>7. CASE Alter
  <2>1. (pc' = "host" => Idle') /\ ExecutionIsBound'
    BY <1>7, StillIdle DEF Alter
  <2> QED BY <1>1, <2>1 DEF ExecutionInv
<1>8. CASE Refuse
  <2>1. pc' # "host"
    BY <1>8 DEF Refuse
  <2> QED BY <1>1, <1>8, <2>1, RefuseBinds DEF ExecutionInv
<1>9. CASE Execute
  <2>1. pc' # "host"
    BY <1>9 DEF Execute
  <2> QED BY <1>1, <1>9, <2>1, ExecuteBinds DEF ExecutionInv
<1>10. CASE Evaluate
  <2>1. pc' # "host"
    BY <1>10 DEF Evaluate
  <2> QED BY <1>1, <1>10, <2>1, EvaluateBinds DEF ExecutionInv
<1>11. CASE HandOver
  <2>1. pc' # "host" /\ called' = <<>> /\ outcome' = "none" /\ record' = <<>>
    BY <1>11 DEF HandOver
  <2>2. ExecutionIsBound'
    BY <2>1 DEF ExecutionIsBound
  <2> QED BY <1>1, <2>1, <2>2 DEF ExecutionInv
<1>12. UNCHANGED host \/ RegisterAdapter \/ RegisterMetric \/ RegisterPolicy \/ Export \/ Alter
         \/ Refuse \/ Execute \/ Evaluate \/ HandOver
  BY DEF Next, HostNext
<1> QED BY <1>2, <1>3, <1>4, <1>5, <1>6, <1>7, <1>8, <1>9, <1>10, <1>11, <1>12

(* Whatever is offered, registered and asked for, and however an engine    *)
(* answers or a bounded evaluation ends: the engine called is the one      *)
(* whose metadata the bundle accepts, the scenarios are called in the      *)
(* order of their ids, the scores and the selection are of what the bundle *)
(* names, and the record is accepted with this bundle and with no other    *)
(* (execute_registered_bundle, evaluate_registered_bundle_bound,           *)
(* capture_record, verify_against_bundle).                                 *)
THEOREM ExecutionIsAlwaysBound == Spec => []ExecutionIsBound
<1>1. ExecutionInv => ExecutionIsBound
  BY DEF ExecutionInv
<1> QED BY ExecutionStarts, ExecutionStep, <1>1, PTL DEF Spec

----------------------------------------------------------------------------
(* The inductive invariant.                                                *)

Names == Pids \X Nat
Authors == Publishers \cup {Stranger}
File == [by : Authors, content : {"torn", "whole", "other"}]
Results == {"none", "ok", "exists", "error", "collisions"}
Holding == {"write", "sync", "link", "drop"}

PublicationType ==
  /\ pid \in [Publishers -> Pids \cup {0}]
  /\ \A p \in Publishers : at[p] # "idle" => pid[p] \in Pids
  /\ counter \in [Pids -> Nat]
  /\ files \in Seq(File)
  /\ DOMAIN directory \subseteq Names \cup {Destination}
  /\ \A name \in DOMAIN directory : directory[name] \in DOMAIN files
  /\ at \in [Publishers -> Steps]
  /\ temp \in [Publishers -> Names \cup {<<>>}]
  /\ handle \in [Publishers -> Nat]
  /\ attempts \in [Publishers -> Nat]
  /\ result \in [Publishers -> Results]
  /\ crashes \in Nat

(* A publisher that stands between open and drop holds its own file, by a  *)
(* name of its own.                                                        *)
Held ==
  \A p \in Publishers :
    IF at[p] \in Holding
    THEN /\ temp[p] \in Names /\ temp[p] \in DOMAIN directory
         /\ handle[p] \in DOMAIN files /\ directory[temp[p]] = handle[p]
         /\ files[handle[p]].by = p
    ELSE temp[p] = <<>>

Written == \A p \in Publishers : at[p] \in {"sync", "link"} => files[handle[p]].content = "whole"

IsThere == Destination \in DOMAIN directory
Arrival == files[directory[Destination]]

(* The file the stranger creates is the stranger's.                        *)
Arrived ==
  /\ 1 \in DOMAIN files /\ files[1].by = Stranger
  /\ IsThere => Arrival.by = Stranger \/ Arrival.content = "whole"

Reported ==
  \A p \in Publishers :
    /\ at[p] \in {"idle", "open", "write", "sync", "link"} => result[p] = "none"
    /\ result[p] = "ok" => IsThere /\ Arrival.by = p
    /\ result[p] = "exists" => IsThere

FirstTime ==
  crashes = 0 =>
    \A p \in Publishers : at[p] # "dead" /\ (IsThere /\ Arrival.by = p => result[p] = "ok")

Traced ==
  \A name \in DOMAIN directory \ ({Destination} \cup abandoned) :
    \E p \in Publishers : at[p] \in Holding /\ temp[p] = name

PublicationInv ==
  PublicationType /\ Held /\ Written /\ Arrived /\ Reported /\ FirstTime /\ Traced

----------------------------------------------------------------------------
(* Nothing is called by no name.                                           *)
LEMMA NoNameIsEmpty == <<>> \notin Names
<1>1. \A q \in Pids, k \in Nat : Len(<<q, k>>) = 2
  OBVIOUS
<1>2. Len(<<>>) = 0
  OBVIOUS
<1> QED BY <1>1, <1>2 DEF Names

----------------------------------------------------------------------------
(* The initial state.                                                      *)
LEMMA PublicationStarts == PublicationInit => PublicationInv
<1> SUFFICES ASSUME PublicationInit PROVE PublicationInv
  OBVIOUS
<1> USE DEF PublicationInit
<1>1. files \in Seq(File) /\ Len(files) = 1 /\ files[1].by = Stranger
  BY DEF File, Authors
<1>2. DOMAIN directory = {}
  OBVIOUS
<1>3. PublicationType
  BY <1>1, <1>2 DEF PublicationType, Steps, Results
<1>4. Held /\ Written /\ Reported /\ FirstTime /\ Traced
  BY <1>2 DEF Held, Written, Reported, FirstTime, Traced, Holding, IsThere
<1>5. Arrived
  BY <1>1, <1>2 DEF Arrived, IsThere
<1> QED BY <1>3, <1>4, <1>5 DEF PublicationInv

----------------------------------------------------------------------------
(* Steps that leave directory and files alone.                             *)

(* pid is the only thing that changes, and where p stands.                 *)
LEMMA BeginKeeps ==
  ASSUME PublicationInv, NEW p \in Publishers, Begin(p)
  PROVE  PublicationInv'
<1> USE DEF PublicationInv, PublicationType, Begin, Go
<1>1. PublicationType'
  BY DEF Steps, Results, Names
<1>2. Held'
  BY DEF Held, Holding
<1>3. Written'
  BY DEF Written
<1>4. Arrived'
  BY DEF Arrived, IsThere, Arrival
<1>5. Reported'
  BY DEF Reported, IsThere, Arrival
<1>6. FirstTime'
  BY DEF FirstTime, Reported, IsThere, Arrival
<1>7. Traced'
  BY DEF Traced, Holding
<1> QED BY <1>1, <1>2, <1>3, <1>4, <1>5, <1>6, <1>7

(* p never held a file.                                                    *)
LEMMA OpenFailsKeeps ==
  ASSUME PublicationInv, NEW p \in Publishers, OpenFails(p)
  PROVE  PublicationInv'
<1> USE DEF PublicationInv, PublicationType, OpenFails, Go, End
<1>1. PublicationType'
  BY DEF Steps, Results, Names
<1>2. Held'
  BY DEF Held, Holding
<1>3. Written'
  BY DEF Written
<1>4. Arrived'
  BY DEF Arrived, IsThere, Arrival
<1>5. Reported'
  BY DEF Reported, IsThere, Arrival
<1>6. FirstTime'
  BY DEF FirstTime, Reported, IsThere, Arrival
<1>7. Traced'
  BY DEF Traced, Holding
<1> QED BY <1>1, <1>2, <1>3, <1>4, <1>5, <1>6, <1>7

(* p still holds its file, and removes it next.                            *)
LEMMA WriteErrorKeeps ==
  ASSUME PublicationInv, NEW p \in Publishers, WriteError(p)
  PROVE  PublicationInv'
<1> USE DEF PublicationInv, PublicationType, WriteError, Go, End
<1>1. PublicationType'
  BY DEF Steps, Results, Names
<1>2. Held'
  BY DEF Held, Holding
<1>3. Written'
  BY DEF Written
<1>4. Arrived'
  BY DEF Arrived, IsThere, Arrival
<1>5. Reported'
  BY DEF Reported, IsThere, Arrival
<1>6. FirstTime'
  BY DEF FirstTime, Reported, IsThere, Arrival
<1>7. Traced'
  BY DEF Traced, Holding
<1> QED BY <1>1, <1>2, <1>3, <1>4, <1>5, <1>6, <1>7

(* What p wrote is whole by now.                                           *)
LEMMA SyncAllKeeps ==
  ASSUME PublicationInv, NEW p \in Publishers, SyncAll(p)
  PROVE  PublicationInv'
<1> USE DEF PublicationInv, PublicationType, SyncAll, Go
<1>1. PublicationType'
  BY DEF Steps, Results, Names
<1>2. Held'
  BY DEF Held, Holding
<1>3. Written'
  BY DEF Written
<1>4. Arrived'
  BY DEF Arrived, IsThere, Arrival
<1>5. Reported'
  BY DEF Reported, IsThere, Arrival
<1>6. FirstTime'
  BY DEF FirstTime, Reported, IsThere, Arrival
<1>7. Traced'
  BY DEF Traced, Holding
<1> QED BY <1>1, <1>2, <1>3, <1>4, <1>5, <1>6, <1>7

(* p still holds its file, and removes it next.                            *)
LEMMA LinkFailsKeeps ==
  ASSUME PublicationInv, NEW p \in Publishers, LinkFails(p)
  PROVE  PublicationInv'
<1> USE DEF PublicationInv, PublicationType, LinkFails, Go, End
<1>1. PublicationType'
  BY DEF Steps, Results, Names
<1>2. Held'
  BY DEF Held, Holding
<1>3. Written'
  BY DEF Written
<1>4. Arrived'
  BY DEF Arrived, IsThere, Arrival
<1>5. Reported'
  BY DEF Reported, IsThere, Arrival
<1>6. FirstTime'
  BY DEF FirstTime, Reported, IsThere, Arrival
<1>7. Traced'
  BY DEF Traced, Holding
<1> QED BY <1>1, <1>2, <1>3, <1>4, <1>5, <1>6, <1>7

(* Whoever publishes again had died.                                       *)
LEMMA AgainKeeps ==
  ASSUME PublicationInv, NEW p \in Publishers, Again(p)
  PROVE  PublicationInv'
<1> USE DEF PublicationInv, PublicationType, Again, Go
<1>1. PublicationType'
  BY DEF Steps, Results, Names
<1>2. Held'
  BY DEF Held, Holding
<1>3. Written'
  BY DEF Written
<1>4. Arrived'
  BY DEF Arrived, IsThere, Arrival
<1>5. Reported'
  BY DEF Reported, IsThere, Arrival
<1>6. FirstTime'
  BY DEF FirstTime, Reported, IsThere, Arrival
<1>7. Traced'
  BY DEF Traced, Holding
<1> QED BY <1>1, <1>2, <1>3, <1>4, <1>5, <1>6, <1>7

----------------------------------------------------------------------------
(* Steps that write files or change the directory.                         *)

(* The author of the file that is written is its writer.                   *)
LEMMA WriteAllKeeps ==
  ASSUME PublicationInv, NEW p \in Publishers, WriteAll(p)
  PROVE  PublicationInv'
<1> USE DEF PublicationInv, PublicationType, WriteAll, Go
<1>1. handle[p] \in DOMAIN files /\ files[handle[p]].by = p
  BY DEF Held, Holding
<1>2. files' \in Seq(File) /\ DOMAIN files' = DOMAIN files
  BY <1>1 DEF File, Authors
<1>3. \A f \in DOMAIN files :
        /\ files'[f].by = files[f].by
        /\ files[f].content = "whole" => files'[f].content = "whole"
  BY <1>1 DEF File
<1>4. files'[handle[p]].content = "whole"
  BY <1>1
<1>5. PublicationType'
  BY <1>2 DEF Steps, Results, Names
<1>6. Held'
  BY <1>2, <1>3 DEF Held, Holding
<1>7. Written'
  BY <1>3, <1>4 DEF Written, Held, Holding
<1>8. Arrived'
  BY <1>2, <1>3 DEF Arrived, IsThere, Arrival
<1>9. Reported'
  BY <1>3 DEF Reported, IsThere, Arrival
<1>10. FirstTime'
  BY <1>3 DEF FirstTime, Reported, IsThere, Arrival
<1>11. Traced'
  BY DEF Traced, Holding
<1> QED BY <1>5, <1>6, <1>7, <1>8, <1>9, <1>10, <1>11

(* A file of its own, or a name that was taken.                            *)
LEMMA OpenKeeps ==
  ASSUME PublicationInv, NEW p \in Publishers, Open(p)
  PROVE  PublicationInv'
<1> USE DEF PublicationInv, PublicationType, Go, End
<1> DEFINE name == <<pid[p], counter[pid[p]]>>
<1>1. at[p] = "open" /\ name \in Names /\ name # Destination /\ temp[p] = <<>>
  <2>1. at[p] = "open"
    BY DEF Open
  <2>2. name \in Names
    BY <2>1 DEF Names
  <2>3. name # Destination
    BY <2>2, PublicationAssumption DEF Names
  <2>4. temp[p] = <<>>
    BY <2>1 DEF Held, Holding
  <2> QED BY <2>1, <2>2, <2>3, <2>4
<1>2. counter' \in [Pids -> Nat] /\ UNCHANGED <<pid, abandoned, crashes>>
  BY <1>1 DEF Open
<1>3. CASE name \in DOMAIN directory
  <2>1. UNCHANGED <<directory, files, temp, handle>>
    BY <1>3 DEF Open
  <2>2. \/ UNCHANGED <<at, result>>
        \/ at' = [at EXCEPT ![p] = "done"] /\ result' = [result EXCEPT ![p] = "collisions"]
    BY <1>3 DEF Open
  <2>3. attempts' \in [Publishers -> Nat]
    <3>1. attempts' = [attempts EXCEPT ![p] = @ + 1]
      BY <1>3 DEF Open
    <3> QED BY <3>1
  <2>4. PublicationType'
    BY <1>1, <1>2, <2>1, <2>2, <2>3 DEF Steps, Results, Names
  <2>5. Held'
    BY <1>1, <2>1, <2>2 DEF Held, Holding
  <2>6. Written'
    BY <2>1, <2>2 DEF Written
  <2>7. Arrived'
    BY <2>1 DEF Arrived, IsThere, Arrival
  <2>8. Reported'
    BY <2>1, <2>2 DEF Reported, IsThere, Arrival
  <2>9. FirstTime'
    BY <1>1, <1>2, <2>1, <2>2 DEF Reported, FirstTime, IsThere, Arrival
  <2>10. Traced'
    BY <1>1, <1>2, <2>1, <2>2 DEF Traced, Holding
  <2> QED BY <2>4, <2>5, <2>6, <2>7, <2>8, <2>9, <2>10
<1>4. CASE name \notin DOMAIN directory
  <2> DEFINE new == Len(files) + 1
  <2>1. /\ files' = Append(files, [by |-> p, content |-> "torn"])
        /\ directory' = Named(name, new)
        /\ temp' = [temp EXCEPT ![p] = name] /\ handle' = [handle EXCEPT ![p] = new]
        /\ at' = [at EXCEPT ![p] = "write"]
        /\ UNCHANGED <<attempts, result>>
    BY <1>4 DEF Open
  <2>2. files' \in Seq(File) /\ new \in DOMAIN files' /\ files'[new].by = p
    BY <2>1 DEF File, Authors
  <2>3. \A f \in DOMAIN files : f \in DOMAIN files' /\ files'[f] = files[f]
    BY <2>1
  <2>4. DOMAIN directory' = DOMAIN directory \cup {name} /\ directory'[name] = new
    BY <2>1 DEF Named
  <2>5. \A n \in DOMAIN directory : directory'[n] = directory[n]
    BY <1>4, <2>1 DEF Named
  <2>6. IsThere' = IsThere /\ (IsThere => Arrival' = Arrival)
    BY <1>1, <2>3, <2>4, <2>5 DEF IsThere, Arrival
  <2>7. PublicationType'
    <3>1. temp' \in [Publishers -> Names \cup {<<>>}]
      BY <1>1, <2>1
    <3>2. handle' \in [Publishers -> Nat] /\ at' \in [Publishers -> Steps]
      BY <2>1 DEF Steps
    <3>3. /\ DOMAIN directory' \subseteq Names \cup {Destination}
          /\ \A n \in DOMAIN directory' : directory'[n] \in DOMAIN files'
      BY <1>1, <2>2, <2>3, <2>4, <2>5
    <3>4. \A q \in Publishers : at'[q] # "idle" => pid'[q] \in Pids
      BY <1>1, <1>2, <2>1
    <3> QED BY <1>2, <2>1, <2>2, <3>1, <3>2, <3>3, <3>4
  <2>8. Held'
    BY <1>1, <2>1, <2>2, <2>3, <2>4, <2>5 DEF Held, Holding
  <2>9. Written'
    <3> SUFFICES ASSUME NEW q \in Publishers, at'[q] \in {"sync", "link"}
                 PROVE  files'[handle'[q]].content = "whole"
      BY DEF Written
    <3>1. q # p /\ at[q] = at'[q] /\ handle'[q] = handle[q]
      BY <2>1
    <3>2. handle[q] \in DOMAIN files /\ files[handle[q]].content = "whole"
      BY <3>1 DEF Held, Holding, Written
    <3> QED BY <3>1, <3>2, <2>3
  <2>10. Arrived'
    BY <2>3, <2>6 DEF Arrived
  <2>11. Reported'
    BY <1>1, <2>1, <2>6 DEF Reported
  <2>12. FirstTime'
    BY <1>2, <2>1, <2>6 DEF FirstTime
  <2>13. Traced'
    <3> SUFFICES ASSUME NEW n \in DOMAIN directory', n # Destination, n \notin abandoned
                 PROVE  \E q \in Publishers : at'[q] \in Holding /\ temp'[q] = n
      BY <1>2 DEF Traced
    <3>1. CASE n = name
      BY <3>1, <2>1 DEF Holding
    <3>2. CASE n # name
      <4>1. PICK q \in Publishers : at[q] \in Holding /\ temp[q] = n
        BY <2>4, <3>2 DEF Traced
      <4>2. q # p
        BY <1>1, <4>1 DEF Holding
      <4> QED BY <2>1, <4>1, <4>2 DEF Holding
    <3> QED BY <3>1, <3>2
  <2> QED BY <2>7, <2>8, <2>9, <2>10, <2>11, <2>12, <2>13
<1> QED BY <1>3, <1>4

(* The file that is linked is whole, and its author p.                     *)
LEMMA LinkKeeps ==
  ASSUME PublicationInv, NEW p \in Publishers, Link(p)
  PROVE  PublicationInv'
<1> USE DEF PublicationInv, PublicationType, Link, Go, End
<1>1. /\ temp[p] \in Names /\ temp[p] \in DOMAIN directory /\ temp[p] # Destination
      /\ handle[p] \in DOMAIN files /\ directory[temp[p]] = handle[p]
      /\ files[handle[p]].by = p /\ files[handle[p]].content = "whole"
  BY PublicationAssumption DEF Held, Holding, Written, Names
<1>2. \A n \in DOMAIN directory : n \in DOMAIN directory' /\ directory'[n] = directory[n]
  BY DEF Named
<1>3. /\ IsThere' /\ DOMAIN directory' = DOMAIN directory \cup {Destination}
      /\ IsThere => Arrival' = Arrival /\ result' = [result EXCEPT ![p] = "exists"]
      /\ ~IsThere => Arrival' = files[handle[p]] /\ result' = [result EXCEPT ![p] = "ok"]
      /\ directory'[Destination] \in DOMAIN files
  <2>1. CASE IsThere
    <3>1. UNCHANGED <<directory, files>> /\ result' = [result EXCEPT ![p] = "exists"]
      BY <2>1 DEF IsThere
    <3> QED BY <2>1, <3>1 DEF IsThere, Arrival
  <2>2. CASE ~IsThere
    <3>1. /\ directory' = Named(Destination, handle[p]) /\ files' = files
          /\ result' = [result EXCEPT ![p] = "ok"]
      BY <1>1, <2>2 DEF IsThere
    <3>2. /\ DOMAIN directory' = DOMAIN directory \cup {Destination}
          /\ directory'[Destination] = handle[p]
      BY <3>1 DEF Named
    <3> QED BY <1>1, <2>2, <3>1, <3>2 DEF IsThere, Arrival
  <2> QED BY <2>1, <2>2
<1>4. at' = [at EXCEPT ![p] = "drop"]
  OBVIOUS
<1>5. PublicationType'
  BY <1>1, <1>2, <1>3, ZenonT(60) DEF Steps, Results, Names
<1>6. Held'
  BY <1>1, <1>2, <1>4 DEF Held, Holding
<1>7. Written'
  BY DEF Written
<1>8. Arrived'
  BY <1>1, <1>3 DEF Arrived, IsThere, Arrival
<1>9. Reported'
  BY <1>1, <1>3, <1>4 DEF Reported, IsThere, Arrival
<1>10. FirstTime'
  BY <1>1, <1>3, <1>4 DEF FirstTime, Reported, IsThere, Arrival
<1>11. Traced'
  BY <1>3, <1>4 DEF Traced, Holding
<1> QED BY <1>5, <1>6, <1>7, <1>8, <1>9, <1>10, <1>11

(* The temporary name goes, or is abandoned; the file stays where it is linked. *)
LEMMA DropKeeps ==
  ASSUME PublicationInv, NEW p \in Publishers, Drop(p)
  PROVE  PublicationInv'
<1> USE DEF PublicationInv, PublicationType, Drop, Go
<1>1. temp[p] \in Names /\ temp[p] # Destination
  BY PublicationAssumption DEF Held, Holding, Names
<1>2. /\ DOMAIN directory' \subseteq DOMAIN directory
      /\ \A n \in DOMAIN directory : n # temp[p] => n \in DOMAIN directory'
      /\ \A n \in DOMAIN directory' : directory'[n] = directory[n]
  OBVIOUS
<1>3. IsThere' = IsThere /\ (IsThere => Arrival' = Arrival)
  BY <1>1, <1>2 DEF IsThere, Arrival
<1>4. \A q \in Publishers : q # p /\ at[q] \in Holding => temp[q] # temp[p]
  BY DEF Held, Holding
<1>5. \A n \in DOMAIN directory' : n \notin abandoned' => n # temp[p] /\ n \notin abandoned
  OBVIOUS
<1>6. PublicationType'
  BY <1>2 DEF Steps, Results, Names
<1>7. Held'
  BY <1>2, <1>4 DEF Held, Holding
<1>8. Written'
  BY DEF Written
<1>9. Arrived'
  BY <1>3 DEF Arrived, IsThere, Arrival
<1>10. Reported'
  BY <1>3 DEF Reported, IsThere, Arrival
<1>11. FirstTime'
  BY <1>3 DEF FirstTime, Reported, IsThere, Arrival
<1>12. Traced'
  BY <1>2, <1>5 DEF Traced, Holding
<1> QED BY <1>6, <1>7, <1>8, <1>9, <1>10, <1>11, <1>12

(* Somebody else's file at the destination.                                *)
LEMMA OccupyKeeps ==
  ASSUME PublicationInv, Occupy
  PROVE  PublicationInv'
<1> USE DEF PublicationInv, PublicationType, Occupy
<1>1. /\ IsThere' /\ ~IsThere /\ Arrival' = files[1]
      /\ DOMAIN directory' = DOMAIN directory \cup {Destination}
      /\ \A n \in DOMAIN directory : directory'[n] = directory[n]
      /\ directory'[Destination] = 1
  BY DEF Named, IsThere, Arrival
<1>2. 1 \in DOMAIN files /\ files[1].by = Stranger
  BY DEF Arrived
<1>3. PublicationType'
  BY <1>1, <1>2 DEF Steps, Results, Names
<1>4. Held'
  BY <1>1 DEF Held, Holding
<1>5. Written'
  BY DEF Written
<1>6. Arrived'
  BY <1>1, <1>2 DEF Arrived, IsThere, Arrival
<1>7. Reported'
  BY <1>1, <1>2 DEF Reported, IsThere, Arrival
<1>8. FirstTime'
  BY <1>1, <1>2, PublicationAssumption DEF FirstTime, Reported, IsThere, Arrival
<1>9. Traced'
  BY <1>1 DEF Traced, Holding
<1> QED BY <1>3, <1>4, <1>5, <1>6, <1>7, <1>8, <1>9

(* Whoever dies lets go of its file, and abandons its name.                *)
LEMMA CrashKeeps ==
  ASSUME PublicationInv, NEW q \in Pids, Crash(q)
  PROVE  PublicationInv'
<1> USE DEF PublicationInv, PublicationType, Crash
<1> DEFINE dying == { p \in Publishers : pid[p] = q /\ Running(p) }
<1>1. /\ at' = [p \in Publishers |-> IF p \in dying THEN "dead" ELSE at[p]]
      /\ temp' = [p \in Publishers |-> IF p \in dying THEN <<>> ELSE temp[p]]
      /\ \A p \in dying : temp[p] # <<>> => temp[p] \in abandoned'
      /\ abandoned \subseteq abandoned'
      /\ crashes' = crashes + 1
      /\ UNCHANGED <<pid, directory, files, handle, attempts, result>>
  OBVIOUS
<1>2. \A p \in dying : Running(p)
  OBVIOUS
<1> HIDE DEF Crash, dying
<1>5. PublicationType'
  <2>1. at' \in [Publishers -> Steps] /\ temp' \in [Publishers -> Names \cup {<<>>}]
    BY <1>1 DEF Steps
  <2>2. counter' \in [Pids -> Nat] /\ crashes' \in Nat
    BY DEF Crash
  <2>3. \A p \in Publishers : at'[p] # "idle" => pid'[p] \in Pids
    BY <1>1, <1>2 DEF Running
  <2> QED BY <1>1, <2>1, <2>2, <2>3
<1>6. Held'
  BY <1>1 DEF Held, Holding
<1>7. Written'
  BY <1>1 DEF Written
<1>8. Arrived'
  BY <1>1 DEF Arrived, IsThere, Arrival
<1>9. Reported'
  BY <1>1, <1>2 DEF Reported, IsThere, Arrival, Running
<1>10. FirstTime'
  BY <1>1 DEF FirstTime, Reported, IsThere, Arrival
<1>11. Traced'
  <2> SUFFICES ASSUME NEW n \in DOMAIN directory, n # Destination, n \notin abandoned'
               PROVE  \E p \in Publishers : at'[p] \in Holding /\ temp'[p] = n
    BY <1>1 DEF Traced
  <2>1. PICK p \in Publishers : at[p] \in Holding /\ temp[p] = n
    BY <1>1 DEF Traced
  <2>2. p \notin dying
    BY <1>1, <2>1, NoNameIsEmpty DEF Held
  <2> QED BY <1>1, <2>1, <2>2
<1> QED BY <1>5, <1>6, <1>7, <1>8, <1>9, <1>10, <1>11

----------------------------------------------------------------------------
(* The theorem.                                                            *)

(* A step of the specification is a publisher's, or leaves all of it alone. *)
LEMMA PublicationStep ==
  ASSUME PublicationInv, [Next]_<<host, publication>>
  PROVE  PublicationInv'
<1>1. CASE Publish
  BY <1>1, BeginKeeps, OpenKeeps, OpenFailsKeeps, WriteAllKeeps, WriteErrorKeeps, SyncAllKeeps,
     LinkKeeps, LinkFailsKeeps, DropKeeps, AgainKeeps, OccupyKeeps, CrashKeeps DEF Publish
<1>2. CASE UNCHANGED publication
  BY <1>2 DEF publication, PublicationInv, PublicationType, Held, Written, Arrived, Reported,
       FirstTime, Traced, IsThere, Arrival, Running
<1> QED BY <1>1, <1>2 DEF Next

(* The inductive invariant holds of every behaviour of publishers.         *)
LEMMA PublicationInvariant == Spec => []PublicationInv
<1>1. Init => PublicationInv
  BY PublicationStarts DEF Init
<1>2. PublicationInv /\ [Next]_<<host, publication>> => PublicationInv'
  BY PublicationStep
<1> QED BY <1>1, <1>2, PTL DEF Spec

(* The invariant says what PublishedIsWhole does: what arrived is whole, as *)
(* whoever was told is told; and a publisher whose result is neither "ok"  *)
(* nor "none" has ended, so that without crashes it never published.       *)
LEMMA WholeByInvariant == PublicationInv => PublishedIsWhole
<1> SUFFICES ASSUME PublicationInv PROVE PublishedIsWhole
  OBVIOUS
<1> USE DEF PublicationInv
<1>1. IsThere => Published # <<>> /\ Published[1] = Arrival
  BY DEF Published, IsThere, Arrival
<1>2. ~IsThere => Published = <<>>
  BY DEF Published, IsThere
<1>3. Published # <<>> /\ Published[1].by # Stranger => Published[1].content = "whole"
  BY <1>1, <1>2 DEF Arrived
<1>4. \A p \in Publishers :
        /\ result[p] = "ok" => Published # <<>> /\ Published[1].by = p
        /\ result[p] = "exists" => Published # <<>>
        /\ result[p] \notin {"none", "ok"} /\ crashes = 0 =>
             Published = <<>> \/ Published[1].by # p
  BY <1>1, <1>2 DEF Reported, FirstTime
<1>5. \A name \in DOMAIN directory \ ({Destination} \cup abandoned) :
        \E p \in Publishers : Running(p) /\ temp[p] = name
  BY DEF Traced, Holding, Running
<1> QED BY <1>3, <1>4, <1>5 DEF PublishedIsWhole

(* Whoever publishes and however often processes die: what is at the       *)
(* destination is a whole record or somebody else's file, results tell the *)
(* truth about it, and no temporary name outlives its call untraced.       *)
THEOREM PublishedIsAlwaysWhole == Spec => []PublishedIsWhole
BY PublicationInvariant, WholeByInvariant, PTL
=============================================================================
