---------------------------- MODULE CampaignProofs ----------------------------
(***************************************************************************)
(* Three theorems about CampaignSuite, for every number of campaigns and   *)
(* of policies, all sizes of files, every budget, and whatever is written  *)
(* to the directory meanwhile.                                             *)
(*                                                                         *)
(* The budget bounds what is read.  Its invariant, Inv, says where the     *)
(* verifier stands (Standing), that files have sizes (Sizes), and how the  *)
(* budget, what the reads have taken and the verdict go together           *)
(* (Accounts): as long as no read has failed, what was spent and what      *)
(* remains are the budget it was given; a read that takes more than was    *)
(* allowed is a failed one, and a failed read ends the verification with   *)
(* an error.                                                               *)
(*                                                                         *)
(* An accepted suite is preregistered.  Progress says what was found of    *)
(* the present pack (Gathered) and of those that are finished (Archived,   *)
(* Counted); a pack against which nothing is found has the pinned          *)
(* specification's digest in its manifest, and a manifest pins the records *)
(* by theirs, so what was read, file by file, is one export (PinnedPack).  *)
(*                                                                         *)
(* An accepted suite has one baseline.  Readings says that the second      *)
(* reading of the records is the first one as long as no file was replaced *)
(* after it had been read (Witnessed, Reread), and that the campaigns that *)
(* were closed agree with the first of them (Shared).                      *)
(***************************************************************************)
EXTENDS CampaignSuite, WellFoundedInduction, TLAPS

----------------------------------------------------------------------------
(* Checks in a row.                                                        *)

(* Every non-empty set of naturals has a least element.                    *)
LEMMA LeastExists ==
  ASSUME NEW T, T \subseteq Nat, T # {}
  PROVE  \E x \in T : \A y \in T : x <= y
<1> DEFINE R == OpToRel(<, Nat)
<1>1. \E x \in T : \A y \in T : ~ (<<y, x>> \in R)
  <2> HIDE DEF R
  <2>1. IsWellFoundedOn(R, Nat)
    BY NatLessThanWellFounded DEF R
  <2> QED BY <2>1, WFMin
<1>2. \A x, y \in Nat : <<y, x>> \in R <=> y < x
  BY DEF OpToRel
<1>3. PICK x \in T : \A y \in T : ~ (y < x)
  BY <1>1, <1>2
<1>4. \A y \in T : x <= y
  BY <1>3
<1> QED BY <1>4

(* The least of two numbers.                                               *)
LEMMA LowestOfTwo ==
  ASSUME NEW m \in Nat, NEW n \in Nat
  PROVE  /\ LowestOf({m, n}) \in Nat
         /\ LowestOf({m, n}) <= m /\ LowestOf({m, n}) <= n
         /\ LowestOf({m, n}) = m \/ LowestOf({m, n}) = n
<1> DEFINE S == {m, n}
<1>1. \E x \in S : \A y \in S : x <= y
  <2>1. CASE m <= n
    BY <2>1
  <2>2. CASE n <= m
    BY <2>2
  <2> QED BY <2>1, <2>2
<1>2. LowestOf(S) \in S /\ \A y \in S : LowestOf(S) <= y
  BY <1>1 DEF LowestOf
<1> QED BY <1>2

(* No check has fired when there is no first error, if every check has an  *)
(* error to report.                                                        *)
LEMMA NoneFired ==
  ASSUME NEW checks, DOMAIN checks \subseteq Nat, FirstError(checks) = NoError,
         \A i \in DOMAIN checks : checks[i][2] # NoError
  PROVE  \A i \in DOMAIN checks : ~checks[i][1]
<1> DEFINE fired == { i \in DOMAIN checks : checks[i][1] }
<1> SUFFICES ASSUME fired # {} PROVE FALSE
  OBVIOUS
<1>1. \E x \in fired : \A y \in fired : x <= y
  BY LeastExists
<1>2. Min(fired) \in fired
  BY <1>1 DEF Min
<1>3. FirstError(checks) = checks[Min(fired)][2]
  BY DEF FirstError
<1> QED BY <1>2, <1>3

(* Of two parts the first that has an error reports it.                    *)
LEMMA FirstOfTwo ==
  ASSUME NEW e, NEW f
  PROVE  /\ e # NoError => FirstOf(<<e, f>>) = e
         /\ e = NoError /\ f # NoError => FirstOf(<<e, f>>) = f
<1>1. PICK q : q = <<e, f>>
  OBVIOUS
<1>2. DOMAIN q = {1, 2} /\ q[1] = e /\ q[2] = f
  BY <1>1
<1>3. PICK c : c = [i \in DOMAIN q |-> <<q[i] # NoError, q[i]>>]
  OBVIOUS
<1>4. DOMAIN c = {1, 2} /\ \A i \in {1, 2} : c[i] = <<q[i] # NoError, q[i]>>
  BY <1>2, <1>3, Zenon
<1>5. \A i \in {1, 2} : c[i][2] = q[i] /\ (c[i][1] <=> q[i] # NoError)
  <2> TAKE i \in {1, 2}
  <2>1. c[i] = <<q[i] # NoError, q[i]>>
    BY <1>4
  <2>2. c[i][2] = q[i]
    BY <2>1
  <2>3. c[i][1] = (q[i] # NoError)
    BY <2>1
  <2> QED BY <2>2, <2>3
<1> DEFINE fired == { i \in DOMAIN c : c[i][1] }
<1>6. FirstOf(q) = IF fired = {} THEN NoError ELSE c[Min(fired)][2]
  <2>1. FirstOf(q) = FirstError(c)
    BY <1>3, Zenon DEF FirstOf
  <2>2. FirstError(c) = IF fired = {} THEN NoError ELSE c[Min(fired)][2]
    BY Zenon DEF FirstError
  <2> QED BY <2>1, <2>2
<1>7. ASSUME e # NoError PROVE FirstOf(q) = e
  <2>1. 1 \in fired /\ \A i \in fired : i = 1 \/ i = 2
    BY <1>2, <1>4, <1>5, <1>7
  <2>2. Min(fired) \in fired /\ \A y \in fired : Min(fired) <= y
    <3>1. \E x \in fired : \A y \in fired : x <= y
      BY <2>1
    <3> QED BY <3>1 DEF Min
  <2>3. Min(fired) = 1
    BY <2>1, <2>2
  <2> QED BY <1>2, <1>5, <1>6, <2>1, <2>3
<1>8. ASSUME e = NoError, f # NoError PROVE FirstOf(q) = f
  <2>1. fired = {2}
    BY <1>2, <1>4, <1>5, <1>8
  <2>2. Min(fired) = 2
    <3>1. \E x \in {2} : \A y \in {2} : x <= y
      OBVIOUS
    <3>2. Min({2}) \in {2}
      BY <3>1 DEF Min
    <3> QED BY <2>1, <3>2
  <2> QED BY <1>2, <1>5, <1>6, <2>1, <2>2
<1> QED BY <1>1, <1>7, <1>8

(* The first error is one of those that were asked about.                  *)
LEMMA FirstErrorAmong ==
  ASSUME NEW checks, DOMAIN checks \subseteq Nat, NEW E, \A i \in DOMAIN checks : checks[i][2] \in E
  PROVE  FirstError(checks) \in E \cup {NoError}
<1> DEFINE fired == { i \in DOMAIN checks : checks[i][1] }
<1>1. FirstError(checks) = IF fired = {} THEN NoError ELSE checks[Min(fired)][2]
  BY Zenon DEF FirstError
<1>2. ASSUME fired # {} PROVE Min(fired) \in DOMAIN checks
  <2>1. \E x \in fired : \A y \in fired : x <= y
    BY <1>2, LeastExists
  <2> QED BY <2>1 DEF Min
<1> HIDE DEF fired
<1> QED BY <1>1, <1>2

LEMMA FirstOfAmong ==
  ASSUME NEW errors, DOMAIN errors \subseteq Nat, NEW E, \A i \in DOMAIN errors : errors[i] \in E
  PROVE  FirstOf(errors) \in E \cup {NoError}
<1>1. PICK c : c = [i \in DOMAIN errors |-> <<errors[i] # NoError, errors[i]>>]
  OBVIOUS
<1>2. DOMAIN c = DOMAIN errors /\ \A i \in DOMAIN c : c[i][2] = errors[i]
  BY <1>1
<1>3. FirstError(c) \in E \cup {NoError}
  BY <1>2, FirstErrorAmong
<1>4. FirstOf(errors) = FirstError(c)
  BY <1>1, Zenon DEF FirstOf
<1> QED BY <1>3, <1>4

(* No verdict in a row is an error when there is no first one.             *)
LEMMA NoneOf ==
  ASSUME NEW errors, DOMAIN errors \subseteq Nat, FirstOf(errors) = NoError
  PROVE  \A i \in DOMAIN errors : errors[i] = NoError
<1>1. PICK c : c = [i \in DOMAIN errors |-> <<errors[i] # NoError, errors[i]>>]
  OBVIOUS
<1>2. DOMAIN c = DOMAIN errors
  BY <1>1
<1>3. \A i \in DOMAIN c : c[i][2] = errors[i] /\ (c[i][1] <=> errors[i] # NoError)
  <2> TAKE i \in DOMAIN c
  <2>1. c[i] = <<errors[i] # NoError, errors[i]>>
    BY <1>1, <1>2
  <2>2. c[i][2] = errors[i]
    BY <2>1
  <2>3. c[i][1] = (errors[i] # NoError)
    BY <2>1
  <2> QED BY <2>2, <2>3
<1> DEFINE fired == { i \in DOMAIN c : c[i][1] }
<1>4. FirstOf(errors) = IF fired = {} THEN NoError ELSE c[Min(fired)][2]
  <2>1. FirstOf(errors) = FirstError(c)
    BY <1>1, Zenon DEF FirstOf
  <2>2. FirstError(c) = IF fired = {} THEN NoError ELSE c[Min(fired)][2]
    BY Zenon DEF FirstError
  <2> QED BY <2>1, <2>2
<1>5. ASSUME fired # {} PROVE FALSE
  <2>1. fired \subseteq Nat
    BY <1>2
  <2>2. \E x \in fired : \A y \in fired : x <= y
    <3> HIDE DEF fired
    <3> QED BY <1>5, <2>1, LeastExists
  <2>3. Min(fired) \in fired
    BY <2>2 DEF Min
  <2>4. c[Min(fired)][2] # NoError
    BY <1>3, <2>3
  <2> QED BY <1>4, <1>5, <2>4
<1> QED BY <1>2, <1>3, <1>5

(* The first check of a row has not fired when there is no first error.    *)
LEMMA FirstCheckPasses ==
  ASSUME NEW checks, DOMAIN checks \subseteq Nat \ {0}, 1 \in DOMAIN checks,
         FirstError(checks) = NoError, checks[1][2] # NoError
  PROVE  ~checks[1][1]
<1> SUFFICES ASSUME checks[1][1] PROVE FALSE
  OBVIOUS
<1> DEFINE fired == { i \in DOMAIN checks : checks[i][1] }
<1>1. 1 \in fired /\ \A y \in fired : 1 <= y
  OBVIOUS
<1>2. \E x \in fired : \A y \in fired : x <= y
  BY <1>1
<1>3. Min(fired) \in fired /\ \A y \in fired : Min(fired) <= y
  BY <1>2 DEF Min
<1>4. Min(fired) = 1
  <2>1. Min(fired) \in Nat
    BY <1>3
  <2>2. Min(fired) <= 1 /\ 1 <= Min(fired)
    <3> HIDE DEF fired
    <3> QED BY <1>1, <1>3, Zenon
  <2>3. PICK m : m = Min(fired)
    OBVIOUS
  <2>4. m \in Nat /\ m <= 1 /\ 1 <= m
    BY <2>1, <2>2, <2>3, Zenon
  <2>5. m = 1
    BY ONLY <2>4
  <2> QED BY ONLY <2>3, <2>5
<1>5. FirstError(checks) = IF fired = {} THEN NoError ELSE checks[Min(fired)][2]
  BY Zenon DEF FirstError
<1> QED BY <1>1, <1>4, <1>5

LEMMA FirstOfJoined ==
  ASSUME NEW S, NEW s \in Seq(S), NEW t \in Seq(S), Len(s) >= 1
  PROVE  /\ s \o t \in Seq(S) /\ Len(s \o t) \in Nat /\ Len(s \o t) >= 1
         /\ (s \o t)[1] = s[1]
OBVIOUS

(* A check, four more, and a last one: the first is the first.             *)
LEMMA OneFourOne ==
  ASSUME NEW a, NEW x1, NEW x2, NEW x3, NEW x4, NEW z, NEW w,
         w = <<a>> \o <<x1, x2, x3, x4>> \o <<z>>
  PROVE  DOMAIN w \subseteq Nat \ {0} /\ 1 \in DOMAIN w /\ w[1] = a
<1>1. PICK S : S = {a, x1, x2, x3, x4, z}
  OBVIOUS
<1>2. PICK s : s = <<a>>
  OBVIOUS
<1>3. PICK t : t = <<x1, x2, x3, x4>>
  OBVIOUS
<1>4. PICK u : u = <<z>>
  OBVIOUS
<1>5. s \in Seq(S) /\ t \in Seq(S) /\ u \in Seq(S) /\ Len(s) >= 1 /\ s[1] = a
  BY <1>1, <1>2, <1>3, <1>4
<1>6. w = (s \o t) \o u
  BY <1>2, <1>3, <1>4
<1>7. PICK v : v = s \o t
  OBVIOUS
<1>8. v \in Seq(S) /\ Len(v) \in Nat /\ Len(v) >= 1 /\ v[1] = a
  BY <1>5, <1>7, FirstOfJoined, Zenon
<1>9. w = v \o u
  BY <1>6, <1>7
<1>10. v \o u \in Seq(S) /\ Len(v \o u) \in Nat /\ Len(v \o u) >= 1 /\ (v \o u)[1] = v[1]
  BY <1>5, <1>8, FirstOfJoined, Zenon
<1>11. w \in Seq(S) /\ Len(w) \in Nat /\ Len(w) >= 1 /\ w[1] = a
  BY <1>8, <1>9, <1>10, Zenon
<1> QED BY <1>11

(* The error of a row of checks is one of those it names.                  *)
LEMMA OneOfTwo ==
  ASSUME NEW E, NEW p1, NEW p2,
         NEW e1 \in E, NEW e2 \in E
  PROVE  FirstError(<< <<p1, e1>>, <<p2, e2>> >>) \in E \cup {NoError}
<1>1. PICK w : w = << <<p1, e1>>, <<p2, e2>> >>
  OBVIOUS
<1>2. DOMAIN w = 1 .. 2 /\ \A i \in 1 .. 2 : w[i][2] \in E
  <2>1. \A i \in 1 .. 2 : i = 1 \/ i = 2
    OBVIOUS
  <2> QED BY <1>1, <2>1
<1>3. FirstError(w) \in E \cup {NoError}
  BY <1>2, FirstErrorAmong
<1> QED BY <1>1, <1>3

LEMMA OneOfThree ==
  ASSUME NEW E, NEW p1, NEW p2, NEW p3,
         NEW e1 \in E, NEW e2 \in E, NEW e3 \in E
  PROVE  FirstError(<< <<p1, e1>>, <<p2, e2>>, <<p3, e3>> >>) \in E \cup {NoError}
<1>1. PICK w : w = << <<p1, e1>>, <<p2, e2>>, <<p3, e3>> >>
  OBVIOUS
<1>2. DOMAIN w = 1 .. 3 /\ \A i \in 1 .. 3 : w[i][2] \in E
  <2>1. \A i \in 1 .. 3 : i = 1 \/ i = 2 \/ i = 3
    OBVIOUS
  <2> QED BY <1>1, <2>1
<1>3. FirstError(w) \in E \cup {NoError}
  BY <1>2, FirstErrorAmong
<1> QED BY <1>1, <1>3

LEMMA OneOfFour ==
  ASSUME NEW E, NEW p1, NEW p2, NEW p3, NEW p4,
         NEW e1 \in E, NEW e2 \in E, NEW e3 \in E, NEW e4 \in E
  PROVE  FirstError(<< <<p1, e1>>, <<p2, e2>>, <<p3, e3>>, <<p4, e4>> >>) \in E \cup {NoError}
<1>1. PICK w : w = << <<p1, e1>>, <<p2, e2>>, <<p3, e3>>, <<p4, e4>> >>
  OBVIOUS
<1>2. DOMAIN w = 1 .. 4 /\ \A i \in 1 .. 4 : w[i][2] \in E
  <2>1. \A i \in 1 .. 4 : i = 1 \/ i = 2 \/ i = 3 \/ i = 4
    OBVIOUS
  <2> QED BY <1>1, <2>1
<1>3. FirstError(w) \in E \cup {NoError}
  BY <1>2, FirstErrorAmong
<1> QED BY <1>1, <1>3

LEMMA OneOfFive ==
  ASSUME NEW E, NEW p1, NEW p2, NEW p3, NEW p4, NEW p5,
         NEW e1 \in E, NEW e2 \in E, NEW e3 \in E, NEW e4 \in E, NEW e5 \in E
  PROVE  FirstError(<< <<p1, e1>>, <<p2, e2>>, <<p3, e3>>, <<p4, e4>>, <<p5, e5>> >>)
           \in E \cup {NoError}
<1>1. PICK w : w = << <<p1, e1>>, <<p2, e2>>, <<p3, e3>>, <<p4, e4>>, <<p5, e5>> >>
  OBVIOUS
<1>2. DOMAIN w = 1 .. 5 /\ \A i \in 1 .. 5 : w[i][2] \in E
  <2>1. \A i \in 1 .. 5 : i = 1 \/ i = 2 \/ i = 3 \/ i = 4 \/ i = 5
    OBVIOUS
  <2> QED BY <1>1, <2>1
<1>3. FirstError(w) \in E \cup {NoError}
  BY <1>2, FirstErrorAmong
<1> QED BY <1>1, <1>3

LEMMA OneOfSix ==
  ASSUME NEW E, NEW p1, NEW p2, NEW p3, NEW p4, NEW p5, NEW p6,
         NEW e1 \in E, NEW e2 \in E, NEW e3 \in E, NEW e4 \in E, NEW e5 \in E, NEW e6 \in E
  PROVE  FirstError(<< <<p1, e1>>, <<p2, e2>>, <<p3, e3>>, <<p4, e4>>, <<p5, e5>>,
                       <<p6, e6>> >>) \in E \cup {NoError}
<1>1. PICK w : w = << <<p1, e1>>, <<p2, e2>>, <<p3, e3>>, <<p4, e4>>, <<p5, e5>>, <<p6, e6>> >>
  OBVIOUS
<1>2. DOMAIN w = 1 .. 6 /\ \A i \in 1 .. 6 : w[i][2] \in E
  <2>1. \A i \in 1 .. 6 : i = 1 \/ i = 2 \/ i = 3 \/ i = 4 \/ i = 5 \/ i = 6
    OBVIOUS
  <2> QED BY <1>1, <2>1
<1>3. FirstError(w) \in E \cup {NoError}
  BY <1>2, FirstErrorAmong
<1> QED BY <1>1, <1>3

----------------------------------------------------------------------------
(* The inductive invariant.                                                *)

Phases ==
  {"suite", "list", "types", "manifest", "campaign", "evidence", "published",
   "context", "records", "close", "accept", "done"}

(* A step in a campaign is in one of the suite's, and reads a record of it. *)
Standing ==
  /\ at \in [phase : Phases, campaign : Nat, record : Nat]
  /\ at.phase \notin {"suite", "list", "accept", "done"} => at.campaign \in Campaigns
  /\ at.phase = "records" => at.record \in DOMAIN Policies

Sizes ==
  /\ DOMAIN disk = Entries
  /\ \A name \in Entries : disk[name].size \in Nat /\ disk[name].advertised \in Nat

Reads == Entries \X Nat \X Nat

Accounts ==
  /\ total \in Nat
  /\ budget \in [perFile : {PerFile}, remaining : Nat, failed : BOOLEAN]
  /\ consumed \in Seq(Reads)
  /\ \A k \in DOMAIN consumed : consumed[k][2] <= PerFile + 1 /\ Spent(k) <= total + 1
  /\ ~budget.failed =>
       /\ Spent(Len(consumed)) + budget.remaining = total
       /\ \A k \in DOMAIN consumed : consumed[k][2] <= PerFile /\ Spent(k) <= total
  /\ budget.failed => verdict # "running" /\ verdict # "accepted"

Inv == Standing /\ Sizes /\ Accounts

----------------------------------------------------------------------------
(* A read.                                                                 *)

(* A read that succeeds takes what was allowed, and no less than the file; *)
(* any read takes at most a byte more.                                     *)
LEMMA ReadIsBounded ==
  ASSUME Accounts, NEW file, file.size \in Nat, file.advertised \in Nat
  PROVE  /\ Allowed \in Nat /\ Allowed <= PerFile /\ Allowed <= budget.remaining
         /\ StreamedBytes(file) \in Nat /\ StreamedBytes(file) <= Allowed + 1
         /\ ReadError(file) = NoError =>
              ~budget.failed /\ MetadataOk(file) /\ StreamedBytes(file) <= Allowed
<1>0. budget.perFile = PerFile /\ budget.remaining \in Nat /\ PerFile \in Nat
  BY SuiteAssumption DEF Accounts
<1>1. Allowed \in Nat /\ Allowed <= PerFile /\ Allowed <= budget.remaining
  BY <1>0, LowestOfTwo DEF Allowed
<1>2. /\ StreamedBytes(file) \in Nat /\ StreamedBytes(file) <= Allowed + 1
      /\ StreamedBytes(file) <= file.size
  BY <1>1, LowestOfTwo DEF StreamedBytes
<1>3. ASSUME ReadError(file) = NoError
      PROVE  ~budget.failed /\ MetadataOk(file) /\ StreamedBytes(file) <= Allowed
  <2>1. PICK c : c = << <<budget.failed, "Closed">>,
                        <<file.type = "absent", "NotFound">>,
                        <<file.type # "file", "NotRegular">>,
                        <<file.advertised > Allowed, "Limit">>,
                        <<file.size > Allowed, "Limit">>,
                        <<file.form = "binary", "NotUtf8">> >>
    OBVIOUS
  <2>2. DOMAIN c = 1 .. 6
    BY <2>1
  <2>3. \A i \in DOMAIN c : c[i][2] # NoError
    <3>1. \A i \in 1 .. 6 : i = 1 \/ i = 2 \/ i = 3 \/ i = 4 \/ i = 5 \/ i = 6
      OBVIOUS
    <3> QED BY <2>1, <2>2, <3>1 DEF NoError
  <2>4. FirstError(c) = NoError
    BY <1>3, <2>1, Zenon DEF ReadError
  <2>5. \A i \in 1 .. 6 : ~c[i][1]
    BY <2>2, <2>3, <2>4, NoneFired
  <2>6. ~c[1][1] /\ ~c[3][1] /\ ~c[4][1] /\ ~c[5][1]
    BY <2>5
  <2>7. /\ (c[1][1] <=> budget.failed) /\ (c[3][1] <=> file.type # "file")
        /\ (c[4][1] <=> file.advertised > Allowed) /\ (c[5][1] <=> file.size > Allowed)
    BY <2>1
  <2>8. /\ ~budget.failed /\ file.type = "file"
        /\ ~(file.advertised > Allowed) /\ ~(file.size > Allowed)
    BY <2>6, <2>7
  <2>9. file.advertised <= Allowed /\ file.size <= Allowed
    BY <1>1, <2>8
  <2> QED BY <1>1, <1>2, <2>8, <2>9 DEF MetadataOk
<1> QED BY <1>1, <1>2, <1>3

(* What a read leaves of the accounts: those of a budget that has failed   *)
(* or not, apart from the verdict.                                         *)
Books ==
  /\ total \in Nat
  /\ budget \in [perFile : {PerFile}, remaining : Nat, failed : BOOLEAN]
  /\ consumed \in Seq(Reads)
  /\ \A k \in DOMAIN consumed : consumed[k][2] <= PerFile + 1 /\ Spent(k) <= total + 1
  /\ ~budget.failed =>
       /\ Spent(Len(consumed)) + budget.remaining = total
       /\ \A k \in DOMAIN consumed : consumed[k][2] <= PerFile /\ Spent(k) <= total

(* A read keeps them, and fails the budget exactly when it has an error.   *)
LEMMA ReadKeepsTheBooks ==
  ASSUME Accounts, verdict = "running", NEW name \in Entries,
         disk[name].size \in Nat, disk[name].advertised \in Nat, ReadText(name), total' = total
  PROVE  Books' /\ (budget'.failed => ReadError(disk[name]) # NoError)
<1>1. PICK file : file = disk[name]
  OBVIOUS
<1>2. PICK bytes : bytes = IF ~budget.failed /\ MetadataOk(file) THEN StreamedBytes(file) ELSE 0
  OBVIOUS
<1>a. /\ ~budget.failed /\ total \in Nat /\ consumed \in Seq(Reads)
      /\ budget \in [perFile : {PerFile}, remaining : Nat, failed : BOOLEAN]
      /\ PerFile \in Nat /\ budget.remaining \in Nat
      /\ Spent(Len(consumed)) + budget.remaining = total
      /\ \A k \in DOMAIN consumed : consumed[k][2] <= PerFile /\ Spent(k) <= total
  BY SuiteAssumption DEF Accounts
<1>b. Spent(Len(consumed)) \in Nat /\ Len(consumed) \in Nat
  <2>1. CASE Len(consumed) = 0
    BY <1>a, <2>1 DEF Spent
  <2>2. CASE Len(consumed) # 0
    <3>1. Len(consumed) \in DOMAIN consumed /\ Len(consumed) \in Nat
      BY <1>a, <2>2
    <3>2. consumed[Len(consumed)] \in Reads
      BY <1>a, <3>1
    <3> QED BY <2>2, <3>1, <3>2 DEF Spent, Reads
  <2> QED BY <2>1, <2>2
<1>c. /\ Allowed \in Nat /\ Allowed <= PerFile /\ Allowed <= budget.remaining
      /\ bytes \in Nat /\ bytes <= Allowed + 1
      /\ ReadError(file) = NoError => bytes <= Allowed
  BY <1>1, <1>2, ReadIsBounded
<1>3. /\ budget' = [budget EXCEPT !.remaining = IF @ > bytes THEN @ - bytes ELSE 0,
                                  !.failed = @ \/ ReadError(file) # NoError]
      /\ consumed' = IF bytes = 0 THEN consumed
                     ELSE Append(consumed, <<name, bytes, Spent(Len(consumed)) + bytes>>)
  BY <1>1, <1>2, Zenon DEF ReadText
<1>4. /\ budget'.perFile = PerFile
      /\ budget'.remaining = IF budget.remaining > bytes THEN budget.remaining - bytes ELSE 0
      /\ (budget'.failed <=> ReadError(file) # NoError)
      /\ budget' \in [perFile : {PerFile}, remaining : Nat, failed : BOOLEAN]
  <2>1. budget'.perFile = PerFile /\ budget'.remaining = IF budget.remaining > bytes THEN budget.remaining - bytes ELSE 0
    BY <1>a, <1>3
  <2>2. budget'.failed = (budget.failed \/ ReadError(file) # NoError)
    BY <1>a, <1>3
  <2>3. budget'.remaining \in Nat
    BY <1>a, <1>c, <2>1
  <2>4. budget' = [perFile |-> budget'.perFile, remaining |-> budget'.remaining,
                   failed |-> budget'.failed]
    BY <1>a, <1>3
  <2> QED BY <1>a, <2>1, <2>2, <2>3, <2>4
<1>5. CASE bytes = 0
  <2>1. consumed' = consumed /\ budget'.remaining = budget.remaining
    BY <1>a, <1>3, <1>4, <1>5
  <2>2. \A k : Spent(k)' = Spent(k)
    BY <2>1 DEF Spent
  <2>3. \A k \in DOMAIN consumed : consumed[k][2] <= PerFile + 1 /\ Spent(k) <= total + 1
    BY DEF Accounts
  <2> QED BY <1>1, <1>a, <1>4, <2>1, <2>2, <2>3 DEF Books
<1>6. CASE bytes # 0
  <2>0. PICK n : n = Len(consumed)
    OBVIOUS
  <2>1. PICK r : r = <<name, bytes, Spent(n) + bytes>>
    OBVIOUS
  <2>a. PICK before : before = Spent(n)
    OBVIOUS
  <2>b. n \in Nat /\ before \in Nat /\ before + budget.remaining = total
    BY <1>a, <1>b, <2>0, <2>a
  <2>2. r \in Reads /\ r[2] = bytes /\ r[3] = before + bytes
    BY <1>c, <2>1, <2>a, <2>b DEF Reads
  <2>3. /\ consumed' = Append(consumed, r) /\ consumed' \in Seq(Reads)
        /\ Len(consumed') = n + 1 /\ DOMAIN consumed' = 1 .. n + 1
        /\ \A k \in 1 .. n : consumed'[k] = consumed[k]
        /\ consumed'[n + 1] = r
    BY <1>3, <1>6, <1>a, <2>0, <2>1, <2>2
  <2>4. \A k : Spent(k)' = IF k = 0 THEN 0 ELSE consumed'[k][3]
    BY DEF Spent
  <2>5. Spent(n + 1)' = before + bytes
    <3>1. n + 1 # 0
      BY <2>b
    <3> QED BY <2>2, <2>3, <2>4, <3>1
  <2>6. \A k \in 1 .. n : Spent(k)' = Spent(k)
    BY <2>3, <2>4 DEF Spent
  <2>7. /\ before + bytes <= total + 1 /\ bytes <= PerFile + 1
        /\ bytes <= Allowed => before + bytes <= total /\ bytes <= PerFile
    BY <1>a, <1>c, <2>b
  <2>8. ASSUME NEW k \in DOMAIN consumed'
        PROVE  /\ consumed'[k][2] <= PerFile + 1 /\ Spent(k)' <= total + 1
               /\ bytes <= Allowed => consumed'[k][2] <= PerFile /\ Spent(k)' <= total
    <3>1. k \in 1 .. n \/ k = n + 1
      BY <2>b, <2>3
    <3>2. CASE k \in 1 .. n
      <4>1. k \in DOMAIN consumed
        BY <1>a, <2>0, <3>2
      <4>2. /\ consumed[k][2] <= PerFile + 1 /\ Spent(k) <= total + 1
            /\ consumed[k][2] <= PerFile /\ Spent(k) <= total
        BY <1>a, <4>1 DEF Accounts
      <4> QED BY <2>3, <2>6, <3>2, <4>2
    <3>3. CASE k = n + 1
      BY <2>2, <2>3, <2>5, <2>7, <3>3
    <3> QED BY <3>1, <3>2, <3>3
  <2>9. ASSUME ~budget'.failed
        PROVE  /\ bytes <= Allowed
               /\ Spent(n + 1)' + budget'.remaining = total
    <3>1. bytes <= Allowed
      BY <1>4, <1>1, <1>c, <2>9
    <3>2. budget'.remaining = budget.remaining - bytes
      BY <1>a, <1>c, <1>4, <3>1
    <3> QED BY <1>a, <1>c, <2>5, <2>b, <3>1, <3>2
  <2>c. Books'
    <3>1. \A k \in DOMAIN consumed' : consumed'[k][2] <= PerFile + 1 /\ Spent(k)' <= total + 1
      BY <2>8
    <3>2. ASSUME ~budget'.failed
          PROVE  /\ Spent(n + 1)' + budget'.remaining = total
                 /\ \A k \in DOMAIN consumed' : consumed'[k][2] <= PerFile /\ Spent(k)' <= total
      BY <2>8, <2>9, <3>2
    <3>3. Spent(Len(consumed))' = Spent(n + 1)'
      BY <2>3 DEF Spent
    <3> QED BY <1>a, <1>4, <2>3, <3>1, <3>2, <3>3 DEF Books
  <2> QED BY <1>1, <1>4, <2>c
<1> QED BY <1>5, <1>6

(* What a judgement leaves of the accounts.                                *)
LEMMA AccountsAfter ==
  ASSUME Books', budget'.failed => verdict' # "running" /\ verdict' # "accepted"
  PROVE  Accounts'
BY DEF Books, Accounts

(* A read of the pack's verifier.                                          *)
LEMMA PackReadKeeps ==
  ASSUME Inv, verdict = "running", NEW name \in Entries, NEW next, PackRead(name, next)
  PROVE  Accounts' /\ UNCHANGED disk /\ (at' = next \/ at' = Step("done", 0))
<1>1. /\ ReadText(name) /\ total' = total /\ disk' = disk
      /\ Judge(IF ReadError(disk[name]) # NoError THEN "CampaignVerification" ELSE NoError, next)
  BY Zenon DEF PackRead
<1>2. Accounts /\ disk[name].size \in Nat /\ disk[name].advertised \in Nat
  BY DEF Inv, Sizes
<1>3. Books' /\ (budget'.failed => ReadError(disk[name]) # NoError)
  BY <1>1, <1>2, ReadKeepsTheBooks
<1>4. ASSUME ReadError(disk[name]) # NoError
      PROVE  verdict' = "CampaignVerification"
  BY <1>1, <1>4 DEF Judge, NoError
<1>5. budget'.failed => verdict' # "running" /\ verdict' # "accepted"
  BY <1>3, <1>4
<1>6. at' = next \/ at' = Step("done", 0)
  BY <1>1 DEF Judge
<1> QED BY <1>1, <1>3, <1>5, <1>6, AccountsAfter

(* A read of the suite's verifier, which is judged by its own error first. *)
LEMMA SuiteReadKeeps ==
  ASSUME Inv, verdict = "running", NEW name \in Entries, SuiteRead(name), total' = total,
         SuiteReadError(disk[name]) # NoError => verdict' = SuiteReadError(disk[name])
  PROVE  Accounts'
<1>1. PICK file : file = disk[name]
  OBVIOUS
<1>2. Accounts /\ file.size \in Nat /\ file.advertised \in Nat
  BY <1>1 DEF Inv, Sizes
<1>3. CASE RegularFileError(file) # NoError
  <2>1. UNCHANGED <<budget, consumed>>
    BY <1>1, <1>3 DEF SuiteRead
  <2>2. Books'
    <3>1. \A k : Spent(k)' = Spent(k)
      BY <2>1 DEF Spent
    <3> QED BY <1>2, <2>1, <3>1 DEF Books, Accounts, Spent
  <2>3. ~budget'.failed
    BY <1>2, <2>1 DEF Accounts
  <2> QED BY <2>2, <2>3, AccountsAfter
<1>4. CASE RegularFileError(file) = NoError
  <2>1. ReadText(name)
    BY <1>1, <1>4 DEF SuiteRead
  <2>2. Books' /\ (budget'.failed => ReadError(file) # NoError)
    BY <1>1, <1>2, <2>1, ReadKeepsTheBooks
  <2>3. ASSUME ReadError(file) # NoError PROVE verdict' = "Io"
    <3>1. (IF ReadError(file) # NoError THEN "Io" ELSE NoError) = "Io"
      BY <2>3
    <3>2. SuiteReadError(file) = FirstOf(<<RegularFileError(file), "Io">>)
      BY <3>1, Zenon DEF SuiteReadError
    <3>3. "Io" # NoError
      BY DEF NoError
    <3>4. SuiteReadError(file) = "Io"
      BY <1>4, <3>2, <3>3, FirstOfTwo
    <3> QED BY <1>1, <3>3, <3>4
  <2>4. budget'.failed => verdict' # "running" /\ verdict' # "accepted"
    BY <2>2, <2>3
  <2> QED BY <2>2, <2>4, AccountsAfter
<1> QED BY <1>3, <1>4

(* A step that reads nothing keeps them.                                   *)
LEMMA QuietStep ==
  ASSUME Inv, verdict = "running", UNCHANGED <<budget, consumed, total>>
  PROVE  Accounts'
<1>1. Accounts /\ ~budget.failed
  BY DEF Inv, Accounts
<1>2. \A k : Spent(k)' = Spent(k)
  BY DEF Spent
<1>3. Spent(Len(consumed))' = Spent(Len(consumed))
  BY DEF Spent
<1> QED BY <1>1, <1>2, <1>3 DEF Accounts

----------------------------------------------------------------------------
(* The names of the files.                                                 *)

LEMMA FilesAreEntries ==
  /\ Files \subseteq Entries /\ SuiteFile \in Entries
  /\ \A c \in Campaigns :
       /\ Manifest(c) \in Entries /\ Campaign(c) \in Entries /\ Published(c) \in Entries
       /\ \A i \in DOMAIN Policies : Record(c, i) \in Entries
       /\ Listed(c) \subseteq Entries
<1>1. Files \subseteq Entries
  BY Zenon DEF Entries
<1>2. SuiteFile \in Entries
  BY Zenon DEF Entries, Files
<1>3. ASSUME NEW c \in Campaigns
      PROVE  /\ Manifest(c) \in Entries /\ Campaign(c) \in Entries /\ Published(c) \in Entries
             /\ \A i \in DOMAIN Policies : Record(c, i) \in Entries
             /\ Listed(c) \subseteq Entries
  <2>1. PackFiles(c) \cup {Published(c)} \subseteq Files
    BY <1>3, Zenon DEF Files
  <2>2. Manifest(c) \in PackFiles(c) /\ Campaign(c) \in PackFiles(c)
    BY Zenon DEF PackFiles
  <2>3. \A i \in DOMAIN Policies : Record(c, i) \in PackFiles(c)
    BY Zenon DEF PackFiles, Records
  <2>4. PackExtra(c) \in Entries
    BY <1>3, Zenon DEF Entries, Extras
  <2>5. Listed(c) \subseteq PackFiles(c) \cup {PackExtra(c)}
    BY Zenon DEF Listed
  <2> QED BY <1>1, <2>1, <2>2, <2>3, <2>4, <2>5, Zenon
<1> QED BY <1>1, <1>2, <1>3

----------------------------------------------------------------------------
(* The invariant holds at the start.                                       *)

LEMMA FreshSizes ==
  ASSUME NEW v
  PROVE  /\ DOMAIN Fresh(v) = Entries
         /\ \A name \in Entries :
              /\ Fresh(v)[name].size \in Nat /\ Fresh(v)[name].advertised \in Nat
              /\ \A what \in Damages :
                   /\ Damaged(Fresh(v)[name], what).size \in Nat
                   /\ Damaged(Fresh(v)[name], what).advertised \in Nat
<1>1. DOMAIN Fresh(v) = Entries
  BY DEF Fresh
<1>2. ASSUME NEW name \in Entries
      PROVE  \E type, size, version :
               /\ Fresh(v)[name] = [type |-> type, size |-> size, advertised |-> size,
                                     version |-> version, form |-> "good"]
               /\ size \in {0, 1}
  <2>1. CASE name \in Files
    BY <1>2, <2>1 DEF Fresh, Plain
  <2>2. CASE name \notin Files /\ name \in Extras
    BY <1>2, <2>2 DEF Fresh, Absent
  <2>3. CASE name \notin Files /\ name \notin Extras
    BY <1>2, <2>3 DEF Fresh, Directory, Absent
  <2> QED BY <2>1, <2>2, <2>3
<1>3. ASSUME NEW name \in Entries
      PROVE  /\ Fresh(v)[name].size \in Nat /\ Fresh(v)[name].advertised \in Nat
             /\ \A what \in Damages :
                  /\ Damaged(Fresh(v)[name], what).size \in Nat
                  /\ Damaged(Fresh(v)[name], what).advertised \in Nat
  <2>1. PICK file : file = Fresh(v)[name]
    OBVIOUS
  <2>2. /\ file.size \in Nat /\ file.advertised \in Nat
        /\ DOMAIN file = {"type", "size", "advertised", "version", "form"}
    <3>1. PICK type, size, version :
            /\ file = [type |-> type, size |-> size, advertised |-> size,
                       version |-> version, form |-> "good"]
            /\ size \in {0, 1}
      BY <1>2, <2>1, ZenonT(60)
    <3>2. file.size = size /\ file.advertised = size /\ size \in Nat
      BY <3>1
    <3>3. DOMAIN file = {"type", "size", "advertised", "version", "form"}
      BY <3>1
    <3> QED BY <3>2, <3>3
  <2>3. ASSUME NEW what \in Damages, NEW f \in {"size", "advertised"}
        PROVE  Damaged(file, what)[f] \in Nat
    <3>1. f \in DOMAIN file /\ file[f] \in Nat
      BY <2>2
    <3>2. Damaged(file, what)[f] = IF f \in DOMAIN what THEN what[f] ELSE file[f]
      BY <3>1 DEF Damaged
    <3> QED BY <3>1, <3>2, SuiteAssumption
  <2> QED BY <2>1, <2>2, <2>3
<1> QED BY <1>1, <1>3

LEMMA InvInit == Init => Inv
<1> SUFFICES ASSUME Init PROVE Inv
  OBVIOUS
<1>1. Standing
  <2>1. at = [phase |-> "suite", campaign |-> 0, record |-> 0]
    BY DEF Init, Step
  <2>2. at.phase = "suite" /\ at \in [phase : Phases, campaign : Nat, record : Nat]
    BY <2>1 DEF Phases
  <2> QED BY <2>2 DEF Standing
<1>2. Sizes
  <2>1. CASE \E pair \in Rewrites : disk = Fresh(pair[1])
    BY <2>1, FreshSizes DEF Sizes
  <2>2. CASE \E name \in Entries, what \in Damages :
               disk = [Fresh(1) EXCEPT ![name] = Damaged(@, what)]
    <3>1. PICK name \in Entries, what \in Damages :
                 disk = [Fresh(1) EXCEPT ![name] = Damaged(@, what)]
      BY <2>2
    <3>2. /\ DOMAIN disk = Entries
          /\ disk[name] = Damaged(Fresh(1)[name], what)
          /\ \A e \in Entries : e # name => disk[e] = Fresh(1)[e]
      BY <3>1, FreshSizes
    <3> QED BY <3>2, FreshSizes DEF Sizes
  <2> QED BY <2>1, <2>2 DEF Init
<1>3. Accounts
  <2>1. total \in Nat /\ PerFile \in Nat
    BY SuiteAssumption DEF Init
  <2>2. consumed = << >> /\ Spent(Len(consumed)) = 0
    BY DEF Init, Spent
  <2>3. budget = [perFile |-> PerFile, remaining |-> total, failed |-> FALSE]
    BY DEF Init, NewBudget
  <2> QED BY <2>1, <2>2, <2>3 DEF Accounts
<1> QED BY <1>1, <1>2, <1>3 DEF Inv

----------------------------------------------------------------------------
(* Every step keeps the invariant.                                         *)

(* Where a step may lead.                                                  *)
LEMMA Places ==
  /\ \A phase \in {"suite", "list", "accept", "done"} : at' = Step(phase, 0) => Standing'
  /\ \A phase \in Phases \ {"records"} : \A c \in Campaigns :
       at' = Step(phase, c) => Standing'
<1>1. ASSUME NEW phase \in {"suite", "list", "accept", "done"}, at' = Step(phase, 0)
      PROVE  Standing'
  <2>1. at' = [phase |-> phase, campaign |-> 0, record |-> 0]
    BY <1>1 DEF Step
  <2>2. /\ at' \in [phase : Phases, campaign : Nat, record : Nat]
        /\ at'.phase = phase /\ phase # "records"
    BY <2>1 DEF Phases
  <2> QED BY <2>2 DEF Standing
<1>2. ASSUME NEW phase \in Phases \ {"records"}, NEW c \in Campaigns, at' = Step(phase, c)
      PROVE  Standing'
  <2>1. at' = [phase |-> phase, campaign |-> c, record |-> 0]
    BY <1>2 DEF Step
  <2>2. c \in Nat
    BY SuiteAssumption DEF Campaigns
  <2>3. /\ at' \in [phase : Phases, campaign : Nat, record : Nat]
        /\ at'.phase = phase /\ at'.campaign = c
    BY <2>1, <2>2
  <2> QED BY <2>3 DEF Standing
<1> QED BY <1>1, <1>2

(* A judgement that goes on is in the next place, another one is done.     *)
LEMMA Judged ==
  ASSUME NEW error, NEW next, Judge(error, next)
  PROVE  /\ at' = next \/ at' = Step("done", 0)
         /\ error # NoError => verdict' = error
BY DEF Judge

(* Nothing else touches the directory.                                     *)
LEMMA SizesStay == Sizes /\ UNCHANGED disk => Sizes'
BY DEF Sizes

LEMMA StepKeepsInv == Inv /\ [Next]_vars => Inv'
<1> SUFFICES ASSUME Inv, [Next]_vars PROVE Inv'
  OBVIOUS
<1>0. Standing /\ Sizes /\ Accounts
  BY DEF Inv
<1>p. /\ at.phase \notin {"suite", "list", "accept", "done"} => at.campaign \in Campaigns
      /\ at.phase = "records" => at.record \in DOMAIN Policies
  BY <1>0 DEF Standing
<1>d. at' = Step("done", 0) => Standing'
  BY Places
<1>1. CASE ReadSuiteManifest
  <2>1. /\ verdict = "running" /\ SuiteRead(SuiteFile) /\ UNCHANGED <<disk, total>>
        /\ Judge(FirstOf(<<SuiteReadError(disk[SuiteFile]),
                           SuiteManifestError(Text(SuiteFile, disk[SuiteFile]))>>),
                 Step("list", 0))
    BY <1>1, Zenon DEF ReadSuiteManifest, In
  <2>2. ASSUME SuiteReadError(disk[SuiteFile]) # NoError
        PROVE  verdict' = SuiteReadError(disk[SuiteFile])
    <3>1. FirstOf(<<SuiteReadError(disk[SuiteFile]),
                    SuiteManifestError(Text(SuiteFile, disk[SuiteFile]))>>)
            = SuiteReadError(disk[SuiteFile])
      BY <2>2, FirstOfTwo
    <3> QED BY <2>1, <2>2, <3>1, Judged
  <2>3. Accounts'
    BY <2>1, <2>2, FilesAreEntries, SuiteReadKeeps
  <2>4. Standing'
    BY <2>1, Judged, Places
  <2> QED BY <1>0, <2>1, <2>3, <2>4, SizesStay DEF Inv
<1>2. CASE ListSuite
  <2>1. /\ verdict = "running" /\ UNCHANGED <<disk, budget, consumed, total>>
        /\ Judge(DirectoryError, Step("types", 1))
    BY <1>2, Zenon DEF ListSuite, In
  <2>2. 1 \in Campaigns
    BY SuiteAssumption DEF Campaigns
  <2>3. Standing'
    <3>1. "types" \in Phases \ {"records"}
      BY DEF Phases
    <3> QED BY <2>1, <2>2, <3>1, Judged, Places
  <2> QED BY <1>0, <2>1, <2>3, QuietStep, SizesStay DEF Inv
<1>3. CASE CheckEntryTypes
  <2>1. /\ verdict = "running" /\ UNCHANGED <<disk, budget, consumed, total>>
        /\ Judge(EntryTypesError(at.campaign), Step("manifest", at.campaign))
        /\ at.phase = "types"
    BY <1>3, Zenon DEF CheckEntryTypes, In
  <2>2. at.campaign \in Campaigns
    BY <1>p, <2>1
  <2>3. Standing'
    <3>1. "manifest" \in Phases \ {"records"}
      BY DEF Phases
    <3> QED BY <2>1, <2>2, <3>1, Judged, Places
  <2> QED BY <1>0, <2>1, <2>3, QuietStep, SizesStay DEF Inv
<1>4. CASE ReadPackManifest
  <2>1. /\ verdict = "running" /\ at.phase = "manifest"
        /\ PackRead(Manifest(at.campaign), Step("campaign", at.campaign))
    BY <1>4, Zenon DEF ReadPackManifest, In
  <2>2. at.campaign \in Campaigns
    BY <1>p, <2>1
  <2>3. Accounts' /\ UNCHANGED disk
        /\ (at' = Step("campaign", at.campaign) \/ at' = Step("done", 0))
    BY <2>1, <2>2, FilesAreEntries, PackReadKeeps
  <2>4. Standing'
    <3>1. "campaign" \in Phases \ {"records"}
      BY DEF Phases
    <3> QED BY <2>2, <2>3, <3>1, Places
  <2> QED BY <1>0, <2>3, <2>4, SizesStay DEF Inv
<1>5. CASE ReadPackCampaign
  <2>1. /\ verdict = "running" /\ at.phase = "campaign"
        /\ PackRead(Campaign(at.campaign), Step("evidence", at.campaign))
    BY <1>5, Zenon DEF ReadPackCampaign, In
  <2>2. at.campaign \in Campaigns
    BY <1>p, <2>1
  <2>3. Accounts' /\ UNCHANGED disk
        /\ (at' = Step("evidence", at.campaign) \/ at' = Step("done", 0))
    BY <2>1, <2>2, FilesAreEntries, PackReadKeeps
  <2>4. Standing'
    <3>1. "evidence" \in Phases \ {"records"}
      BY DEF Phases
    <3> QED BY <2>2, <2>3, <3>1, Places
  <2> QED BY <1>0, <2>3, <2>4, SizesStay DEF Inv
<1>6. CASE ReadEvidence
  <2>1. /\ verdict = "running" /\ at.phase = "evidence"
        /\ \E name \in Listed(at.campaign) : PackRead(name, at)
    BY <1>6, Zenon DEF ReadEvidence, In
  <2>2. at.campaign \in Campaigns
    BY <1>p, <2>1
  <2>3. PICK name \in Listed(at.campaign) : PackRead(name, at)
    BY <2>1
  <2>4. name \in Entries
    BY <2>2, FilesAreEntries
  <2>5. Accounts' /\ UNCHANGED disk /\ (at' = at \/ at' = Step("done", 0))
    BY <2>1, <2>3, <2>4, PackReadKeeps
  <2>6. at' = at => Standing'
    BY <1>0 DEF Standing
  <2> QED BY <1>0, <1>d, <2>5, <2>6, SizesStay DEF Inv
<1>7. CASE VerifyPack
  <2>1. /\ verdict = "running" /\ UNCHANGED <<disk, budget, consumed, total>>
        /\ Judge(PackVerdict(at.campaign, got), Step("published", at.campaign))
        /\ at.phase = "evidence"
    BY <1>7, Zenon DEF VerifyPack, In
  <2>2. at.campaign \in Campaigns
    BY <1>p, <2>1
  <2>3. Standing'
    <3>1. "published" \in Phases \ {"records"}
      BY DEF Phases
    <3> QED BY <2>1, <2>2, <3>1, Judged, Places
  <2> QED BY <1>0, <2>1, <2>3, QuietStep, SizesStay DEF Inv
<1>8. CASE ReadPublished
  <2> DEFINE c == at.campaign
             name == Published(c)
             error == SuiteReadError(disk[name])
  <2>1. /\ verdict = "running" /\ at.phase = "published" /\ UNCHANGED <<disk, total>>
        /\ SuiteRead(name)
        /\ Judge(IF error # NoError THEN error ELSE PublishedError(c, disk[name]),
                 Step("context", c))
    BY <1>8, Zenon DEF ReadPublished, In
  <2>2. c \in Campaigns
    BY <1>p, <2>1
  <2>3. name \in Entries
    BY <2>2, FilesAreEntries
  <2>4. ASSUME error # NoError PROVE verdict' = error
    <3>1. (IF error # NoError THEN error ELSE PublishedError(c, disk[name])) = error
      BY <2>4
    <3> HIDE DEF error
    <3> QED BY <2>1, <2>4, <3>1, Judged
  <2>5. Accounts'
    BY <2>1, <2>3, <2>4, SuiteReadKeeps
  <2>6. Standing'
    <3>1. "context" \in Phases \ {"records"}
      BY DEF Phases
    <3> QED BY <2>1, <2>2, <3>1, Judged, Places
  <2> QED BY <1>0, <2>1, <2>5, <2>6, SizesStay DEF Inv
<1>9. CASE ReadContext
  <2> DEFINE c == at.campaign
             name == Campaign(c)
             error == SuiteReadError(disk[name])
             next == [Step("records", c) EXCEPT !.record = 1]
  <2>1. /\ verdict = "running" /\ at.phase = "context" /\ UNCHANGED <<disk, total>>
        /\ SuiteRead(name)
        /\ Judge(IF error # NoError THEN error ELSE ContextError(c, disk[name]), next)
    BY <1>9, Zenon DEF ReadContext, In
  <2>2. c \in Campaigns
    BY <1>p, <2>1
  <2>3. name \in Entries
    BY <2>2, FilesAreEntries
  <2>4. ASSUME error # NoError PROVE verdict' = error
    <3>1. (IF error # NoError THEN error ELSE ContextError(c, disk[name])) = error
      BY <2>4
    <3> HIDE DEF error
    <3> QED BY <2>1, <2>4, <3>1, Judged
  <2>5. Accounts'
    BY <2>1, <2>3, <2>4, SuiteReadKeeps
  <2>6. Standing'
    <3>1. next = [phase |-> "records", campaign |-> c, record |-> 1]
      BY DEF Step
    <3>2. c \in Nat /\ 1 \in DOMAIN Policies
      BY <2>2, SuiteAssumption DEF Campaigns
    <3>3. ASSUME at' = next PROVE Standing'
      <4>1. /\ at' \in [phase : Phases, campaign : Nat, record : Nat]
            /\ at'.phase = "records" /\ at'.campaign = c /\ at'.record = 1
        BY <3>1, <3>2, <3>3 DEF Phases
      <4> QED BY <2>2, <3>2, <4>1 DEF Standing
    <3> QED BY <1>d, <2>1, <3>3, Judged
  <2> QED BY <1>0, <2>1, <2>5, <2>6, SizesStay DEF Inv
<1>10. CASE ReadRecordAgain
  <2> DEFINE c == at.campaign
             i == at.record
             name == Record(c, i)
             error == SuiteReadError(disk[name])
             next == IF i < Len(Policies) THEN [at EXCEPT !.record = i + 1]
                     ELSE Step("close", c)
  <2>1. /\ verdict = "running" /\ at.phase = "records" /\ UNCHANGED <<disk, total>>
        /\ SuiteRead(name)
        /\ Judge(IF error # NoError THEN error ELSE RecordAgainError(c, i, disk[name]), next)
    BY <1>10, Zenon DEF ReadRecordAgain, In
  <2>2. c \in Campaigns /\ i \in DOMAIN Policies
    BY <1>p, <2>1
  <2>3. name \in Entries
    BY <2>2, FilesAreEntries
  <2>4. ASSUME error # NoError PROVE verdict' = error
    <3>1. (IF error # NoError THEN error ELSE RecordAgainError(c, i, disk[name])) = error
      BY <2>4
    <3> HIDE DEF error
    <3> QED BY <2>1, <2>4, <3>1, Judged
  <2>5. Accounts'
    BY <2>1, <2>3, <2>4, SuiteReadKeeps
  <2>6. Standing'
    <3>1. CASE i < Len(Policies)
      <4>1. i + 1 \in DOMAIN Policies /\ i + 1 \in Nat
        BY <2>2, <3>1, SuiteAssumption
      <4>2. next = [at EXCEPT !.record = i + 1]
        BY <3>1
      <4>3. ASSUME at' = next PROVE Standing'
        <5>1. /\ at' \in [phase : Phases, campaign : Nat, record : Nat]
              /\ at'.campaign = c /\ at'.record = i + 1
          BY <1>0, <4>1, <4>2, <4>3 DEF Standing
        <5> QED BY <2>2, <4>1, <5>1 DEF Standing
      <4> QED BY <1>d, <2>1, <4>3, Judged
    <3>2. CASE ~(i < Len(Policies))
      <4>1. next = Step("close", c)
        BY <3>2
      <4>2. "close" \in Phases \ {"records"}
        BY DEF Phases
      <4> QED BY <2>1, <2>2, <4>1, <4>2, Judged, Places
    <3> QED BY <3>1, <3>2
  <2> QED BY <1>0, <2>1, <2>5, <2>6, SizesStay DEF Inv
<1>11. CASE CloseCampaign
  <2> DEFINE c == at.campaign
             next == IF c < Len(RetainCounts) THEN Step("types", c + 1) ELSE Step("accept", 0)
  <2>1. /\ verdict = "running" /\ at.phase = "close"
        /\ UNCHANGED <<disk, budget, consumed, total>>
        /\ Judge(CloseError(c), next)
    BY <1>11, Zenon DEF CloseCampaign, In
  <2>2. c \in Campaigns
    BY <1>p, <2>1
  <2>3. Standing'
    <3>1. CASE c < Len(RetainCounts)
      <4>1. c + 1 \in Campaigns
        BY <2>2, <3>1, SuiteAssumption DEF Campaigns
      <4>2. next = Step("types", c + 1)
        BY <3>1
      <4>3. "types" \in Phases \ {"records"}
        BY DEF Phases
      <4> QED BY <2>1, <4>1, <4>2, <4>3, Judged, Places
    <3>2. CASE ~(c < Len(RetainCounts))
      <4>1. next = Step("accept", 0)
        BY <3>2
      <4> QED BY <2>1, <4>1, Judged, Places
    <3> QED BY <3>1, <3>2
  <2> QED BY <1>0, <2>1, <2>3, QuietStep, SizesStay DEF Inv
<1>12. CASE Accept
  <2>1. /\ verdict = "running" /\ UNCHANGED <<disk, budget, consumed, total>>
        /\ at' = Step("done", 0)
    BY <1>12, Zenon DEF Accept, In
  <2> QED BY <1>0, <1>d, <2>1, QuietStep, SizesStay DEF Inv
<1>13. CASE Rewrite
  <2>1. /\ verdict = "running" /\ UNCHANGED <<at, budget, consumed, total>>
        /\ \E name \in Files : disk' = [disk EXCEPT ![name] = Plain(name, target)]
    BY <1>13, Zenon DEF Rewrite
  <2>2. PICK name \in Files : disk' = [disk EXCEPT ![name] = Plain(name, target)]
    BY <2>1
  <2>3. Plain(name, target).size = 1 /\ Plain(name, target).advertised = 1
    BY DEF Plain
  <2>4. Sizes'
    <3>1. /\ name \in Entries /\ DOMAIN disk' = Entries
          /\ disk'[name] = Plain(name, target)
          /\ \A e \in Entries : e # name => disk'[e] = disk[e]
      BY <1>0, <2>2, FilesAreEntries DEF Sizes
    <3> QED BY <1>0, <2>3, <3>1 DEF Sizes
  <2>5. Standing'
    BY <1>0, <2>1 DEF Standing
  <2> QED BY <2>1, <2>4, <2>5, QuietStep DEF Inv
<1>14. CASE UNCHANGED vars
  <2>1. UNCHANGED <<disk, at, budget, consumed, total, verdict>>
    BY <1>14 DEF vars
  <2>2. Accounts'
    <3>1. \A k : Spent(k)' = Spent(k)
      BY <2>1 DEF Spent
    <3>2. Spent(Len(consumed))' = Spent(Len(consumed))
      BY <2>1 DEF Spent
    <3> QED BY <1>0, <2>1, <3>1, <3>2 DEF Accounts
  <2> QED BY <1>0, <2>1, <2>2, SizesStay DEF Inv, Standing
<1> QED BY <1>1, <1>2, <1>3, <1>4, <1>5, <1>6, <1>7, <1>8, <1>9, <1>10, <1>11, <1>12,
           <1>13, <1>14 DEF Next, Verify

(* Where the verifier stands, the sizes of the files and the accounts of   *)
(* the budget are consistent at every step: as long as no read has failed, *)
(* what was spent and what remains are the budget it was given, and a read *)
(* that fails is the last.                                                 *)
THEOREM Invariance == Spec => []Inv
<1> QED BY InvInit, StepKeepsInv, PTL DEF Spec

(* The budget bounds the work whatever the files' metadata promised: a     *)
(* read goes at most one byte beyond what was allowed, and then it is the  *)
(* last one; what an accepted suite cost was within the budget.            *)
THEOREM BudgetAlwaysBoundsReading == Spec => []BudgetBoundsReading
<1>1. Inv => BudgetBoundsReading
  <2> SUFFICES ASSUME Accounts PROVE BudgetBoundsReading
    BY DEF Inv
  <2>1. /\ \A k \in DOMAIN consumed : consumed[k][2] <= PerFile + 1 /\ Spent(k) <= total + 1
        /\ consumed \in Seq(Reads) /\ total \in Nat /\ PerFile \in Nat
        /\ ~budget.failed =>
              \A k \in DOMAIN consumed : consumed[k][2] <= PerFile /\ Spent(k) <= total
        /\ budget.failed => verdict # "running" /\ verdict # "accepted"
    BY SuiteAssumption DEF Accounts
  <2>2. Spent(Len(consumed)) <= total + 1
    <3>1. CASE Len(consumed) = 0
      BY <2>1, <3>1 DEF Spent
    <3>2. CASE Len(consumed) # 0
      BY <2>1, <3>2
    <3> QED BY <3>1, <3>2
  <2>3. ASSUME NEW k \in DOMAIN consumed, consumed[k][2] > PerFile \/ Spent(k) > total
        PROVE  budget.failed
    <3> SUFFICES ASSUME ~budget.failed PROVE FALSE
      OBVIOUS
    <3>1. consumed[k] \in Reads /\ consumed[k][2] \in Nat
      BY <2>1 DEF Reads
    <3>2. k # 0 /\ Spent(k) = consumed[k][3] /\ Spent(k) \in Nat
      BY <2>1, <3>1 DEF Spent, Reads
    <3>3. consumed[k][2] <= PerFile /\ Spent(k) <= total
      BY <2>1
    <3> QED BY <2>1, <2>3, <3>1, <3>2, <3>3
  <2> QED BY <2>1, <2>2, <2>3 DEF BudgetBoundsReading
<1> QED BY <1>1, Invariance, PTL

----------------------------------------------------------------------------
(* The files of an export.                                                 *)

LEMMA VersionsAre ==
  ASSUME NEW name \in Files, NEW v \in Versions
  PROVE  VersionOf(name, v) \in Versions
<1>1. PICK S : S = {u \in Versions : Texts[name][u] = Texts[name][v]}
  OBVIOUS
<1>2. v \in S /\ S \subseteq Versions
  BY <1>1
<1>3. Versions \subseteq Nat
  BY SuiteAssumption DEF Versions
<1>4. \E x \in S : \A y \in S : x <= y
  BY <1>2, <1>3, LeastExists
<1>5. LowestOf(S) \in S
  BY <1>4 DEF LowestOf
<1>6. VersionOf(name, v) = LowestOf(S)
  BY <1>1 DEF VersionOf, SameTexts
<1> QED BY <1>2, <1>5, <1>6

LEMMA FreshVersions ==
  ASSUME NEW v \in Versions, NEW name \in Files
  PROVE  /\ Fresh(v)[name].version \in Versions
         /\ \A what \in Damages : Damaged(Fresh(v)[name], what).version \in Versions
<1>1. name \in Entries
  BY FilesAreEntries
<1>2. Fresh(v)[name] = Plain(name, v)
  BY <1>1 DEF Fresh
<1>3. PICK file : file = Fresh(v)[name]
  OBVIOUS
<1>4. "version" \in DOMAIN file /\ file.version = VersionOf(name, v)
  BY <1>2, <1>3 DEF Plain
<1>5. file.version \in Versions
  BY <1>4, VersionsAre
<1>6. ASSUME NEW what \in Damages PROVE Damaged(file, what).version \in Versions
  <2>1. Damaged(file, what)["version"] =
          IF "version" \in DOMAIN what THEN what["version"] ELSE file["version"]
    BY <1>4 DEF Damaged
  <2>2. "version" \notin DOMAIN what
    BY SuiteAssumption
  <2> QED BY <1>5, <2>1, <2>2
<1> QED BY <1>3, <1>5, <1>6

LEMMA ManifestTextIs ==
  ASSUME NEW c \in Campaigns, NEW v \in Versions
  PROVE  /\ Manifest(c) \in Files
         /\ Texts[Manifest(c)][v]
              = ExportedManifest(Specification(GenerationOf(v), c), MetricsOf(v))
<1>1. Manifest(c) \in PackFiles(c)
  BY Zenon DEF PackFiles
<1>2. PackFiles(c) \cup {Published(c)} \subseteq Files
  BY Zenon DEF Files
<1>3. PICK name : name = Manifest(c)
  OBVIOUS
<1>4. name[1] = c /\ name[2] = "manifest" /\ name \in Files
  BY <1>1, <1>2, <1>3 DEF Manifest
<1>5. TextOf(name, v) = ExportedManifest(Specification(GenerationOf(v), name[1]), MetricsOf(v))
  BY <1>4 DEF TextOf
<1>6. Texts[name][v] = TextOf(name, v)
  BY <1>4 DEF Texts
<1> QED BY <1>3, <1>4, <1>5, <1>6

(* A specification tells which contract it is of, and a digest what was    *)
(* digested.                                                               *)
LEMMA SpecificationTells ==
  ASSUME NEW g, NEW h, NEW c, Sha256(Specification(g, c)) = Sha256(Specification(h, c))
  PROVE  g = h
<1>1. PICK s : s = Specification(g, c)
  OBVIOUS
<1>2. PICK t : t = Specification(h, c)
  OBVIOUS
<1>3. s = t
  <2>1. Sha256(s) = Sha256(t)
    BY <1>1, <1>2
  <2> QED BY <2>1 DEF Sha256
<1>4. s.context = <<g, RetainCounts[c]>>
  BY <1>1 DEF Specification
<1>5. t.context = <<h, RetainCounts[c]>>
  BY <1>2 DEF Specification
<1> QED BY <1>3, <1>4, <1>5

LEMMA OtherGeneration == GenerationOf(0) # Generation
BY DEF GenerationOf

----------------------------------------------------------------------------
(* Packs.                                                                  *)

(* A pack without an error holds, under every name its manifest lists, the *)
(* record whose digest the manifest states.                                *)
LEMMA PlaceIsDigested ==
  ASSUME NEW manifest, NEW campaign, NEW files, NEW i,
         RecordPlaceError(manifest, campaign, files, i) = NoError
  PROVE  Sha256(files[manifest.records[i].filename]) = manifest.records[i].sha256
<1>1. PICK record : record = files[manifest.records[i].filename]
  OBVIOUS
<1>2. PICK digest : digest = manifest.records[i].sha256
  OBVIOUS
<1>3. PICK early : early = FirstError(DescriptorChecks(manifest, campaign, files, i))
  OBVIOUS
<1>4. PICK raw : raw = RawRecordChecks(record, campaign, campaign.selections[i], manifest)
  OBVIOUS
<1>5. PICK a : a = <<Sha256(record) # digest, "RecordDigestMismatch">>
  OBVIOUS
<1>6. PICK z : z = <<PositionRecordError(record) # NoError, "Evidence">>
  OBVIOUS
<1>7. RecordPlaceError(manifest, campaign, files, i)
        = IF early # NoError THEN early ELSE FirstError(<<a>> \o raw \o <<z>>)
  BY <1>1, <1>2, <1>3, <1>4, <1>5, <1>6, Zenon DEF RecordPlaceError
<1>8. FirstError(<<a>> \o raw \o <<z>>) = NoError
  BY <1>7
<1>9. PICK x1, x2, x3, x4 : raw = <<x1, x2, x3, x4>>
  BY <1>4, Zenon DEF RawRecordChecks
<1>10. PICK w : w = <<a>> \o raw \o <<z>>
  OBVIOUS
<1>11. DOMAIN w \subseteq Nat \ {0} /\ 1 \in DOMAIN w /\ w[1] = a
  <2>1. w = <<a>> \o <<x1, x2, x3, x4>> \o <<z>>
    BY <1>9, <1>10
  <2> QED BY <2>1, OneFourOne
<1>12. FirstError(w) = NoError
  BY <1>8, <1>10
<1>13. a[2] # NoError /\ (a[1] <=> Sha256(record) # digest)
  BY <1>5 DEF NoError
<1>14. ~w[1][1]
  BY <1>11, <1>12, <1>13, FirstCheckPasses, Zenon
<1> QED BY <1>1, <1>2, <1>11, <1>13, <1>14

LEMMA PlacesAreGood ==
  ASSUME NEW manifest, NEW campaign, NEW files, DOMAIN manifest.records \subseteq Nat,
         PackError(manifest, campaign, files) = NoError
  PROVE  \A i \in DOMAIN manifest.records :
           RecordPlaceError(manifest, campaign, files, i) = NoError
<1>1. PICK early : early = FirstError(ManifestChecks(manifest) \o CampaignChecks(manifest, campaign))
  OBVIOUS
<1>2. PICK places : places = [i \in DOMAIN manifest.records |->
                                RecordPlaceError(manifest, campaign, files, i)]
  OBVIOUS
<1>3. PICK names : names = {manifest.records[i].filename : i \in DOMAIN manifest.records}
  OBVIOUS
<1>4. PackError(manifest, campaign, files)
        = IF early # NoError THEN early
          ELSE IF FirstOf(places) # NoError THEN FirstOf(places)
          ELSE IF DOMAIN files \subseteq names THEN NoError ELSE "UnexpectedFile"
  BY <1>1, <1>2, <1>3, Zenon DEF PackError
<1>5. FirstOf(places) = NoError
  BY <1>4
<1>6. DOMAIN places = DOMAIN manifest.records
  BY <1>2
<1>7. \A i \in DOMAIN places : places[i] = NoError
  BY <1>5, <1>6, NoneOf
<1> QED BY <1>2, <1>6, <1>7

(* Packs that list and hold the same records observed the same.            *)
LEMMA SameObservations ==
  ASSUME NEW m1, NEW f1, NEW m2, NEW f2, m1.records = m2.records,
         \A i \in DOMAIN m1.records :
           f1[m1.records[i].filename] = f2[m1.records[i].filename]
  PROVE  PackSummary(VerifiedPack(m1, f1)).observations
           = PackSummary(VerifiedPack(m2, f2)).observations
<1> DEFINE Observed(records) ==
      [i \in DOMAIN records |->
         LET record == records[i]
         IN  [policy |-> record.outcome.policy, positions |-> record.outcome.positions,
              retainedBytes |-> record.outcome.retainedBytes,
              evictedBytes |-> record.outcome.evictedBytes, metrics |-> record.metrics]]
<1>1. ASSUME NEW pack PROVE PackSummary(pack).observations = Observed(pack.records)
  BY Zenon DEF PackSummary
<1>2. ASSUME NEW m, NEW f
      PROVE  VerifiedPack(m, f).records
               = [i \in DOMAIN m.records |-> PositionRecord(f[m.records[i].filename])]
  BY Zenon DEF VerifiedPack
<1>3. [i \in DOMAIN m1.records |-> PositionRecord(f1[m1.records[i].filename])]
        = [i \in DOMAIN m2.records |-> PositionRecord(f2[m2.records[i].filename])]
  <2> HIDE DEF Observed
  <2>1. \A i \in DOMAIN m1.records :
          PositionRecord(f1[m1.records[i].filename]) = PositionRecord(f2[m2.records[i].filename])
    OBVIOUS
  <2> QED BY <2>1
<1>4. VerifiedPack(m1, f1).records = VerifiedPack(m2, f2).records
  <2>1. VerifiedPack(m1, f1).records
          = [i \in DOMAIN m1.records |-> PositionRecord(f1[m1.records[i].filename])]
    BY <1>2
  <2>2. VerifiedPack(m2, f2).records
          = [i \in DOMAIN m2.records |-> PositionRecord(f2[m2.records[i].filename])]
    BY <1>2
  <2> QED BY <1>3, <2>1, <2>2
<1> HIDE DEF Observed
<1> QED BY <1>1, <1>4, Zenon

(* The fields of a summary that come from the manifest.                    *)
LEMMA SummaryStates ==
  ASSUME NEW m, NEW f
  PROVE  PackSummary(VerifiedPack(m, f)).campaignDigest = m.campaignDigest
BY Zenon DEF PackSummary, VerifiedPack

(* An export: the digest and the records its manifest states, and the      *)
(* files that hold these records.                                          *)
LEMMA ManifestStates ==
  ASSUME NEW spec, NEW metrics, NEW m0, m0 = ExportedManifest(spec, metrics)
  PROVE  /\ m0.campaignDigest = Sha256(spec)
         /\ {"campaignDigest", "records"} \subseteq DOMAIN m0
<1>1. PICK digest : digest = Sha256(spec)
  OBVIOUS
<1>2. PICK trace : trace = TraceDigest(spec)
  OBVIOUS
<1>3. PICK records : records =
        [i \in DOMAIN spec.selections |->
           [index |-> i - 1, policy |-> spec.selections[i].policy,
            filename |-> FileName(i - 1),
            sha256 |-> Sha256(ExportedRecord(spec, i, metrics[i]))]]
  OBVIOUS
<1>4. m0 = [form |-> "good", evidenceSchema |-> "v2", campaignDigest |-> digest,
            traceDigest |-> trace, records |-> records]
  BY <1>1, <1>2, <1>3, Zenon DEF ExportedManifest
<1> QED BY <1>1, <1>4

LEMMA RecordsStated ==
  ASSUME NEW spec, NEW metrics, DOMAIN spec.selections \subseteq Nat
  PROVE  /\ DOMAIN ExportedManifest(spec, metrics).records = DOMAIN spec.selections
         /\ \A i \in DOMAIN spec.selections :
              LET r == ExportedManifest(spec, metrics).records[i]
              IN  /\ r.filename = FileName(i - 1)
                  /\ r.sha256 = Sha256(ExportedRecord(spec, i, metrics[i]))
                  /\ ExportedFiles(spec, metrics)[r.filename]
                       = ExportedRecord(spec, i, metrics[i])
<1>1. ExportedManifest(spec, metrics).records =
        [i \in DOMAIN spec.selections |->
           [index |-> i - 1, policy |-> spec.selections[i].policy,
            filename |-> FileName(i - 1),
            sha256 |-> Sha256(ExportedRecord(spec, i, metrics[i]))]]
  BY Zenon DEF ExportedManifest
<1>2. PICK records : records = ExportedManifest(spec, metrics).records
  OBVIOUS
<1>3. DOMAIN records = DOMAIN spec.selections
  BY <1>1, <1>2
<1>4. PICK files : files = ExportedFiles(spec, metrics)
  OBVIOUS
<1>5. files = [name \in {FileName(i - 1) : i \in DOMAIN spec.selections} |->
                 ExportedRecord(spec, name[2] + 1, metrics[name[2] + 1])]
  BY <1>4, Zenon DEF ExportedFiles
<1>6. ASSUME NEW i \in DOMAIN spec.selections
      PROVE  /\ records[i].filename = FileName(i - 1)
             /\ records[i].sha256 = Sha256(ExportedRecord(spec, i, metrics[i]))
             /\ files[records[i].filename] = ExportedRecord(spec, i, metrics[i])
  <2>1. records[i] = [index |-> i - 1, policy |-> spec.selections[i].policy,
                      filename |-> FileName(i - 1),
                      sha256 |-> Sha256(ExportedRecord(spec, i, metrics[i]))]
    BY <1>1, <1>2, Zenon
  <2>2. PICK name : name = FileName(i - 1)
    OBVIOUS
  <2>3. PICK digest : digest = Sha256(ExportedRecord(spec, i, metrics[i]))
    OBVIOUS
  <2>4. records[i].filename = name /\ records[i].sha256 = digest
    BY <2>1, <2>2, <2>3
  <2>5. name[2] + 1 = i
    BY <2>2 DEF FileName
  <2>6. name \in {FileName(k - 1) : k \in DOMAIN spec.selections}
    BY <2>2
  <2>7. files[name] = ExportedRecord(spec, name[2] + 1, metrics[name[2] + 1])
    BY <1>5, <2>6, Zenon
  <2> QED BY <2>2, <2>3, <2>4, <2>5, <2>7
<1> QED BY <1>2, <1>3, <1>4, <1>6

LEMMA SpecificationSelects ==
  ASSUME NEW c, NEW g
  PROVE  DOMAIN Specification(g, c).selections = DOMAIN Policies /\ DOMAIN Policies \subseteq Nat
<1>1. Specification(g, c).selections
        = [i \in DOMAIN Policies |-> [policy |-> Policies[i], positions |-> PositionsKept(c, i)]]
  BY Zenon DEF Specification
<1> QED BY <1>1, SuiteAssumption

(* A pack the verifier has nothing against is one export of the            *)
(* specification the contract pins.                                        *)
LEMMA PinnedPack ==
  ASSUME NEW c \in Campaigns, NEW files, files[Manifest(c)].version \in Versions,
         PackVerdict(c, files) = NoError
  PROVE  /\ SummaryOf(c, files).campaignDigest = Sha256(Specification(Generation, c))
         /\ \E v \in Versions \ {0} :
              LET spec == Specification(Generation, c)
              IN  /\ PackManifest(c, files).records
                       = ExportedManifest(spec, MetricsOf(v)).records
                  /\ \A i \in DOMAIN Policies :
                       LET name == PackManifest(c, files).records[i].filename
                       IN  /\ name = FileName(i - 1)
                           /\ PackRecords(c, files)[name]
                                = ExportedRecord(spec, i, MetricsOf(v)[i])
<1>1. PICK v \in Versions : v = files[Manifest(c)].version
  OBVIOUS
<1>2. PICK form : form = files[Manifest(c)].form
  OBVIOUS
<1>3. PICK spec : spec = Specification(GenerationOf(v), c)
  OBVIOUS
<1>4. PICK m : m = PackManifest(c, files)
  OBVIOUS
<1>5. PICK campaign : campaign = PackCampaign(c, files)
  OBVIOUS
<1>6. PICK records : records = PackRecords(c, files)
  OBVIOUS
<1>0. PICK m0 : m0 = ExportedManifest(spec, MetricsOf(v))
  OBVIOUS
<1>7. m = [m0 EXCEPT !.form = form]
  <2>1. PICK file : file = files[Manifest(c)]
    OBVIOUS
  <2>2. m = Text(Manifest(c), file)
    BY <1>4, <2>1 DEF PackManifest
  <2>3. Text(Manifest(c), file) = [Texts[Manifest(c)][v] EXCEPT !.form = form]
    BY <1>1, <1>2, <2>1, Zenon DEF Text
  <2> QED BY <1>0, <1>3, <2>2, <2>3, ManifestTextIs
<1>8. m.campaignDigest = Sha256(spec) /\ m.records = m0.records
  <2>1. m0.campaignDigest = Sha256(spec) /\ {"campaignDigest", "records"} \subseteq DOMAIN m0
    BY <1>0, ManifestStates
  <2>2. m.campaignDigest = m0.campaignDigest /\ m.records = m0.records
    BY <1>7, <2>1
  <2> QED BY <2>1, <2>2
<1>9. PICK summary : summary = SummaryOf(c, files)
  OBVIOUS
<1>10. summary = PackSummary(VerifiedPack(m, records))
  BY <1>4, <1>6, <1>9, Zenon DEF SummaryOf
<1>11. summary.campaignDigest = Sha256(spec)
  BY <1>8, <1>10, SummaryStates
<1>12. PackError(m, campaign, records) = NoError
       /\ summary.campaignDigest = Contract(Generation).digests[c]
  <2>1. "CampaignVerification" # NoError
    BY DEF NoError
  <2> QED BY <1>4, <1>5, <1>6, <1>9, <2>1, Zenon DEF PackVerdict
<1>13. Contract(Generation).digests[c] = Sha256(Specification(Generation, c))
  <2>1. Contract(Generation).digests = [d \in Campaigns |-> Sha256(Specification(Generation, d))]
    BY DEF Contract
  <2> QED BY <2>1
<1>14. GenerationOf(v) = Generation
  <2>1. Sha256(Specification(GenerationOf(v), c)) = Sha256(Specification(Generation, c))
    BY <1>3, <1>11, <1>12, <1>13
  <2> QED BY <2>1, SpecificationTells
<1>15. v # 0 /\ spec = Specification(Generation, c)
  BY <1>3, <1>14, OtherGeneration
<1>16. DOMAIN spec.selections = DOMAIN Policies /\ DOMAIN Policies \subseteq Nat
  BY <1>15, SpecificationSelects
<1>17. \A i \in DOMAIN Policies :
         /\ m.records[i].filename = FileName(i - 1)
         /\ records[m.records[i].filename] = ExportedRecord(spec, i, MetricsOf(v)[i])
  <2>1. \A i \in DOMAIN m.records : Sha256(records[m.records[i].filename]) = m.records[i].sha256
    <3>1. DOMAIN m.records \subseteq Nat
      BY <1>0, <1>8, <1>16, RecordsStated
    <3> QED BY <1>12, <3>1, PlacesAreGood, PlaceIsDigested
  <2> TAKE i \in DOMAIN Policies
  <2>2. i \in DOMAIN m.records /\ i \in DOMAIN spec.selections
    BY <1>0, <1>8, <1>16, RecordsStated
  <2>3. PICK r : r = m.records[i]
    OBVIOUS
  <2>4. r = m0.records[i]
    BY <1>8, <2>3
  <2>5. PICK text : text = ExportedRecord(spec, i, MetricsOf(v)[i])
    OBVIOUS
  <2>6. r.sha256 = Sha256(text) /\ r.filename = FileName(i - 1)
    BY <1>0, <1>16, <2>2, <2>4, <2>5, RecordsStated
  <2>7. PICK mine : mine = records[r.filename]
    OBVIOUS
  <2>8. Sha256(mine) = Sha256(text)
    BY <2>1, <2>2, <2>3, <2>6, <2>7
  <2>9. mine = text
    BY <2>8 DEF Sha256
  <2> QED BY <2>3, <2>5, <2>6, <2>7, <2>9
<1> QED BY <1>0, <1>4, <1>6, <1>8, <1>9, <1>11, <1>12, <1>13, <1>15, <1>17

LEMMA AcceptedPack ==
  ASSUME NEW c \in Campaigns, NEW files, files[Manifest(c)].version \in Versions,
         PackVerdict(c, files) = NoError
  PROVE  /\ SummaryOf(c, files).campaignDigest = Sha256(Specification(Generation, c))
         /\ \E v \in Versions \ {0} :
              SummaryOf(c, files).observations
                = PackSummary(VerifiedPack(
                    ExportedManifest(Specification(Generation, c), MetricsOf(v)),
                    ExportedFiles(Specification(Generation, c), MetricsOf(v)))).observations
<1>1. PICK spec : spec = Specification(Generation, c)
  OBVIOUS
<1>2. PICK m : m = PackManifest(c, files)
  OBVIOUS
<1>3. PICK records : records = PackRecords(c, files)
  OBVIOUS
<1>4. PICK v \in Versions \ {0} :
        /\ m.records = ExportedManifest(spec, MetricsOf(v)).records
        /\ \A i \in DOMAIN Policies :
             records[m.records[i].filename] = ExportedRecord(spec, i, MetricsOf(v)[i])
  BY <1>1, <1>2, <1>3, PinnedPack
<1>5. DOMAIN spec.selections = DOMAIN Policies /\ DOMAIN Policies \subseteq Nat
  BY <1>1, SpecificationSelects
<1>6. PICK m0 : m0 = ExportedManifest(spec, MetricsOf(v))
  OBVIOUS
<1>7. PICK f0 : f0 = ExportedFiles(spec, MetricsOf(v))
  OBVIOUS
<1>8. \A i \in DOMAIN m.records : records[m.records[i].filename] = f0[m.records[i].filename]
  <2> TAKE i \in DOMAIN m.records
  <2>1. i \in DOMAIN Policies
    BY <1>4, <1>5, RecordsStated
  <2>2. f0[m.records[i].filename] = ExportedRecord(spec, i, MetricsOf(v)[i])
    BY <1>4, <1>5, <1>7, <2>1, RecordsStated
  <2> QED BY <1>4, <2>1, <2>2
<1>9. PackSummary(VerifiedPack(m, records)).observations
        = PackSummary(VerifiedPack(m0, f0)).observations
  BY <1>4, <1>6, <1>8, SameObservations
<1>10. SummaryOf(c, files) = PackSummary(VerifiedPack(m, records))
  BY <1>2, <1>3, Zenon DEF SummaryOf
<1> QED BY <1>1, <1>6, <1>7, <1>9, <1>10, PinnedPack

----------------------------------------------------------------------------
(* No error is the verdict that accepts.                                   *)

NotAccepting == SuiteErrors \cup {NoError}

LEMMA FirstOfBoth ==
  ASSUME NEW e \in NotAccepting, NEW f \in NotAccepting
  PROVE  FirstOf(<<e, f>>) \in NotAccepting
<1>1. CASE e # NoError
  BY <1>1, FirstOfTwo
<1>2. CASE e = NoError /\ f # NoError
  BY <1>2, FirstOfTwo
<1>3. CASE e = NoError /\ f = NoError
  <2>1. PICK w : w = <<e, f>>
    OBVIOUS
  <2>2. DOMAIN w = 1 .. 2 /\ \A i \in DOMAIN w : w[i] \in NotAccepting
    BY <2>1
  <2>3. FirstOf(w) \in NotAccepting \cup {NoError}
    BY <2>2, FirstOfAmong
  <2> QED BY <2>1, <2>3 DEF NotAccepting
<1> QED BY <1>1, <1>2, <1>3

LEMMA DirectoryErrors == DirectoryError \in NotAccepting
<1>1. PICK p1, p2, p3 :
        DirectoryError = FirstError(<< <<p1, "UnexpectedEntry">>, <<p2, "EntryTypeMismatch">>,
                                       <<p3, "InvalidManifest">> >>)
  BY Zenon DEF DirectoryError
<1>2. {"UnexpectedEntry", "EntryTypeMismatch", "InvalidManifest"} \subseteq SuiteErrors
  BY DEF SuiteErrors
<1> QED BY <1>1, <1>2, OneOfThree DEF NotAccepting

LEMMA EntryTypesErrors == ASSUME NEW c PROVE EntryTypesError(c) \in NotAccepting
<1>1. PICK p1, p2 :
        EntryTypesError(c) = FirstError(<< <<p1, "InvalidManifest">>,
                                           <<p2, "EntryTypeMismatch">> >>)
  BY Zenon DEF EntryTypesError
<1>2. {"InvalidManifest", "EntryTypeMismatch"} \subseteq SuiteErrors
  BY DEF SuiteErrors
<1> QED BY <1>1, <1>2, OneOfTwo DEF NotAccepting

LEMMA SuiteReadErrors == ASSUME NEW file PROVE SuiteReadError(file) \in NotAccepting
<1>1. PICK p1, p2 :
        RegularFileError(file) = FirstError(<< <<p1, "Io">>, <<p2, "EntryTypeMismatch">> >>)
  BY Zenon DEF RegularFileError
<1>2. {"Io", "EntryTypeMismatch"} \subseteq SuiteErrors
  BY DEF SuiteErrors
<1>3. RegularFileError(file) \in NotAccepting
  BY <1>1, <1>2, OneOfTwo DEF NotAccepting
<1>4. PICK e : e = IF ReadError(file) # NoError THEN "Io" ELSE NoError
  OBVIOUS
<1>5. e \in NotAccepting
  BY <1>2, <1>4 DEF NotAccepting
<1>6. SuiteReadError(file) = FirstOf(<<RegularFileError(file), e>>)
  BY <1>4, Zenon DEF SuiteReadError
<1> QED BY <1>3, <1>5, <1>6, FirstOfBoth

LEMMA ContextErrors == ASSUME NEW c, NEW file PROVE ContextError(c, file) \in NotAccepting
<1>1. PICK p1, p2, p3 :
        ContextError(c, file)
          = FirstError(<< <<p1, "Json">>, <<p2, "CampaignVerification">>,
                          <<p3, "BudgetMismatch">> >>)
  BY Zenon DEF ContextError
<1>2. {"Json", "CampaignVerification", "BudgetMismatch"} \subseteq SuiteErrors
  BY DEF SuiteErrors
<1> QED BY <1>1, <1>2, OneOfThree DEF NotAccepting

LEMMA CloseErrors == ASSUME NEW c PROVE CloseError(c) \in NotAccepting
<1>1. PICK p1, p2, p3, p4, p5 :
        CloseError(c)
          = FirstError(<< <<p1, "ComparisonInvalid">>, <<p2, "BudgetMismatch">>,
                          <<p3, "CrossCampaignBaselineMismatch">>,
                          <<p4, "CrossCampaignTraceMismatch">>, <<p5, "BudgetMismatch">> >>)
  BY Zenon DEF CloseError
<1>2. {"ComparisonInvalid", "BudgetMismatch", "CrossCampaignBaselineMismatch",
       "CrossCampaignTraceMismatch"} \subseteq SuiteErrors
  BY DEF SuiteErrors
<1> QED BY <1>1, <1>2, OneOfFive, SMTT(30) DEF NotAccepting

LEMMA OtherErrors ==
  ASSUME NEW c, NEW files, NEW file, NEW i
  PROVE  /\ PublishedError(c, file) \in NotAccepting
         /\ RecordAgainError(c, i, file) \in NotAccepting
         /\ PackVerdict(c, files) \in NotAccepting
<1>1. {"PublishedVerificationMismatch", "ComparisonInvalid", "CampaignVerification", NoError}
        \subseteq NotAccepting
  BY DEF NotAccepting, SuiteErrors
<1>2. PublishedError(c, file) \in NotAccepting
  BY <1>1, Zenon DEF PublishedError
<1>3. RecordAgainError(c, i, file) \in NotAccepting
  BY <1>1, Zenon DEF RecordAgainError
<1>4. PackVerdict(c, files) \in NotAccepting
  BY <1>1, Zenon DEF PackVerdict
<1> QED BY <1>2, <1>3, <1>4

LEMMA SuiteManifestErrors ==
  ASSUME NEW manifest PROVE SuiteManifestError(manifest) \in NotAccepting
<1>0. PICK entries :
        entries = [c \in Campaigns |-> FirstError(ManifestEntryChecks(manifest, c))]
  OBVIOUS
<1>1. PICK first :
        first = FirstError(
          << <<manifest.form = "noncanonical", "NonCanonicalManifest">>,
             <<manifest.form = "shape", "Json">>,
             <<manifest.form = "schema" \/ manifest.schema # Contract(Generation).schema,
               "UnsupportedSchema">>,
             <<manifest.provenance # Contract(Generation).provenance, "ProvenanceMismatch">>,
             <<manifest.bytesPerToken # BytesPerToken, "ProvenanceMismatch">>,
             <<Len(manifest.campaigns) # Len(RetainCounts), "InvalidManifest">> >>)
  OBVIOUS
<1>2. {"NonCanonicalManifest", "Json", "UnsupportedSchema", "ProvenanceMismatch",
       "InvalidManifest"} \subseteq SuiteErrors
  BY DEF SuiteErrors
<1>3. SuiteManifestError(manifest) = FirstOf(<<first>> \o entries)
  BY <1>0, <1>1, Zenon DEF SuiteManifestError
<1>4. first \in NotAccepting
  <2>1. PICK p1, p2, p3, p4, p5, p6 :
          first = FirstError(
              << <<p1, "NonCanonicalManifest">>, <<p2, "Json">>, <<p3, "UnsupportedSchema">>,
                 <<p4, "ProvenanceMismatch">>, <<p5, "ProvenanceMismatch">>,
                 <<p6, "InvalidManifest">> >>)
    BY <1>1, ZenonT(60)
  <2>2. PICK E : E = SuiteErrors
    OBVIOUS
  <2>3. /\ "NonCanonicalManifest" \in E /\ "Json" \in E /\ "UnsupportedSchema" \in E
        /\ "ProvenanceMismatch" \in E /\ "InvalidManifest" \in E
    BY <1>2, <2>2
  <2>4. FirstError(
          << <<p1, "NonCanonicalManifest">>, <<p2, "Json">>, <<p3, "UnsupportedSchema">>,
             <<p4, "ProvenanceMismatch">>, <<p5, "ProvenanceMismatch">>,
             <<p6, "InvalidManifest">> >>) \in E \cup {NoError}
    BY <2>3, OneOfSix, SMTT(30)
  <2> QED BY <2>1, <2>2, <2>4 DEF NotAccepting
<1>5. ASSUME NEW c PROVE FirstError(ManifestEntryChecks(manifest, c)) \in NotAccepting
  <2>1. PICK q1, q2, q3, q4 :
          ManifestEntryChecks(manifest, c)
            = << <<q1, "InvalidManifest">>, <<q2, "ProvenanceMismatch">>,
                 <<q3, "InvalidManifest">>, <<q4, "InvalidManifest">> >>
    BY Zenon DEF ManifestEntryChecks
  <2> QED BY <1>2, <2>1, OneOfFour DEF NotAccepting
<1>6. entries \in Seq(NotAccepting)
  <2>1. PICK n \in Nat : Campaigns = 1 .. n
    BY SuiteAssumption DEF Campaigns
  <2>2. entries \in [1 .. n -> NotAccepting]
    BY <1>0, <1>5, <2>1
  <2> QED BY <2>2
<1>7. PICK errors : errors = <<first>> \o entries
  OBVIOUS
<1>8. errors \in Seq(NotAccepting)
  BY <1>4, <1>6, <1>7
<1>9. FirstOf(errors) \in NotAccepting \cup {NoError}
  BY <1>8, FirstOfAmong
<1> QED BY <1>3, <1>7, <1>9 DEF NotAccepting

----------------------------------------------------------------------------
(* What was found of the packs.                                            *)

(* Every file of the directory is one of an export, damaged or not.        *)
Known == target \in Versions /\ \A name \in Files : disk[name].version \in Versions

(* The manifest of a campaign is among what was read of it.                *)
Filed(c, files) == Manifest(c) \in DOMAIN files /\ files[Manifest(c)].version \in Versions

(* A finished pack: nothing was found against it.                          *)
Passed(c, files) == Filed(c, files) /\ PackVerdict(c, files) = NoError

(* What was read of the present pack, and what was found of it.            *)
Gathered ==
  /\ at.phase \in {"campaign", "evidence"} => Filed(at.campaign, got)
  /\ at.phase \in {"published", "context", "records", "close"} => Passed(at.campaign, got)

(* The packs are closed in order.                                          *)
Counted ==
  /\ at.phase \in {"suite", "list"} => Len(closed) = 0
  /\ at.phase \notin {"suite", "list", "accept", "done"} => at.campaign = Len(closed) + 1
  /\ at.phase = "accept" \/ verdict = "accepted" => Len(closed) = Len(RetainCounts)

Archived ==
  /\ closed \in Seq(Elements(closed))
  /\ \A k \in DOMAIN closed : Passed(k, closed[k].got)

Progress == Known /\ Gathered /\ Counted /\ Archived

LEMMA ProgressInit == Init => Progress
<1> SUFFICES ASSUME Init PROVE Progress
  OBVIOUS
<1>1. Known
  <2>1. \A v \in Versions : \A name \in Files :
          /\ Fresh(v)[name].version \in Versions
          /\ \A what \in Damages : Damaged(Fresh(v)[name], what).version \in Versions
    BY FreshVersions
  <2>2. CASE \E pair \in Rewrites : disk = Fresh(pair[1]) /\ target = pair[2]
    <3>1. PICK pair \in Rewrites : disk = Fresh(pair[1]) /\ target = pair[2]
      BY <2>2
    <3>2. pair[1] \in Versions /\ pair[2] \in Versions
      BY SuiteAssumption DEF Versions
    <3> QED BY <2>1, <3>1, <3>2 DEF Known
  <2>3. CASE /\ target = 1
             /\ \E name \in Entries, what \in Damages :
                  disk = [Fresh(1) EXCEPT ![name] = Damaged(@, what)]
    <3>1. PICK name \in Entries, what \in Damages :
                 disk = [Fresh(1) EXCEPT ![name] = Damaged(@, what)]
      BY <2>3
    <3>2. 1 \in Versions
      BY SuiteAssumption DEF Versions
    <3>3. /\ disk[name] = Damaged(Fresh(1)[name], what)
          /\ \A e \in Entries : e # name => disk[e] = Fresh(1)[e]
      BY <3>1, FreshSizes
    <3>4. \A e \in Files : disk[e].version \in Versions
      BY <2>1, <3>2, <3>3, FilesAreEntries
    <3> QED BY <2>3, <3>2, <3>4 DEF Known
  <2> QED BY <2>2, <2>3 DEF Init
<1>2. at = [phase |-> "suite", campaign |-> 0, record |-> 0] /\ closed = << >>
      /\ verdict = "running"
  BY DEF Init, Step
<1>3. at.phase = "suite"
  BY <1>2
<1>4. Gathered
  BY <1>3 DEF Gathered
<1>5. Counted
  BY <1>2, <1>3 DEF Counted
<1>6. Archived
  BY <1>2 DEF Archived, Elements
<1> QED BY <1>1, <1>4, <1>5, <1>6 DEF Progress

----------------------------------------------------------------------------
(* What the steps have in common.                                          *)

LEMMA KnownStays == Known /\ UNCHANGED <<disk, target>> => Known'
BY DEF Known

LEMMA ArchivedStays == Archived /\ UNCHANGED closed => Archived'
BY DEF Archived, Elements, Passed, Filed

(* A judgement lets the verifier go on or ends it, and never accepts.      *)
LEMMA JudgedWell ==
  ASSUME NEW error \in NotAccepting, NEW next, Judge(error, next), verdict = "running"
  PROVE  /\ verdict' # "accepted"
         /\ \/ error = NoError /\ at' = next
            \/ error # NoError /\ at' = Step("done", 0)
BY DEF NotAccepting, SuiteErrors, Judge

(* Once it has ended there is nothing to tell...                           *)
LEMMA Ended ==
  ASSUME at' = Step("done", 0), verdict' # "accepted"
  PROVE  Gathered' /\ Counted'
<1>1. at' = [phase |-> "done", campaign |-> 0, record |-> 0]
  BY DEF Step
<1>2. at'.phase = "done"
  BY <1>1
<1> QED BY <1>2 DEF Gathered, Counted

(* ... and in a campaign there is what its phase asks for.                 *)
LEMMA InCampaign ==
  ASSUME at'.phase \notin {"suite", "list", "accept", "done"},
         at'.campaign = Len(closed) + 1, UNCHANGED closed, verdict' # "accepted",
         at'.phase \in {"campaign", "evidence"} => Filed(at'.campaign, got'),
         at'.phase \in {"published", "context", "records", "close"}
           => Passed(at'.campaign, got')
  PROVE  Gathered' /\ Counted'
BY DEF Gathered, Counted, Passed, Filed

(* A read of the pack's verifier.                                          *)
LEMMA PackReadTells ==
  ASSUME NEW name, NEW next, PackRead(name, next), verdict = "running", Known, Archived
  PROVE  /\ Known' /\ Archived' /\ UNCHANGED closed /\ verdict' # "accepted"
         /\ \/ at' = Step("done", 0)
            \/ /\ at' = next
               /\ got' = [n \in DOMAIN got \cup {name} |-> IF n = name THEN disk[name] ELSE got[n]]
<1>1. PICK error : error = IF ReadError(disk[name]) # NoError THEN "CampaignVerification"
                           ELSE NoError
  OBVIOUS
<1>2. /\ Judge(error, next) /\ UNCHANGED <<disk, target, closed>>
      /\ got' = IF ReadError(disk[name]) # NoError THEN got
                ELSE [n \in DOMAIN got \cup {name} |-> IF n = name THEN disk[name] ELSE got[n]]
  BY <1>1, Zenon DEF PackRead
<1>3. error \in NotAccepting /\ (error = NoError <=> ReadError(disk[name]) = NoError)
  BY <1>1 DEF NotAccepting, SuiteErrors, NoError
<1>4. /\ verdict' # "accepted"
      /\ \/ error = NoError /\ at' = next
         \/ error # NoError /\ at' = Step("done", 0)
  BY <1>2, <1>3, JudgedWell
<1>5. Known' /\ Archived'
  BY <1>2, KnownStays, ArchivedStays
<1> QED BY <1>2, <1>3, <1>4, <1>5

LEMMA FiledStays ==
  ASSUME Known, NEW c \in Campaigns, NEW name, Filed(c, got) \/ name = Manifest(c),
         got' = [n \in DOMAIN got \cup {name} |-> IF n = name THEN disk[name] ELSE got[n]]
  PROVE  Filed(c, got')
<1>1. disk[Manifest(c)].version \in Versions
  <2>1. 0 \in Versions
    BY DEF Versions
  <2>2. Manifest(c) \in Files
    BY <2>1, ManifestTextIs
  <2> QED BY <2>2 DEF Known
<1>2. PICK manifest : manifest = Manifest(c)
  OBVIOUS
<1>3. manifest \in DOMAIN got \cup {name} /\ DOMAIN got' = DOMAIN got \cup {name}
  BY <1>2 DEF Filed
<1>4. got'[manifest] = IF manifest = name THEN disk[name] ELSE got[manifest]
  BY <1>3
<1> QED BY <1>1, <1>2, <1>3, <1>4 DEF Filed

LEMMA SeqOfElements ==
  ASSUME NEW S, NEW q \in Seq(S)
  PROVE  q \in Seq(Elements(q))
<1>1. PICK n \in Nat : n = Len(q) /\ DOMAIN q = 1 .. n
  OBVIOUS
<1>2. q \in [1 .. n -> Elements(q)]
  BY <1>1 DEF Elements
<1> QED BY <1>2

LEMMA ArchivedGrows ==
  ASSUME Archived, NEW r, closed' = Append(closed, r), Passed(Len(closed) + 1, r.got)
  PROVE  Archived' /\ Len(closed') = Len(closed) + 1
<1>1. PICK S : S = Elements(closed) \cup {r}
  OBVIOUS
<1>2. closed \in Seq(S) /\ r \in S
  BY <1>1 DEF Archived
<1>3. PICK n : n = Len(closed)
  OBVIOUS
<1>4. /\ n \in Nat /\ Len(closed') = n + 1 /\ DOMAIN closed = 1 .. n /\ DOMAIN closed' = 1 .. n + 1
      /\ closed' \in Seq(S) /\ closed'[n + 1] = r
      /\ \A k \in 1 .. n : closed'[k] = closed[k]
  BY <1>2, <1>3
<1>5. closed' \in Seq(Elements(closed'))
  BY <1>4, SeqOfElements
<1>6. ASSUME NEW k \in DOMAIN closed' PROVE Passed(k, closed'[k].got)
  <2>1. CASE k \in 1 .. n
    BY <1>4, <2>1 DEF Archived
  <2>2. CASE k = n + 1
    BY <1>3, <1>4, <2>2
  <2> QED BY <1>4, <2>1, <2>2
<1>7. Archived'
  BY <1>5, <1>6 DEF Archived, Elements, Passed, Filed
<1> QED BY <1>3, <1>4, <1>7

(* A judgement in a campaign that reads nothing of the pack.               *)
LEMMA JudgedInCampaign ==
  ASSUME Inv, Progress, verdict = "running", NEW error \in NotAccepting, NEW next,
         Judge(error, next), UNCHANGED <<disk, target, got, closed>>,
         at.phase \notin {"suite", "list", "accept", "done"},
         next.campaign = at.campaign,
         \/ next.phase \in {"types", "manifest"}
         \/ /\ at.phase \in {"evidence", "published", "context", "records"}
            /\ next.phase \in {"published", "context", "records", "close"}
            /\ error = NoError => PackVerdict(at.campaign, got) = NoError
  PROVE  Progress'
<1>1. /\ verdict' # "accepted"
      /\ \/ error = NoError /\ at' = next
         \/ error # NoError /\ at' = Step("done", 0)
  BY JudgedWell
<1>2. Known' /\ Archived'
  BY KnownStays, ArchivedStays DEF Progress
<1>3. ASSUME error = NoError, at' = next PROVE Gathered' /\ Counted'
  <2>1. at'.campaign = Len(closed) + 1 /\ at'.campaign = at.campaign
    BY <1>3 DEF Progress, Counted
  <2>2. at'.phase \notin {"suite", "list", "accept", "done", "campaign", "evidence"}
    BY <1>3
  <2>3. ASSUME at'.phase \in {"published", "context", "records", "close"}
        PROVE  Passed(at'.campaign, got')
    <3>1. Filed(at.campaign, got)
      BY <1>3, <2>3 DEF Progress, Gathered, Passed
    <3>2. PackVerdict(at.campaign, got) = NoError
      BY <1>3, <2>3
    <3> QED BY <2>1, <3>1, <3>2 DEF Passed, Filed
  <2> QED BY <1>1, <2>1, <2>2, <2>3, InCampaign
<1>4. Gathered' /\ Counted'
  BY <1>1, <1>3, Ended
<1> QED BY <1>2, <1>4 DEF Progress

LEMMA ProgressStays ==
  ASSUME Progress, Known', UNCHANGED <<at, got, closed, verdict>>
  PROVE  Progress'
<1>1. Gathered'
  BY DEF Progress, Gathered, Passed, Filed
<1>2. Counted'
  BY DEF Progress, Counted
<1>3. Archived'
  BY ArchivedStays DEF Progress
<1> QED BY <1>1, <1>2, <1>3 DEF Progress

----------------------------------------------------------------------------
(* Every step keeps what was found.                                        *)

LEMMA StepKeepsProgress == Inv /\ Progress /\ [Next]_vars => Progress'
<1> SUFFICES ASSUME Inv, Progress, [Next]_vars PROVE Progress'
  OBVIOUS
<1>0. Known /\ Gathered /\ Counted /\ Archived
  BY DEF Progress
<1>p. /\ at.phase \notin {"suite", "list", "accept", "done"} => at.campaign \in Campaigns
      /\ at.phase = "records" => at.record \in DOMAIN Policies
  BY DEF Inv, Standing
<1>s. \A phase, c : /\ Step(phase, c).phase = phase /\ Step(phase, c).campaign = c
  BY DEF Step
<1>v. PackVerdict(at.campaign, got) = NoError
        \/ at.phase \notin {"published", "context", "records", "close"}
  BY <1>0 DEF Gathered, Passed
<1>1. CASE ReadSuiteManifest
  <2>1. PICK error :
          error = FirstOf(<<SuiteReadError(disk[SuiteFile]),
                            SuiteManifestError(Text(SuiteFile, disk[SuiteFile]))>>)
    OBVIOUS
  <2>2. /\ verdict = "running" /\ at.phase = "suite" /\ UNCHANGED <<disk, target, closed>>
        /\ Judge(error, Step("list", 0))
    BY <1>1, <2>1, Zenon DEF ReadSuiteManifest, In
  <2>3. error \in NotAccepting
    BY <2>1, SuiteReadErrors, SuiteManifestErrors, FirstOfBoth
  <2>4. Known' /\ Archived'
    BY <1>0, <2>2, KnownStays, ArchivedStays
  <2>5. /\ verdict' # "accepted"
        /\ at' = Step("list", 0) \/ at' = Step("done", 0)
    BY <2>2, <2>3, JudgedWell
  <2>6. ASSUME at' = Step("list", 0) PROVE Gathered' /\ Counted'
    <3>1. at'.phase = "list" /\ Len(closed) = 0
      BY <1>0, <1>s, <2>2, <2>6 DEF Counted
    <3> QED BY <2>2, <2>5, <3>1 DEF Gathered, Counted
  <2> QED BY <2>4, <2>5, <2>6, Ended DEF Progress
<1>2. CASE ListSuite
  <2>1. /\ verdict = "running" /\ at.phase = "list" /\ UNCHANGED <<disk, target, closed>>
        /\ Judge(DirectoryError, Step("types", 1))
    BY <1>2, Zenon DEF ListSuite, In
  <2>2. Known' /\ Archived'
    BY <1>0, <2>1, KnownStays, ArchivedStays
  <2>3. /\ verdict' # "accepted"
        /\ at' = Step("types", 1) \/ at' = Step("done", 0)
    BY <2>1, DirectoryErrors, JudgedWell
  <2>4. ASSUME at' = Step("types", 1) PROVE Gathered' /\ Counted'
    <3>1. at'.phase = "types" /\ at'.campaign = 1 /\ Len(closed) = 0
      BY <1>0, <1>s, <2>1, <2>4 DEF Counted
    <3> QED BY <2>1, <2>3, <3>1, InCampaign
  <2> QED BY <2>2, <2>3, <2>4, Ended DEF Progress
<1>3. CASE CheckEntryTypes
  <2>1. /\ verdict = "running" /\ at.phase = "types" /\ UNCHANGED <<disk, target, got, closed>>
        /\ Judge(EntryTypesError(at.campaign), Step("manifest", at.campaign))
    BY <1>3, Zenon DEF CheckEntryTypes, In
  <2>2. EntryTypesError(at.campaign) \in NotAccepting
    BY EntryTypesErrors
  <2> QED BY <1>s, <2>1, <2>2, JudgedInCampaign
<1>4. CASE ReadPackManifest
  <2> DEFINE c == at.campaign
  <2>1. /\ verdict = "running" /\ at.phase = "manifest"
        /\ PackRead(Manifest(c), Step("campaign", c))
    BY <1>4, Zenon DEF ReadPackManifest, In
  <2>2. /\ Known' /\ Archived' /\ UNCHANGED closed /\ verdict' # "accepted"
        /\ \/ at' = Step("done", 0)
           \/ /\ at' = Step("campaign", c)
              /\ got' = [n \in DOMAIN got \cup {Manifest(c)} |->
                           IF n = Manifest(c) THEN disk[Manifest(c)] ELSE got[n]]
    BY <1>0, <2>1, PackReadTells
  <2>3. ASSUME /\ at' = Step("campaign", c)
               /\ got' = [n \in DOMAIN got \cup {Manifest(c)} |->
                            IF n = Manifest(c) THEN disk[Manifest(c)] ELSE got[n]]
        PROVE  Gathered' /\ Counted'
    <3>1. at'.phase = "campaign" /\ at'.campaign = c
      BY <1>s, <2>3
    <3>2. c = Len(closed) + 1 /\ c \in Campaigns
      BY <1>0, <1>p, <2>1 DEF Counted
    <3>3. Filed(c, got')
      BY <1>0, <2>3, <3>2, FiledStays
    <3> QED BY <2>2, <3>1, <3>2, <3>3, InCampaign
  <2> QED BY <2>2, <2>3, Ended DEF Progress
<1>5. CASE ReadPackCampaign
  <2> DEFINE c == at.campaign
  <2>1. /\ verdict = "running" /\ at.phase = "campaign"
        /\ PackRead(Campaign(c), Step("evidence", c))
    BY <1>5, Zenon DEF ReadPackCampaign, In
  <2>2. /\ Known' /\ Archived' /\ UNCHANGED closed /\ verdict' # "accepted"
        /\ \/ at' = Step("done", 0)
           \/ /\ at' = Step("evidence", c)
              /\ got' = [n \in DOMAIN got \cup {Campaign(c)} |->
                           IF n = Campaign(c) THEN disk[Campaign(c)] ELSE got[n]]
    BY <1>0, <2>1, PackReadTells
  <2>3. ASSUME /\ at' = Step("evidence", c)
               /\ got' = [n \in DOMAIN got \cup {Campaign(c)} |->
                            IF n = Campaign(c) THEN disk[Campaign(c)] ELSE got[n]]
        PROVE  Gathered' /\ Counted'
    <3>1. at'.phase = "evidence" /\ at'.campaign = c
      BY <1>s, <2>3
    <3>2. c = Len(closed) + 1 /\ c \in Campaigns /\ Filed(c, got)
      BY <1>0, <1>p, <2>1 DEF Counted, Gathered
    <3>3. Filed(c, got')
      BY <1>0, <2>3, <3>2, FiledStays
    <3> QED BY <2>2, <3>1, <3>2, <3>3, InCampaign
  <2> QED BY <2>2, <2>3, Ended DEF Progress
<1>6. CASE ReadEvidence
  <2> DEFINE c == at.campaign
  <2>1. /\ verdict = "running" /\ at.phase = "evidence"
        /\ \E name \in Listed(c) : PackRead(name, at)
    BY <1>6, Zenon DEF ReadEvidence, In
  <2>2. PICK name \in Listed(c) : PackRead(name, at)
    BY <2>1
  <2>3. /\ Known' /\ Archived' /\ UNCHANGED closed /\ verdict' # "accepted"
        /\ \/ at' = Step("done", 0)
           \/ /\ at' = at
              /\ got' = [n \in DOMAIN got \cup {name} |->
                           IF n = name THEN disk[name] ELSE got[n]]
    BY <1>0, <2>1, <2>2, PackReadTells
  <2>4. ASSUME /\ at' = at
               /\ got' = [n \in DOMAIN got \cup {name} |->
                            IF n = name THEN disk[name] ELSE got[n]]
        PROVE  Gathered' /\ Counted'
    <3>1. at'.phase = "evidence" /\ at'.campaign = c
      BY <2>1, <2>4
    <3>2. c = Len(closed) + 1 /\ c \in Campaigns /\ Filed(c, got)
      BY <1>0, <1>p, <2>1 DEF Counted, Gathered
    <3>3. Filed(c, got')
      BY <1>0, <2>4, <3>2, FiledStays
    <3> QED BY <2>3, <3>1, <3>2, <3>3, InCampaign
  <2> QED BY <2>3, <2>4, Ended DEF Progress
<1>7. CASE VerifyPack
  <2>1. PICK error : error = PackVerdict(at.campaign, got)
    OBVIOUS
  <2>2. /\ verdict = "running" /\ at.phase = "evidence" /\ UNCHANGED <<disk, target, got, closed>>
        /\ Judge(error, Step("published", at.campaign))
    BY <1>7, <2>1, Zenon DEF VerifyPack, In
  <2>3. error \in NotAccepting
    BY <2>1, OtherErrors
  <2> QED BY <1>s, <2>1, <2>2, <2>3, JudgedInCampaign
<1>8. CASE ReadPublished
  <2> DEFINE c == at.campaign
             file == disk[Published(c)]
  <2>1. PICK error : error = IF SuiteReadError(file) # NoError THEN SuiteReadError(file)
                             ELSE PublishedError(c, file)
    OBVIOUS
  <2>2. /\ verdict = "running" /\ at.phase = "published" /\ UNCHANGED <<disk, target, got, closed>>
        /\ Judge(error, Step("context", c))
    BY <1>8, <2>1, Zenon DEF ReadPublished, In
  <2>3. error \in NotAccepting
    BY <2>1, SuiteReadErrors, OtherErrors
  <2> QED BY <1>s, <1>v, <2>2, <2>3, JudgedInCampaign
<1>9. CASE ReadContext
  <2> DEFINE c == at.campaign
             file == disk[Campaign(c)]
             next == [Step("records", c) EXCEPT !.record = 1]
  <2>1. PICK error : error = IF SuiteReadError(file) # NoError THEN SuiteReadError(file)
                             ELSE ContextError(c, file)
    OBVIOUS
  <2>2. /\ verdict = "running" /\ at.phase = "context" /\ UNCHANGED <<disk, target, got, closed>>
        /\ Judge(error, next)
    BY <1>9, <2>1, Zenon DEF ReadContext, In
  <2>3. error \in NotAccepting
    BY <2>1, SuiteReadErrors, ContextErrors
  <2>4. next.phase = "records" /\ next.campaign = c
    BY DEF Step
  <2> HIDE DEF next
  <2> QED BY <1>v, <2>2, <2>3, <2>4, JudgedInCampaign
<1>10. CASE ReadRecordAgain
  <2> DEFINE c == at.campaign
             i == at.record
             file == disk[Record(c, i)]
             next == IF i < Len(Policies) THEN [at EXCEPT !.record = i + 1]
                     ELSE Step("close", c)
  <2>1. PICK error : error = IF SuiteReadError(file) # NoError THEN SuiteReadError(file)
                             ELSE RecordAgainError(c, i, file)
    OBVIOUS
  <2>2. /\ verdict = "running" /\ at.phase = "records" /\ UNCHANGED <<disk, target, got, closed>>
        /\ Judge(error, next)
    BY <1>10, <2>1, Zenon DEF ReadRecordAgain, In
  <2>3. error \in NotAccepting
    BY <2>1, SuiteReadErrors, OtherErrors
  <2>4. next.phase \in {"records", "close"} /\ next.campaign = c
    <3>1. at \in [phase : Phases, campaign : Nat, record : Nat]
      BY DEF Inv, Standing
    <3> QED BY <1>s, <2>2, <3>1
  <2> HIDE DEF next
  <2> QED BY <1>v, <2>2, <2>3, <2>4, JudgedInCampaign
<1>11. CASE CloseCampaign
  <2> DEFINE c == at.campaign
             next == IF c < Len(RetainCounts) THEN Step("types", c + 1) ELSE Step("accept", 0)
  <2>1. PICK r : r = [again |-> again, got |-> got, traceDigest |-> SummaryOf(c, got).traceDigest]
    OBVIOUS
  <2>2. /\ verdict = "running" /\ at.phase = "close" /\ UNCHANGED <<disk, target>>
        /\ Judge(CloseError(c), next) /\ closed' = Append(closed, r)
    BY <1>11, <2>1, Zenon DEF CloseCampaign, In
  <2>3. r.got = got
    BY <2>1
  <2>4. c = Len(closed) + 1 /\ c \in Campaigns /\ Passed(c, got)
    BY <1>0, <1>p, <2>2 DEF Counted, Gathered
  <2>5. Known' /\ Archived' /\ Len(closed') = c
    BY <1>0, <2>2, <2>3, <2>4, KnownStays, ArchivedGrows
  <2>6. /\ verdict' # "accepted"
        /\ at' = next \/ at' = Step("done", 0)
    BY <2>2, CloseErrors, JudgedWell
  <2>7. c \in Nat /\ c <= Len(RetainCounts)
    BY <2>4, SuiteAssumption DEF Campaigns
  <2>8. ASSUME at' = next PROVE Gathered' /\ Counted'
    <3>1. CASE c < Len(RetainCounts)
      <4>1. at'.phase = "types" /\ at'.campaign = c + 1
        BY <1>s, <2>8, <3>1
      <4> QED BY <2>5, <2>6, <4>1 DEF Gathered, Counted
    <3>2. CASE ~(c < Len(RetainCounts))
      <4>1. at'.phase = "accept"
        BY <1>s, <2>8, <3>2
      <4>2. Len(closed') = Len(RetainCounts)
        BY <2>5, <2>7, <3>2, SuiteAssumption
      <4> QED BY <4>1, <4>2 DEF Gathered, Counted
    <3> QED BY <3>1, <3>2
  <2> QED BY <2>5, <2>6, <2>8, Ended DEF Progress
<1>12. CASE Accept
  <2>1. /\ at.phase = "accept" /\ UNCHANGED <<disk, target, closed>>
        /\ at' = Step("done", 0)
    BY <1>12, Zenon DEF Accept, In
  <2>2. Known' /\ Archived'
    BY <1>0, <2>1, KnownStays, ArchivedStays
  <2>3. at'.phase = "done" /\ Len(closed) = Len(RetainCounts)
    BY <1>0, <1>s, <2>1 DEF Counted
  <2>4. Gathered' /\ Counted'
    BY <2>1, <2>3 DEF Gathered, Counted
  <2> QED BY <2>2, <2>4 DEF Progress
<1>13. CASE Rewrite
  <2>1. /\ UNCHANGED <<target, at, got, closed, verdict>>
        /\ \E name \in Files : disk' = [disk EXCEPT ![name] = Plain(name, target)]
    BY <1>13, Zenon DEF Rewrite
  <2>2. PICK name \in Files : disk' = [disk EXCEPT ![name] = Plain(name, target)]
    BY <2>1
  <2>3. Plain(name, target).version \in Versions
    <3>1. Plain(name, target).version = VersionOf(name, target)
      BY DEF Plain
    <3> QED BY <1>0, <3>1, VersionsAre DEF Known
  <2>4. Known'
    <3>1. /\ name \in Entries /\ disk'[name] = Plain(name, target)
          /\ \A e \in Entries : e # name => disk'[e] = disk[e]
      BY <2>2, FilesAreEntries DEF Inv, Sizes
    <3> QED BY <1>0, <2>1, <2>3, <3>1, FilesAreEntries DEF Known
  <2> QED BY <2>1, <2>4, ProgressStays
<1>14. CASE UNCHANGED vars
  <2>1. UNCHANGED <<disk, target, at, got, closed, verdict>>
    BY <1>14 DEF vars
  <2> QED BY <1>0, <2>1, KnownStays, ProgressStays
<1> QED BY <1>1, <1>2, <1>3, <1>4, <1>5, <1>6, <1>7, <1>8, <1>9, <1>10, <1>11, <1>12,
           <1>13, <1>14 DEF Next, Verify

(* Every pack the verifier has finished with was one export of the pinned  *)
(* specification, and the suite is accepted when all of them are finished. *)
THEOREM ProgressInvariance == Spec => []Progress
<1> QED BY ProgressInit, StepKeepsProgress, Invariance, PTL DEF Spec

(* Whatever is written to the directory meanwhile, an accepted suite       *)
(* reports the preregistered specifications, and what it reports of a      *)
(* campaign was observed in one export, although its records were read one *)
(* by one.                                                                 *)
THEOREM AcceptedSuiteIsAlwaysPreregistered == Spec => []AcceptedSuiteIsPreregistered
<1>1. Progress => AcceptedSuiteIsPreregistered
  <2> SUFFICES ASSUME Progress, verdict = "accepted" PROVE AcceptedSuiteIsPreregistered
    BY DEF AcceptedSuiteIsPreregistered
  <2>1. Len(closed) = Len(RetainCounts)
    BY DEF Progress, Counted
  <2>2. DOMAIN closed = Campaigns
    BY <2>1, SuiteAssumption DEF Progress, Archived, Campaigns
  <2>3. ASSUME NEW c \in Campaigns
        PROVE  /\ Reported(c).campaignDigest = Sha256(Specification(Generation, c))
               /\ \E v \in Versions \ {0} :
                    Reported(c).observations = PackSummary(VerifiedPack(
                      ExportedManifest(Specification(Generation, c), MetricsOf(v)),
                      ExportedFiles(Specification(Generation, c), MetricsOf(v)))).observations
    <3>1. PICK files : files = closed[c].got
      OBVIOUS
    <3>2. files[Manifest(c)].version \in Versions /\ PackVerdict(c, files) = NoError
      BY <2>2, <3>1 DEF Progress, Archived, Passed, Filed
    <3>3. Reported(c) = SummaryOf(c, files)
      BY <3>1 DEF Reported
    <3> QED BY <3>2, <3>3, AcceptedPack
  <2> QED BY <2>1, <2>3, Zenon DEF AcceptedSuiteIsPreregistered
<1> QED BY <1>1, ProgressInvariance, PTL

----------------------------------------------------------------------------
(* The records of a pack, and their baselines.                             *)

Belongs(c) == PackFiles(c) \cup {PackExtra(c)}

(* The files of a pack are named by the campaign.                          *)
LEMMA NamesOfPack ==
  ASSUME NEW c \in Campaigns
  PROVE  \A name \in Belongs(c) : name = <<c, name[2], name[3]>>
<1>1. ASSUME NEW i PROVE Record(c, i) = <<c, Record(c, i)[2], Record(c, i)[3]>>
  BY DEF Record
<1>2. Manifest(c) = <<c, Manifest(c)[2], Manifest(c)[3]>>
  BY DEF Manifest
<1>3. Campaign(c) = <<c, Campaign(c)[2], Campaign(c)[3]>>
  BY DEF Campaign
<1>4. PackExtra(c) = <<c, PackExtra(c)[2], PackExtra(c)[3]>>
  BY DEF PackExtra
<1>5. \A name \in Belongs(c) :
        \/ name = Manifest(c) \/ name = Campaign(c) \/ name = PackExtra(c)
        \/ \E i \in DOMAIN Policies : name = Record(c, i)
  BY Zenon DEF Belongs, PackFiles, Records
<1> QED BY <1>1, <1>2, <1>3, <1>4, <1>5

(* The records of a pack by their names.                                   *)
LEMMA RecordsByName ==
  ASSUME NEW c \in Campaigns, NEW files, DOMAIN files \subseteq Belongs(c), NEW i,
         FileName(i - 1) \in DOMAIN PackRecords(c, files)
  PROVE  /\ Record(c, i) \in DOMAIN files
         /\ PackRecords(c, files)[FileName(i - 1)] = Text(Record(c, i), files[Record(c, i)])
<1>1. PICK names :
        names = {<<f[2], f[3]>> : f \in DOMAIN files \ {Manifest(c), Campaign(c)}}
  OBVIOUS
<1>2. PackRecords(c, files)
        = [name \in names |-> Text(<<c, name[1], name[2]>>, files[<<c, name[1], name[2]>>])]
  BY <1>1, Zenon DEF PackRecords
<1>3. PICK name : name = FileName(i - 1)
  OBVIOUS
<1>4. DOMAIN PackRecords(c, files) = names
  BY <1>2
<1>5. name \in names
  BY <1>3, <1>4
<1>6. PackRecords(c, files)[name] = Text(<<c, name[1], name[2]>>, files[<<c, name[1], name[2]>>])
  BY <1>2, <1>5, Zenon
<1>7. <<c, name[1], name[2]>> = Record(c, i)
  BY <1>3 DEF FileName, Record
<1>8. PICK f \in DOMAIN files : name = <<f[2], f[3]>>
  BY <1>1, <1>5
<1>9. f = <<c, f[2], f[3]>>
  BY NamesOfPack
<1>10. f = Record(c, i)
  <2>1. name[1] = f[2] /\ name[2] = f[3]
    BY <1>8
  <2> QED BY <1>7, <1>9, <2>1
<1> QED BY <1>3, <1>6, <1>7, <1>8, <1>10

(* A pack without an error has every file its manifest lists.              *)
LEMMA PlaceIsFilled ==
  ASSUME NEW manifest, NEW campaign, NEW files, NEW i,
         RecordPlaceError(manifest, campaign, files, i) = NoError
  PROVE  manifest.records[i].filename \in DOMAIN files
<1>1. FirstError(DescriptorChecks(manifest, campaign, files, i)) = NoError
  <2>1. PICK early : early = FirstError(DescriptorChecks(manifest, campaign, files, i))
    OBVIOUS
  <2>2. PICK late : RecordPlaceError(manifest, campaign, files, i)
                      = IF early # NoError THEN early ELSE late
    BY <2>1, Zenon DEF RecordPlaceError
  <2> QED BY <2>1, <2>2
<1>2. PICK name : name = manifest.records[i].filename
  OBVIOUS
<1>3. PICK p1, p2, p3, p4, p5 :
        DescriptorChecks(manifest, campaign, files, i)
          = << <<p1, "RecordIndexMismatch">>, <<p2, "RecordFilenameMismatch">>,
               <<p3, "DuplicatePolicy">>, <<p4, "EvidencePolicyMismatch">>,
               <<p5, "InvalidSha256">>, <<name \notin DOMAIN files, "MissingFile">> >>
  BY <1>2, ZenonT(60) DEF DescriptorChecks
<1>4. PICK w : w = DescriptorChecks(manifest, campaign, files, i)
  OBVIOUS
<1>5. DOMAIN w = 1 .. 6 /\ \A k \in 1 .. 6 : w[k][2] # NoError
  <2>1. \A k \in 1 .. 6 : k = 1 \/ k = 2 \/ k = 3 \/ k = 4 \/ k = 5 \/ k = 6
    OBVIOUS
  <2> QED BY <1>3, <1>4, <2>1 DEF NoError
<1>6. ~w[6][1]
  BY <1>1, <1>4, <1>5, NoneFired
<1>7. w[6][1] = (name \notin DOMAIN files)
  BY <1>3, <1>4
<1> QED BY <1>2, <1>6, <1>7

(* Records that are compared without an error have the first one's         *)
(* baseline.                                                               *)
LEMMA ComparedAlike ==
  ASSUME NEW records, DOMAIN records \subseteq Nat, PositionComparisonError(records) = NoError
  PROVE  \A i \in DOMAIN records : SameBaseline(records[1], records[i], "bits")
<1>1. PICK errors :
        errors = [i \in DOMAIN records |->
          FirstError(<< <<~SameSetting(records[1], records[i]), "ContextMismatch">>,
                        <<~SameBaseline(records[1], records[i], "bits"), "BaselineMismatch">>,
                        <<records[1].candidateBytes # records[i].candidateBytes, "BudgetMismatch">>,
                        <<\E j \in 1..(i - 1) :
                            records[j].outcome.policy = records[i].outcome.policy,
                          "DuplicatePolicy">> >>)]
  OBVIOUS
<1>2. PositionComparisonError(records)
        = IF records = << >> THEN "EmptyEvidence" ELSE FirstOf(errors)
  BY <1>1, Zenon DEF PositionComparisonError
<1>3. FirstOf(errors) = NoError
  BY <1>2 DEF NoError
<1>4. DOMAIN errors = DOMAIN records
  BY <1>1
<1>5. \A i \in DOMAIN errors : errors[i] = NoError
  BY <1>3, <1>4, NoneOf
<1> TAKE i \in DOMAIN records
<1>6. PICK p1, p3, p4 :
        errors[i] = FirstError(<< <<p1, "ContextMismatch">>,
                        <<~SameBaseline(records[1], records[i], "bits"), "BaselineMismatch">>,
                        <<p3, "BudgetMismatch">>, <<p4, "DuplicatePolicy">> >>)
  BY <1>1, Zenon
<1>7. PICK w : w = << <<p1, "ContextMismatch">>,
                      <<~SameBaseline(records[1], records[i], "bits"), "BaselineMismatch">>,
                      <<p3, "BudgetMismatch">>, <<p4, "DuplicatePolicy">> >>
  OBVIOUS
<1>8. DOMAIN w = 1 .. 4 /\ \A k \in 1 .. 4 : w[k][2] # NoError
  <2>1. \A k \in 1 .. 4 : k = 1 \/ k = 2 \/ k = 3 \/ k = 4
    OBVIOUS
  <2> QED BY <1>7, <2>1 DEF NoError
<1>9. FirstError(w) = NoError
  BY <1>4, <1>5, <1>6, <1>7
<1>10. ~w[2][1]
  BY <1>8, <1>9, NoneFired
<1>11. w[2][1] = ~SameBaseline(records[1], records[i], "bits")
  BY <1>7
<1> QED BY <1>10, <1>11

(* Baselines that are the same to the bit are the same.                    *)
LEMMA BaselinesAreOne ==
  ASSUME NEW left, NEW right, SameBaseline(left, right, "bits")
  PROVE  BaselineMetrics(left) = BaselineMetrics(right)
<1>1. PICK l : l = BaselineMetrics(left)
  OBVIOUS
<1>2. PICK r : r = BaselineMetrics(right)
  OBVIOUS
<1>3. SameMetricBaselines(left, right, "bits")
  BY DEF SameBaseline
<1>4. /\ DOMAIN left.metrics = DOMAIN right.metrics
      /\ \A i \in DOMAIN left.metrics :
           /\ [l[i] EXCEPT !.value = 0] = [r[i] EXCEPT !.value = 0]
           /\ Close("bits", l[i].value, r[i].value)
  BY <1>1, <1>2, <1>3, Zenon DEF SameMetricBaselines
<1>5. \A x, y : Close("bits", x, y) <=> x = y
  BY DEF Close
<1>6. /\ l = [i \in DOMAIN left.metrics |->
                Side(left.metrics[i], left.metrics[i].baseline)]
      /\ r = [i \in DOMAIN right.metrics |->
                Side(right.metrics[i], right.metrics[i].baseline)]
  BY <1>1, <1>2, Zenon DEF BaselineMetrics
<1>7. ASSUME NEW i \in DOMAIN left.metrics PROVE l[i] = r[i]
  <2>1. PICK a : a = left.metrics[i]
    OBVIOUS
  <2>2. PICK b : b = right.metrics[i]
    OBVIOUS
  <2>3. l[i] = Side(a, a.baseline) /\ r[i] = Side(b, b.baseline)
    BY <1>4, <1>6, <2>1, <2>2
  <2>4. PICK x : x = l[i]
    OBVIOUS
  <2>5. PICK y : y = r[i]
    OBVIOUS
  <2>6. x = [name |-> a.name, kind |-> a.kind, unit |-> a.unit,
             preference |-> a.preference, value |-> a.baseline]
    BY <2>3, <2>4 DEF Side
  <2>7. y = [name |-> b.name, kind |-> b.kind, unit |-> b.unit,
             preference |-> b.preference, value |-> b.baseline]
    BY <2>3, <2>5 DEF Side
  <2>8. [x EXCEPT !.value = 0] = [y EXCEPT !.value = 0] /\ x.value = y.value
    BY <1>4, <1>5, <2>4, <2>5
  <2>9. x = y
    BY <2>6, <2>7, <2>8
  <2> QED BY <2>4, <2>5, <2>9
<1>8. l = r
  BY <1>4, <1>6, <1>7
<1> QED BY <1>1, <1>2, <1>8

LEMMA PassedSelects ==
  ASSUME NEW c \in Campaigns, NEW files, Passed(c, files), NEW m, m = PackManifest(c, files)
  PROVE  /\ DOMAIN m.records = DOMAIN Policies /\ DOMAIN Policies \subseteq Nat
         /\ \A i \in DOMAIN Policies : m.records[i].filename = FileName(i - 1)
<1>1. PICK spec : spec = Specification(Generation, c)
  OBVIOUS
<1>2. PICK v \in Versions \ {0} :
        /\ m.records = ExportedManifest(spec, MetricsOf(v)).records
        /\ \A i \in DOMAIN Policies : m.records[i].filename = FileName(i - 1)
  BY <1>1, PinnedPack DEF Passed, Filed
<1>3. DOMAIN spec.selections = DOMAIN Policies /\ DOMAIN Policies \subseteq Nat
  BY <1>1, SpecificationSelects
<1> QED BY <1>2, <1>3, RecordsStated

(* A pack that passed has a file for every policy.                         *)
LEMMA PackIsWhole ==
  ASSUME NEW c \in Campaigns, NEW files, Passed(c, files), DOMAIN files \subseteq Belongs(c)
  PROVE  \A i \in DOMAIN Policies :
           /\ Record(c, i) \in DOMAIN files
           /\ PackManifest(c, files).records[i].filename = FileName(i - 1)
           /\ PackRecords(c, files)[FileName(i - 1)] = Text(Record(c, i), files[Record(c, i)])
<1>1. PICK m : m = PackManifest(c, files)
  OBVIOUS
<1>2. PICK campaign : campaign = PackCampaign(c, files)
  OBVIOUS
<1>3. PICK records : records = PackRecords(c, files)
  OBVIOUS
<1>4. /\ DOMAIN m.records = DOMAIN Policies /\ DOMAIN Policies \subseteq Nat
      /\ \A i \in DOMAIN Policies : m.records[i].filename = FileName(i - 1)
  BY <1>1, PassedSelects
<1>5. PackError(m, campaign, records) = NoError
  <2>1. PackVerdict(c, files) = NoError /\ "CampaignVerification" # NoError
    BY DEF Passed, NoError
  <2> QED BY <1>1, <1>2, <1>3, <2>1, Zenon DEF PackVerdict
<1>6. \A i \in DOMAIN m.records : RecordPlaceError(m, campaign, records, i) = NoError
  BY <1>4, <1>5, PlacesAreGood
<1>7. \A i \in DOMAIN Policies : FileName(i - 1) \in DOMAIN records
  BY <1>4, <1>6, PlaceIsFilled
<1> QED BY <1>1, <1>3, <1>4, <1>7, RecordsByName

(* What a summary says was observed.                                       *)
LEMMA ObservationsAre ==
  ASSUME NEW c, NEW files
  PROVE  \A o \in Elements(SummaryOf(c, files).observations) :
           \E i \in DOMAIN PackManifest(c, files).records :
             o.metrics = PositionRecord(PackRecords(c, files)[
                           PackManifest(c, files).records[i].filename]).metrics
<1>1. PICK m : m = PackManifest(c, files)
  OBVIOUS
<1>2. PICK f : f = PackRecords(c, files)
  OBVIOUS
<1>3. PICK records : records = [i \in DOMAIN m.records |-> PositionRecord(f[m.records[i].filename])]
  OBVIOUS
<1>4. VerifiedPack(m, f).records = records
  BY <1>3, Zenon DEF VerifiedPack
<1>5. PICK pack : pack = VerifiedPack(m, f)
  OBVIOUS
<1>6. PackSummary(pack).observations
        = [i \in DOMAIN pack.records |->
             [policy |-> pack.records[i].outcome.policy,
              positions |-> pack.records[i].outcome.positions,
              retainedBytes |-> pack.records[i].outcome.retainedBytes,
              evictedBytes |-> pack.records[i].outcome.evictedBytes,
              metrics |-> pack.records[i].metrics]]
  BY Zenon DEF PackSummary
<1>7. SummaryOf(c, files) = PackSummary(pack)
  BY <1>1, <1>2, <1>5, Zenon DEF SummaryOf
<1>8. PICK observations : observations = PackSummary(pack).observations
  OBVIOUS
<1>9. DOMAIN observations = DOMAIN m.records
      /\ \A i \in DOMAIN m.records : observations[i].metrics = records[i].metrics
  <2>1. pack.records = records /\ DOMAIN records = DOMAIN m.records
    BY <1>3, <1>4, <1>5
  <2>2. DOMAIN observations = DOMAIN m.records
    BY <1>6, <1>8, <2>1
  <2>3. ASSUME NEW i \in DOMAIN m.records PROVE observations[i].metrics = records[i].metrics
    BY <1>6, <1>8, <2>1, <2>3
  <2> QED BY <2>2, <2>3
<1>10. \A o \in Elements(observations) : \E i \in DOMAIN m.records :
         o.metrics = PositionRecord(f[m.records[i].filename]).metrics
  <2> TAKE o \in Elements(observations)
  <2>1. PICK i \in DOMAIN m.records : o = observations[i]
    BY <1>9 DEF Elements
  <2>2. o.metrics = records[i].metrics
    BY <1>9, <2>1
  <2>3. records[i] = PositionRecord(f[m.records[i].filename])
    BY <1>3, <2>1
  <2> QED BY <2>1, <2>2, <2>3
<1> QED BY <1>1, <1>2, <1>7, <1>8, <1>10

----------------------------------------------------------------------------
(* The two readings of the records.                                        *)

(* Files are not empty.                                                    *)
Filled == \A name \in Files : disk[name].size # 0

(* A pack is read before its records are read again.                       *)
Ordered ==
  /\ at.phase \in {"suite", "list", "types", "manifest"} => got = << >>
  /\ at.phase \in {"campaign", "evidence", "published", "context", "records", "close"}
       => DOMAIN got \subseteq Belongs(at.campaign)
  /\ at.phase \notin {"records", "close", "done"} => again = << >>
  /\ again \in Seq(Elements(again))
  /\ at.phase = "records" => Len(again) = at.record - 1
  /\ at.phase = "close" => Len(again) = Len(Policies)

(* As long as no file was replaced after it had been read, what was read   *)
(* is what the file holds, and the second reading is the first.            *)
Witnessed ==
  \A name \in DOMAIN got \cap Files : WasRead(name) /\ (~torn => got[name] = disk[name])

Reread ==
  at.phase \in {"records", "close"} /\ ~torn =>
    \A i \in DOMAIN again : again[i] = got[Record(at.campaign, i)]

(* The campaigns that were closed share the baseline of the first.         *)
Agreed(k) ==
  LET second == closed[k].again
  IN  /\ DOMAIN second = DOMAIN Policies
      /\ PositionComparisonError(ObservedRecords(k, second)) = NoError
      /\ BaselineIdentity(k, second) = SuiteBaseline
      /\ DOMAIN closed[k].got \subseteq Belongs(k)
      /\ ~torn => \A i \in DOMAIN Policies : second[i] = closed[k].got[Record(k, i)]

Shared == verdict \in {"running", "accepted"} => \A k \in DOMAIN closed : Agreed(k)

Readings == Filled /\ Ordered /\ Witnessed /\ Reread /\ Shared

----------------------------------------------------------------------------
(* What was read stays read.                                               *)

LEMMA ReadTextWitness ==
  ASSUME Accounts, NEW name \in Entries, disk[name].size \in Nat,
         disk[name].advertised \in Nat, ReadText(name)
  PROVE  /\ \A n : WasRead(n) => WasRead(n)'
         /\ ReadError(disk[name]) = NoError /\ disk[name].size # 0 => WasRead(name)'
<1>1. PICK file : file = disk[name]
  OBVIOUS
<1>2. PICK bytes : bytes = IF ~budget.failed /\ MetadataOk(file) THEN StreamedBytes(file) ELSE 0
  OBVIOUS
<1>3. PICK r : r = <<name, bytes, Spent(Len(consumed)) + bytes>>
  OBVIOUS
<1>4. consumed' = IF bytes = 0 THEN consumed ELSE Append(consumed, r)
  BY <1>1, <1>2, <1>3, Zenon DEF ReadText
<1>5. consumed \in Seq(Reads)
  BY DEF Accounts
<1>6. CASE bytes = 0
  <2>1. \A n : WasRead(n) => WasRead(n)'
    BY <1>4, <1>6 DEF WasRead
  <2>2. ~(ReadError(file) = NoError /\ file.size # 0)
    <3> SUFFICES ASSUME ReadError(file) = NoError, file.size # 0 PROVE FALSE
      OBVIOUS
    <3>1. ~budget.failed /\ MetadataOk(file) /\ Allowed \in Nat
      BY <1>1, ReadIsBounded
    <3>2. StreamedBytes(file) = 0
      BY <1>2, <1>6, <3>1
    <3>3. file.size \in Nat \ {0} /\ Allowed + 1 \in Nat \ {0}
      BY <1>1, <3>1
    <3>4. StreamedBytes(file) = file.size \/ StreamedBytes(file) = Allowed + 1
      BY <3>3, LowestOfTwo DEF StreamedBytes
    <3> QED BY <3>2, <3>3, <3>4
  <2> QED BY <1>1, <2>1, <2>2
<1>7. CASE bytes # 0
  <2>1. PICK S : S = Reads \cup {r}
    OBVIOUS
  <2>2. PICK n : n = Len(consumed)
    OBVIOUS
  <2>3. /\ n \in Nat /\ DOMAIN consumed = 1 .. n /\ DOMAIN consumed' = 1 .. n + 1
        /\ consumed'[n + 1] = r
        /\ \A k \in 1 .. n : consumed'[k] = consumed[k]
    <3>1. consumed \in Seq(S) /\ r \in S /\ consumed' = Append(consumed, r)
      BY <1>4, <1>5, <1>7, <2>1
    <3> QED BY <2>2, <3>1
  <2>4. r[1] = name
    BY <1>3
  <2>5. WasRead(name)'
    <3>1. n + 1 \in DOMAIN consumed' /\ consumed'[n + 1][1] = name
      BY <2>3, <2>4
    <3> QED BY <3>1 DEF WasRead
  <2>6. \A e : WasRead(e) => WasRead(e)'
    <3> TAKE e
    <3> SUFFICES ASSUME WasRead(e) PROVE WasRead(e)'
      OBVIOUS
    <3>1. PICK k \in DOMAIN consumed : consumed[k][1] = e
      BY DEF WasRead
    <3>2. k \in DOMAIN consumed' /\ consumed'[k][1] = e
      BY <2>3, <3>1
    <3> QED BY <3>2 DEF WasRead
  <2> QED BY <2>5, <2>6
<1> QED BY <1>6, <1>7

LEMMA SuiteReadWitness ==
  ASSUME Inv, Filled, NEW name \in Files, SuiteRead(name)
  PROVE  \A n : WasRead(n) => WasRead(n)'
<1>1. /\ Accounts /\ name \in Entries /\ disk[name].size \in Nat \ {0}
      /\ disk[name].advertised \in Nat
  BY FilesAreEntries DEF Inv, Sizes, Filled
<1>2. CASE ReadText(name)
  BY <1>1, <1>2, ReadTextWitness
<1>3. CASE UNCHANGED consumed
  BY <1>3 DEF WasRead
<1> QED BY <1>2, <1>3 DEF SuiteRead

----------------------------------------------------------------------------
(* The invariant holds at the start.                                       *)

LEMMA FreshFiles ==
  ASSUME NEW v, NEW name \in Files
  PROVE  /\ Fresh(v)[name].size = 1
         /\ \A what \in Damages : Damaged(Fresh(v)[name], what).size # 0
<1>1. name \in Entries
  BY FilesAreEntries
<1>2. PICK file : file = Fresh(v)[name]
  OBVIOUS
<1>3. file = [type |-> "file", size |-> 1, advertised |-> 1, version |-> VersionOf(name, v),
              form |-> "good"]
  BY <1>1, <1>2 DEF Fresh, Plain
<1>4. file.size = 1 /\ "size" \in DOMAIN file
  BY <1>3
<1>5. ASSUME NEW what \in Damages PROVE Damaged(file, what)["size"] # 0
  <2>1. Damaged(file, what)["size"]
          = IF "size" \in DOMAIN what THEN what["size"] ELSE file["size"]
    BY <1>4 DEF Damaged
  <2> QED BY <1>4, <2>1, SuiteAssumption
<1> QED BY <1>2, <1>4, <1>5

LEMMA ReadingsInit == Init => Readings
<1> SUFFICES ASSUME Init PROVE Readings
  OBVIOUS
<1>1. Filled
  <2>1. CASE \E pair \in Rewrites : disk = Fresh(pair[1])
    BY <2>1, FreshFiles DEF Filled
  <2>2. CASE \E name \in Entries, what \in Damages :
               disk = [Fresh(1) EXCEPT ![name] = Damaged(@, what)]
    <3>1. PICK name \in Entries, what \in Damages :
                 disk = [Fresh(1) EXCEPT ![name] = Damaged(@, what)]
      BY <2>2
    <3>2. /\ disk[name] = Damaged(Fresh(1)[name], what)
          /\ \A e \in Entries : e # name => disk[e] = Fresh(1)[e]
      BY <3>1, FreshSizes
    <3>3. ASSUME NEW e \in Files PROVE disk[e].size # 0
      BY <3>2, FreshFiles, FilesAreEntries
    <3> QED BY <3>3 DEF Filled
  <2> QED BY <2>1, <2>2 DEF Init
<1>2. /\ at = [phase |-> "suite", campaign |-> 0, record |-> 0]
      /\ got = << >> /\ again = << >> /\ closed = << >>
  BY DEF Init, Step
<1>3. at.phase = "suite"
  BY <1>2
<1>4. Ordered
  BY <1>2, <1>3 DEF Ordered, Elements
<1>5. Witnessed
  BY <1>2 DEF Witnessed
<1>6. Reread
  BY <1>3 DEF Reread
<1>7. Shared
  BY <1>2 DEF Shared
<1> QED BY <1>1, <1>4, <1>5, <1>6, <1>7 DEF Readings

----------------------------------------------------------------------------
(* What the steps have in common.                                          *)

LEMMA FilledStays == Filled /\ UNCHANGED disk => Filled'
BY DEF Filled

LEMMA SharedStays ==
  ASSUME Shared, UNCHANGED closed, torn => torn',
         verdict' \in {"running", "accepted"} => verdict \in {"running", "accepted"}
  PROVE  Shared'
<1>1. SuiteBaseline' = SuiteBaseline
  BY DEF SuiteBaseline
<1>2. ASSUME NEW k \in DOMAIN closed, Agreed(k) PROVE Agreed(k)'
  <2>1. closed'[k] = closed[k]
    OBVIOUS
  <2> QED BY <1>1, <1>2, <2>1 DEF Agreed
<1> QED BY <1>2 DEF Shared

LEMMA WitnessedStays ==
  ASSUME Witnessed, \A n : WasRead(n) => WasRead(n)', UNCHANGED <<disk, got, torn>>
  PROVE  Witnessed'
BY DEF Witnessed

(* The second reading has not begun, or it is where it was.                *)
LEMMA RereadLater ==
  ASSUME at'.phase \notin {"records", "close"} \/ again' = << >>
  PROVE  Reread'
BY DEF Reread

(* The end of a verification asks for nothing more of what was read.       *)
LEMMA OrderedAtEnd ==
  ASSUME at'.phase = "done", again' \in Seq(Elements(again'))
  PROVE  Ordered'
<1>1. Elements(again)' = Elements(again')
  BY DEF Elements
<1> QED BY <1>1 DEF Ordered

(* What it takes in the phases of a campaign that read the pack once.      *)
LEMMA OrderedEarly ==
  ASSUME at'.phase \in {"list", "types", "manifest", "accept"}, got' = << >>, again' = << >>
  PROVE  Ordered'
BY DEF Ordered, Elements

LEMMA OrderedInPack ==
  ASSUME at'.phase \in {"campaign", "evidence", "published", "context"}, again' = << >>,
         DOMAIN got' \subseteq Belongs(at'.campaign)
  PROVE  Ordered'
BY DEF Ordered, Elements, Belongs

LEMMA EndIsDone == at' = Step("done", 0) => at'.phase = "done"
BY DEF Step

(* A judged step that reads at most a file of the suite, and none of the   *)
(* pack, keeps the first reading and what was closed.                      *)
LEMMA SuiteStepKeeps ==
  ASSUME Readings, verdict = "running", \A n : WasRead(n) => WasRead(n)',
         UNCHANGED <<disk, got, closed, torn>>
  PROVE  Filled' /\ Witnessed' /\ Shared'
BY FilledStays, WitnessedStays, SharedStays DEF Readings

(* A read of the pack's verifier.                                          *)
LEMMA PackReadWitness ==
  ASSUME Inv, Readings, verdict = "running", NEW name \in Entries, NEW next,
         PackRead(name, next)
  PROVE  /\ Filled' /\ Witnessed' /\ Shared' /\ UNCHANGED again
         /\ \/ at' = Step("done", 0)
            \/ at' = next /\ DOMAIN got' = DOMAIN got \cup {name}
<1>1. PICK error : error = IF ReadError(disk[name]) # NoError THEN "CampaignVerification"
                           ELSE NoError
  OBVIOUS
<1>2. /\ ReadText(name) /\ Judge(error, next) /\ UNCHANGED <<disk, again, closed, torn>>
      /\ got' = IF ReadError(disk[name]) # NoError THEN got
                ELSE [n \in DOMAIN got \cup {name} |-> IF n = name THEN disk[name] ELSE got[n]]
  BY <1>1, Zenon DEF PackRead
<1>3. error \in NotAccepting /\ (error = NoError <=> ReadError(disk[name]) = NoError)
  BY <1>1 DEF NotAccepting, SuiteErrors, NoError
<1>4. \/ error = NoError /\ at' = next
      \/ error # NoError /\ at' = Step("done", 0)
  BY <1>2, <1>3, JudgedWell
<1>5. Filled' /\ Shared'
  BY <1>2, FilledStays, SharedStays DEF Readings
<1>6. Accounts /\ disk[name].size \in Nat /\ disk[name].advertised \in Nat
  BY DEF Inv, Sizes
<1>7. \A n : WasRead(n) => WasRead(n)'
  BY <1>2, <1>6, ReadTextWitness
<1>8. name \in Files /\ ReadError(disk[name]) = NoError => WasRead(name)'
  BY <1>2, <1>6, ReadTextWitness DEF Readings, Filled
<1>9. Witnessed'
  <2>1. CASE ReadError(disk[name]) # NoError
    BY <1>2, <1>7, <2>1, WitnessedStays DEF Readings
  <2>2. CASE ReadError(disk[name]) = NoError
    <3>1. got' = [n \in DOMAIN got \cup {name} |-> IF n = name THEN disk[name] ELSE got[n]]
      BY <1>2, <2>2
    <3>2. ASSUME NEW n \in DOMAIN got' \cap Files
          PROVE  WasRead(n)' /\ (~torn' => got'[n] = disk'[n])
      <4>1. CASE n = name
        BY <1>2, <1>8, <2>2, <3>1, <3>2, <4>1
      <4>2. CASE n # name
        <5>1. n \in DOMAIN got \cap Files /\ got'[n] = got[n]
          BY <3>1, <3>2, <4>2
        <5>2. WasRead(n) /\ (~torn => got[n] = disk[n])
          BY <5>1 DEF Readings, Witnessed
        <5> QED BY <1>2, <1>7, <5>1, <5>2
      <4> QED BY <4>1, <4>2
    <3> QED BY <3>2 DEF Witnessed
  <2> QED BY <2>1, <2>2
<1> QED BY <1>2, <1>3, <1>4, <1>5, <1>9

(* In a step that leaves both readings as they are.                        *)
LEMMA AgainStays == Ordered /\ UNCHANGED again => again' \in Seq(Elements(again'))
BY DEF Ordered

LEMMA Appended ==
  ASSUME NEW S, NEW s \in Seq(S), NEW x \in S
  PROVE  /\ Len(Append(s, x)) = Len(s) + 1 /\ DOMAIN Append(s, x) = 1 .. Len(s) + 1
         /\ Append(s, x)[Len(s) + 1] = x
         /\ \A k \in 1 .. Len(s) : Append(s, x)[k] = s[k]
OBVIOUS

(* A campaign that is closed without an error.                             *)
LEMMA ClosedWell ==
  ASSUME NEW c, CloseError(c) = NoError
  PROVE  /\ PositionComparisonError(ObservedRecords(c, again)) = NoError
         /\ closed # << >> => SuiteBaseline = BaselineIdentity(c, again)
<1>1. PICK p2, p4, p5 :
        CloseError(c)
          = FirstError(<< <<PositionComparisonError(ObservedRecords(c, again)) # NoError,
                            "ComparisonInvalid">>, <<p2, "BudgetMismatch">>,
                          <<closed # << >> /\ SuiteBaseline # BaselineIdentity(c, again),
                            "CrossCampaignBaselineMismatch">>,
                          <<p4, "CrossCampaignTraceMismatch">>, <<p5, "BudgetMismatch">> >>)
  BY Zenon DEF CloseError
<1>2. PICK w :
        w = << <<PositionComparisonError(ObservedRecords(c, again)) # NoError,
                 "ComparisonInvalid">>, <<p2, "BudgetMismatch">>,
               <<closed # << >> /\ SuiteBaseline # BaselineIdentity(c, again),
                 "CrossCampaignBaselineMismatch">>,
               <<p4, "CrossCampaignTraceMismatch">>, <<p5, "BudgetMismatch">> >>
  OBVIOUS
<1>3. DOMAIN w = 1 .. 5 /\ \A k \in 1 .. 5 : w[k][2] # NoError
  <2>1. \A k \in 1 .. 5 : k = 1 \/ k = 2 \/ k = 3 \/ k = 4 \/ k = 5
    OBVIOUS
  <2> QED BY <1>2, <2>1 DEF NoError
<1>4. FirstError(w) = NoError
  BY <1>1, <1>2
<1>5. ~w[1][1] /\ ~w[3][1]
  BY <1>3, <1>4, NoneFired
<1>6. /\ w[1][1] = (PositionComparisonError(ObservedRecords(c, again)) # NoError)
      /\ w[3][1] = (closed # << >> /\ SuiteBaseline # BaselineIdentity(c, again))
  BY <1>2
<1> QED BY <1>5, <1>6

LEMMA AgreedGrows ==
  ASSUME Shared, verdict = "running", NEW r, closed' = Append(closed, r),
         closed \in Seq(Elements(closed)), NEW c, c = Len(closed) + 1, UNCHANGED torn,
         PositionComparisonError(ObservedRecords(c, r.again)) = NoError,
         closed # << >> => SuiteBaseline = BaselineIdentity(c, r.again),
         DOMAIN r.again = DOMAIN Policies, DOMAIN r.got \subseteq Belongs(c),
         ~torn => \A i \in DOMAIN Policies : r.again[i] = r.got[Record(c, i)],
         NEW k \in DOMAIN closed'
  PROVE  Agreed(k)'
<1>1. PICK n : n = Len(closed)
  OBVIOUS
<1>2. PICK S : S = Elements(closed) \cup {r}
  OBVIOUS
<1>3. closed \in Seq(S) /\ r \in S
  BY <1>2
<1>4. /\ n \in Nat /\ DOMAIN closed = 1 .. n /\ DOMAIN closed' = 1 .. n + 1
      /\ closed'[n + 1] = r /\ \A j \in 1 .. n : closed'[j] = closed[j]
      /\ closed # << >> <=> n # 0
  BY <1>1, <1>3
<1>5. CASE k \in 1 .. n
  <2>1. Agreed(k)
    BY <1>4, <1>5 DEF Shared
  <2>2. closed'[k] = closed[k] /\ closed'[1] = closed[1]
    BY <1>4, <1>5
  <2>3. SuiteBaseline' = SuiteBaseline
    BY <2>2 DEF SuiteBaseline
  <2> QED BY <2>1, <2>2, <2>3 DEF Agreed
<1>6. CASE k = n + 1
  <2>1. closed'[k] = r /\ k = c
    BY <1>1, <1>4, <1>6
  <2>2. SuiteBaseline' = BaselineIdentity(c, r.again)
    <3>1. CASE n = 0
      <4>1. closed'[1] = r /\ c = 1
        BY <1>1, <1>4, <3>1
      <4> QED BY <4>1 DEF SuiteBaseline
    <3>2. CASE n # 0
      <4>1. closed'[1] = closed[1] /\ SuiteBaseline = BaselineIdentity(c, r.again)
        BY <1>4, <3>2
      <4> QED BY <4>1 DEF SuiteBaseline
    <3> QED BY <3>1, <3>2
  <2> QED BY <2>1, <2>2 DEF Agreed
<1> QED BY <1>4, <1>5, <1>6

LEMMA StepKeepsReadings == Inv /\ Progress /\ Readings /\ [Next]_vars => Readings'
<1> SUFFICES ASSUME Inv, Progress, Readings, [Next]_vars PROVE Readings'
  OBVIOUS
<1>0. Filled /\ Ordered /\ Witnessed /\ Reread /\ Shared
  BY DEF Readings
<1>p. /\ at.phase \notin {"suite", "list", "accept", "done"} => at.campaign \in Campaigns
      /\ at.phase = "records" => at.record \in DOMAIN Policies
      /\ at \in [phase : Phases, campaign : Nat, record : Nat]
  BY DEF Inv, Standing
<1>s. \A phase, c : /\ Step(phase, c).phase = phase /\ Step(phase, c).campaign = c
                    /\ Step(phase, c).record = 0
  BY DEF Step
<1>e. ASSUME at' = Step("done", 0), UNCHANGED again PROVE Ordered' /\ Reread'
  <2>1. at'.phase = "done"
    BY <1>e, EndIsDone
  <2>2. again' \in Seq(Elements(again'))
    BY <1>0, <1>e, AgainStays
  <2> QED BY <2>1, <2>2, OrderedAtEnd, RereadLater
<1>q. UNCHANGED consumed => \A n : WasRead(n) => WasRead(n)'
  BY DEF WasRead
<1>f. /\ SuiteFile \in Files
      /\ \A c \in Campaigns :
           /\ Published(c) \in Files /\ Campaign(c) \in Files /\ Manifest(c) \in Files
           /\ \A i \in DOMAIN Policies : Record(c, i) \in Files
  <2>1. SuiteFile \in Files
    BY Zenon DEF Files
  <2>2. ASSUME NEW c \in Campaigns
        PROVE  /\ Published(c) \in Files /\ Campaign(c) \in Files /\ Manifest(c) \in Files
               /\ \A i \in DOMAIN Policies : Record(c, i) \in Files
    <3>1. PackFiles(c) \cup {Published(c)} \subseteq Files
      BY Zenon DEF Files
    <3>2. Manifest(c) \in PackFiles(c) /\ Campaign(c) \in PackFiles(c)
      BY Zenon DEF PackFiles
    <3>3. \A i \in DOMAIN Policies : Record(c, i) \in PackFiles(c)
      BY Zenon DEF PackFiles, Records
    <3> QED BY <3>1, <3>2, <3>3, Zenon
  <2> QED BY <2>1, <2>2
<1>1. CASE ReadSuiteManifest
  <2>1. PICK error :
          error = FirstOf(<<SuiteReadError(disk[SuiteFile]),
                            SuiteManifestError(Text(SuiteFile, disk[SuiteFile]))>>)
    OBVIOUS
  <2>2. /\ verdict = "running" /\ at.phase = "suite" /\ SuiteRead(SuiteFile)
        /\ UNCHANGED <<disk, got, again, closed, torn>>
        /\ Judge(error, Step("list", 0))
    BY <1>1, <2>1, Zenon DEF ReadSuiteManifest, In
  <2>3. error \in NotAccepting
    BY <2>1, SuiteReadErrors, SuiteManifestErrors, FirstOfBoth
  <2>4. Filled' /\ Witnessed' /\ Shared'
    BY <1>0, <1>f, <2>2, SuiteReadWitness, SuiteStepKeeps
  <2>5. at' = Step("list", 0) \/ at' = Step("done", 0)
    BY <2>2, <2>3, JudgedWell
  <2>6. ASSUME at' = Step("list", 0) PROVE Ordered' /\ Reread'
    <3>1. at'.phase = "list" /\ got = << >> /\ again = << >>
      BY <1>0, <1>s, <2>2, <2>6 DEF Ordered
    <3> QED BY <2>2, <3>1, OrderedEarly, RereadLater
  <2> QED BY <1>e, <2>2, <2>4, <2>5, <2>6 DEF Readings
<1>2. CASE ListSuite
  <2>1. /\ verdict = "running" /\ at.phase = "list"
        /\ UNCHANGED <<disk, got, again, closed, torn, consumed>>
        /\ Judge(DirectoryError, Step("types", 1))
    BY <1>2, Zenon DEF ListSuite, In
  <2>2. Filled' /\ Witnessed' /\ Shared'
    BY <1>q, <2>1, SuiteStepKeeps
  <2>3. at' = Step("types", 1) \/ at' = Step("done", 0)
    BY <2>1, DirectoryErrors, JudgedWell
  <2>4. ASSUME at' = Step("types", 1) PROVE Ordered' /\ Reread'
    <3>1. at'.phase = "types" /\ got = << >> /\ again = << >>
      BY <1>0, <1>s, <2>1, <2>4 DEF Ordered
    <3> QED BY <2>1, <3>1, OrderedEarly, RereadLater
  <2> QED BY <1>e, <2>1, <2>2, <2>3, <2>4 DEF Readings
<1>3. CASE CheckEntryTypes
  <2>1. /\ verdict = "running" /\ at.phase = "types"
        /\ UNCHANGED <<disk, got, again, closed, torn, consumed>>
        /\ Judge(EntryTypesError(at.campaign), Step("manifest", at.campaign))
    BY <1>3, Zenon DEF CheckEntryTypes, In
  <2>2. Filled' /\ Witnessed' /\ Shared'
    BY <1>q, <2>1, SuiteStepKeeps
  <2>3. at' = Step("manifest", at.campaign) \/ at' = Step("done", 0)
    BY <2>1, EntryTypesErrors, JudgedWell
  <2>4. ASSUME at' = Step("manifest", at.campaign) PROVE Ordered' /\ Reread'
    <3>1. at'.phase = "manifest" /\ got = << >> /\ again = << >>
      BY <1>0, <1>s, <2>1, <2>4 DEF Ordered
    <3> QED BY <2>1, <3>1, OrderedEarly, RereadLater
  <2> QED BY <1>e, <2>1, <2>2, <2>3, <2>4 DEF Readings
<1>4. CASE ReadPackManifest
  <2> DEFINE c == at.campaign
  <2>1. /\ verdict = "running" /\ at.phase = "manifest"
        /\ PackRead(Manifest(c), Step("campaign", c))
    BY <1>4, Zenon DEF ReadPackManifest, In
  <2>2. c \in Campaigns /\ got = << >> /\ again = << >>
    BY <1>0, <1>p, <2>1 DEF Ordered
  <2>3. /\ Filled' /\ Witnessed' /\ Shared' /\ UNCHANGED again
        /\ \/ at' = Step("done", 0)
           \/ at' = Step("campaign", c) /\ DOMAIN got' = DOMAIN got \cup {Manifest(c)}
    BY <2>1, <2>2, FilesAreEntries, PackReadWitness
  <2>4. ASSUME at' = Step("campaign", c), DOMAIN got' = DOMAIN got \cup {Manifest(c)}
        PROVE  Ordered' /\ Reread'
    <3>1. at'.phase = "campaign" /\ at'.campaign = c
      BY <1>s, <2>4
    <3>2. Manifest(c) \in Belongs(c)
      BY Zenon DEF Belongs, PackFiles
    <3>3. DOMAIN got' \subseteq Belongs(c)
      BY <2>2, <2>4, <3>2
    <3> QED BY <2>2, <2>3, <3>1, <3>3, OrderedInPack, RereadLater
  <2> QED BY <1>e, <2>3, <2>4 DEF Readings
<1>5. CASE ReadPackCampaign
  <2> DEFINE c == at.campaign
  <2>1. /\ verdict = "running" /\ at.phase = "campaign"
        /\ PackRead(Campaign(c), Step("evidence", c))
    BY <1>5, Zenon DEF ReadPackCampaign, In
  <2>2. c \in Campaigns /\ DOMAIN got \subseteq Belongs(c) /\ again = << >>
    BY <1>0, <1>p, <2>1 DEF Ordered
  <2>3. /\ Filled' /\ Witnessed' /\ Shared' /\ UNCHANGED again
        /\ \/ at' = Step("done", 0)
           \/ at' = Step("evidence", c) /\ DOMAIN got' = DOMAIN got \cup {Campaign(c)}
    BY <2>1, <2>2, FilesAreEntries, PackReadWitness
  <2>4. ASSUME at' = Step("evidence", c), DOMAIN got' = DOMAIN got \cup {Campaign(c)}
        PROVE  Ordered' /\ Reread'
    <3>1. at'.phase = "evidence" /\ at'.campaign = c
      BY <1>s, <2>4
    <3>2. Campaign(c) \in Belongs(c)
      BY Zenon DEF Belongs, PackFiles
    <3>3. DOMAIN got' \subseteq Belongs(c)
      BY <2>2, <2>4, <3>2
    <3> QED BY <2>2, <2>3, <3>1, <3>3, OrderedInPack, RereadLater
  <2> QED BY <1>e, <2>3, <2>4 DEF Readings
<1>6. CASE ReadEvidence
  <2> DEFINE c == at.campaign
  <2>1. /\ verdict = "running" /\ at.phase = "evidence"
        /\ \E name \in Listed(c) : PackRead(name, at)
    BY <1>6, Zenon DEF ReadEvidence, In
  <2>2. c \in Campaigns /\ DOMAIN got \subseteq Belongs(c) /\ again = << >>
    BY <1>0, <1>p, <2>1 DEF Ordered
  <2>3. PICK name \in Listed(c) : PackRead(name, at)
    BY <2>1
  <2>4. name \in Belongs(c) /\ name \in Entries
    <3>1. Listed(c) \subseteq Belongs(c)
      BY Zenon DEF Listed, Belongs
    <3> QED BY <2>2, <3>1, FilesAreEntries
  <2>5. /\ Filled' /\ Witnessed' /\ Shared' /\ UNCHANGED again
        /\ \/ at' = Step("done", 0)
           \/ at' = at /\ DOMAIN got' = DOMAIN got \cup {name}
    BY <2>1, <2>3, <2>4, PackReadWitness
  <2>6. ASSUME at' = at, DOMAIN got' = DOMAIN got \cup {name}
        PROVE  Ordered' /\ Reread'
    <3>1. at'.phase = "evidence" /\ at'.campaign = c
      BY <2>1, <2>6
    <3>2. DOMAIN got' \subseteq Belongs(c)
      BY <2>2, <2>4, <2>6
    <3> QED BY <2>2, <2>5, <3>1, <3>2, OrderedInPack, RereadLater
  <2> QED BY <1>e, <2>5, <2>6 DEF Readings
<1>7. CASE VerifyPack
  <2> DEFINE c == at.campaign
  <2>1. PICK error : error = PackVerdict(c, got)
    OBVIOUS
  <2>2. /\ verdict = "running" /\ at.phase = "evidence"
        /\ UNCHANGED <<disk, got, again, closed, torn, consumed>>
        /\ Judge(error, Step("published", c))
    BY <1>7, <2>1, Zenon DEF VerifyPack, In
  <2>3. error \in NotAccepting
    BY <2>1, OtherErrors
  <2>4. Filled' /\ Witnessed' /\ Shared'
    BY <1>q, <2>2, SuiteStepKeeps
  <2>5. at' = Step("published", c) \/ at' = Step("done", 0)
    BY <2>2, <2>3, JudgedWell
  <2>6. ASSUME at' = Step("published", c) PROVE Ordered' /\ Reread'
    <3>1. at'.phase = "published" /\ at'.campaign = c
      BY <1>s, <2>6
    <3>2. DOMAIN got \subseteq Belongs(c) /\ again = << >>
      BY <1>0, <2>2 DEF Ordered
    <3> QED BY <2>2, <3>1, <3>2, OrderedInPack, RereadLater
  <2> QED BY <1>e, <2>2, <2>4, <2>5, <2>6 DEF Readings
<1>8. CASE ReadPublished
  <2> DEFINE c == at.campaign
             file == disk[Published(c)]
  <2>1. PICK error : error = IF SuiteReadError(file) # NoError THEN SuiteReadError(file)
                             ELSE PublishedError(c, file)
    OBVIOUS
  <2>2. /\ verdict = "running" /\ at.phase = "published" /\ SuiteRead(Published(c))
        /\ UNCHANGED <<disk, got, again, closed, torn>>
        /\ Judge(error, Step("context", c))
    BY <1>8, <2>1, Zenon DEF ReadPublished, In
  <2>3. error \in NotAccepting
    BY <2>1, SuiteReadErrors, OtherErrors
  <2>4. Filled' /\ Witnessed' /\ Shared'
    BY <1>0, <1>p, <1>f, <2>2, SuiteReadWitness, SuiteStepKeeps
  <2>5. at' = Step("context", c) \/ at' = Step("done", 0)
    BY <2>2, <2>3, JudgedWell
  <2>6. ASSUME at' = Step("context", c) PROVE Ordered' /\ Reread'
    <3>1. at'.phase = "context" /\ at'.campaign = c
      BY <1>s, <2>6
    <3>2. DOMAIN got \subseteq Belongs(c) /\ again = << >>
      BY <1>0, <2>2 DEF Ordered
    <3> QED BY <2>2, <3>1, <3>2, OrderedInPack, RereadLater
  <2> QED BY <1>e, <2>2, <2>4, <2>5, <2>6 DEF Readings
<1>9. CASE ReadContext
  <2> DEFINE c == at.campaign
             file == disk[Campaign(c)]
             next == [Step("records", c) EXCEPT !.record = 1]
  <2>1. PICK error : error = IF SuiteReadError(file) # NoError THEN SuiteReadError(file)
                             ELSE ContextError(c, file)
    OBVIOUS
  <2>2. /\ verdict = "running" /\ at.phase = "context" /\ SuiteRead(Campaign(c))
        /\ UNCHANGED <<disk, got, again, closed, torn>>
        /\ Judge(error, next)
    BY <1>9, <2>1, Zenon DEF ReadContext, In
  <2>3. error \in NotAccepting
    BY <2>1, SuiteReadErrors, ContextErrors
  <2>4. Filled' /\ Witnessed' /\ Shared'
    BY <1>0, <1>p, <1>f, <2>2, SuiteReadWitness, SuiteStepKeeps
  <2>5. next.phase = "records" /\ next.campaign = c /\ next.record = 1
    BY DEF Step
  <2> HIDE DEF next
  <2>6. at' = next \/ at' = Step("done", 0)
    BY <2>2, <2>3, JudgedWell
  <2>7. ASSUME at' = next PROVE Ordered' /\ Reread'
    <3>1. at'.phase = "records" /\ at'.campaign = c /\ at'.record = 1
      BY <2>5, <2>7
    <3>2. DOMAIN got \subseteq Belongs(c) /\ again = << >>
      BY <1>0, <2>2 DEF Ordered
    <3>3. Ordered'
      BY <2>2, <3>1, <3>2 DEF Ordered, Elements, Belongs
    <3> QED BY <2>2, <3>2, <3>3, RereadLater
  <2> QED BY <1>e, <2>2, <2>4, <2>6, <2>7 DEF Readings
<1>10. CASE ReadRecordAgain
  <2> DEFINE c == at.campaign
             i == at.record
             file == disk[Record(c, i)]
             next == IF i < Len(Policies) THEN [at EXCEPT !.record = i + 1]
                     ELSE Step("close", c)
  <2>1. PICK error : error = IF SuiteReadError(file) # NoError THEN SuiteReadError(file)
                             ELSE RecordAgainError(c, i, file)
    OBVIOUS
  <2>2. /\ verdict = "running" /\ at.phase = "records" /\ SuiteRead(Record(c, i))
        /\ UNCHANGED <<disk, got, closed, torn>>
        /\ Judge(error, next)
        /\ again' = IF SuiteReadError(file) # NoError THEN again ELSE Append(again, file)
    BY <1>10, <2>1, Zenon DEF ReadRecordAgain, In
  <2>3. error \in NotAccepting
    BY <2>1, SuiteReadErrors, OtherErrors
  <2>4. c \in Campaigns /\ i \in DOMAIN Policies
    BY <1>p, <2>2
  <2>5. Filled' /\ Witnessed' /\ Shared'
    BY <1>0, <1>f, <2>2, <2>4, SuiteReadWitness, SuiteStepKeeps
  <2>6. \/ error = NoError /\ at' = next
        \/ error # NoError /\ at' = Step("done", 0)
    BY <2>2, <2>3, JudgedWell
  <2>7. PICK n : n = Len(again)
    OBVIOUS
  <2>8. /\ again \in Seq(Elements(again)) /\ n \in Nat /\ DOMAIN again = 1 .. n
        /\ n = i - 1 /\ DOMAIN got \subseteq Belongs(c)
    BY <1>0, <2>2, <2>7 DEF Ordered
  <2>9. PICK S : S = Elements(again) \cup {file}
    OBVIOUS
  <2>10. again \in Seq(S) /\ again' \in Seq(S)
    BY <2>2, <2>8, <2>9
  <2>11. again' \in Seq(Elements(again'))
    BY <2>10, SeqOfElements
  <2>12. ASSUME error # NoError, at' = Step("done", 0) PROVE Ordered' /\ Reread'
    <3>1. at'.phase = "done"
      BY <2>12, EndIsDone
    <3> QED BY <2>11, <3>1, OrderedAtEnd, RereadLater
  <2>13. ASSUME error = NoError, at' = next PROVE Ordered' /\ Reread'
    <3>1. again' = Append(again, file)
      BY <2>1, <2>2, <2>13
    <3>2. /\ Len(again') = i /\ DOMAIN again' = 1 .. i
          /\ again'[i] = file
          /\ \A k \in 1 .. n : again'[k] = again[k]
      <4>1. /\ Len(again') = n + 1 /\ DOMAIN again' = 1 .. n + 1
            /\ again'[n + 1] = file
            /\ \A k \in 1 .. n : again'[k] = again[k]
        BY <2>7, <2>9, <2>10, <3>1, Appended
      <4>2. i = n + 1
        <5>1. i \in Nat
          BY <2>4, SuiteAssumption
        <5> QED BY <2>8, <5>1
      <4> QED BY <4>1, <4>2
    <3>3. /\ at'.campaign = c
          /\ \/ at'.phase = "records" /\ at'.record = i + 1
             \/ at'.phase = "close" /\ i = Len(Policies)
      <4>1. i \in Nat /\ i <= Len(Policies) /\ Len(Policies) \in Nat
        BY <2>4, SuiteAssumption
      <4>2. CASE i < Len(Policies)
        BY <1>p, <2>2, <2>13, <4>2
      <4>3. CASE ~(i < Len(Policies))
        <5>1. i = Len(Policies)
          BY <4>1, <4>3
        <5> QED BY <1>s, <2>13, <4>3, <5>1
      <4> QED BY <4>2, <4>3
    <3>4. Ordered'
      <4>1. Elements(again)' = Elements(again')
        BY DEF Elements
      <4>2. DOMAIN got' \subseteq Belongs(at'.campaign)
        BY <2>2, <2>8, <3>3
      <4>3. at'.phase = "records" => Len(again') = at'.record - 1
        BY <2>8, <3>2, <3>3
      <4>4. at'.phase = "close" => Len(again') = Len(Policies)
        BY <3>2, <3>3
      <4> QED BY <2>11, <3>3, <4>1, <4>2, <4>3, <4>4 DEF Ordered, Belongs
    <3>5. Reread'
      <4> SUFFICES ASSUME ~torn', NEW k \in DOMAIN again'
                   PROVE  again'[k] = got'[Record(at'.campaign, k)]
        BY DEF Reread
      <4>1. ~torn /\ got' = got /\ at'.campaign = c
        BY <2>2, <3>3
      <4>2. CASE k \in 1 .. n
        <5>1. again[k] = got[Record(c, k)]
          BY <1>0, <2>2, <2>8, <4>1, <4>2 DEF Reread
        <5> QED BY <3>2, <4>1, <4>2, <5>1
      <4>3. CASE k = i
        <5>1. Passed(c, got)
          BY <2>2 DEF Progress, Gathered
        <5>2. Record(c, i) \in DOMAIN got /\ Record(c, i) \in Files
          BY <1>f, <2>4, <2>8, <5>1, PackIsWhole
        <5>3. got[Record(c, i)] = file
          BY <1>0, <4>1, <5>2 DEF Witnessed
        <5> QED BY <3>2, <4>1, <4>3, <5>3
      <4>4. k \in 1 .. n \/ k = i
        BY <2>8, <3>2
      <4> QED BY <4>2, <4>3, <4>4
    <3> QED BY <3>4, <3>5
  <2> QED BY <2>5, <2>6, <2>12, <2>13 DEF Readings
<1>11. CASE CloseCampaign
  <2> DEFINE c == at.campaign
             next == IF c < Len(RetainCounts) THEN Step("types", c + 1) ELSE Step("accept", 0)
  <2>1. PICK r : r = [again |-> again, got |-> got, traceDigest |-> SummaryOf(c, got).traceDigest]
    OBVIOUS
  <2>2. /\ verdict = "running" /\ at.phase = "close"
        /\ UNCHANGED <<disk, torn, consumed>> /\ got' = << >> /\ again' = << >>
        /\ Judge(CloseError(c), next) /\ closed' = Append(closed, r)
    BY <1>11, <2>1, Zenon DEF CloseCampaign, In
  <2>3. r.got = got /\ r.again = again
    BY <2>1
  <2>4. c = Len(closed) + 1 /\ closed \in Seq(Elements(closed))
    BY <2>2 DEF Progress, Counted, Archived
  <2>5. Filled' /\ Witnessed'
    BY <1>0, <2>2, FilledStays DEF Witnessed
  <2>6. \/ CloseError(c) = NoError /\ at' = next
        \/ CloseError(c) # NoError /\ at' = Step("done", 0)
    BY <2>2, CloseErrors, JudgedWell
  <2>7. Ordered' /\ Reread'
    <3>1. Reread'
      BY <2>2, RereadLater
    <3>2. at' = next => at'.phase \in {"types", "accept"}
      BY <1>s
    <3>3. at' = Step("done", 0) => at'.phase = "done"
      BY EndIsDone
    <3>4. again' \in Seq(Elements(again'))
      BY <2>2 DEF Elements
    <3> HIDE DEF next
    <3> QED BY <2>2, <2>6, <3>1, <3>2, <3>3, <3>4, OrderedEarly, OrderedAtEnd
  <2>8. Shared'
    <3>1. CASE CloseError(c) # NoError
      <4>1. verdict' = CloseError(c)
        BY <2>2, <3>1 DEF Judge
      <4>2. verdict' \notin {"running", "accepted"}
        BY <3>1, <4>1, CloseErrors DEF NotAccepting, SuiteErrors
      <4> QED BY <4>2 DEF Shared
    <3>2. CASE CloseError(c) = NoError
      <4>1. /\ PositionComparisonError(ObservedRecords(c, again)) = NoError
            /\ closed # << >> => SuiteBaseline = BaselineIdentity(c, again)
        BY <3>2, ClosedWell
      <4>2. /\ DOMAIN again = DOMAIN Policies
            /\ DOMAIN got \subseteq Belongs(c)
            /\ ~torn => \A i \in DOMAIN Policies : again[i] = got[Record(c, i)]
        <5>1. again \in Seq(Elements(again)) /\ Len(again) = Len(Policies)
              /\ DOMAIN got \subseteq Belongs(c)
          BY <1>0, <2>2 DEF Ordered
        <5>2. DOMAIN again = DOMAIN Policies
          BY <5>1, SuiteAssumption
        <5>3. ASSUME ~torn PROVE \A i \in DOMAIN again : again[i] = got[Record(c, i)]
          BY <1>0, <2>2, <5>3 DEF Reread
        <5> QED BY <5>1, <5>2, <5>3
      <4>3. ASSUME NEW k \in DOMAIN closed' PROVE Agreed(k)'
        BY <1>0, <2>2, <2>3, <2>4, <4>1, <4>2, <4>3, AgreedGrows
      <4> QED BY <4>3 DEF Shared
    <3> QED BY <3>1, <3>2
  <2> QED BY <2>5, <2>7, <2>8 DEF Readings
<1>12. CASE Accept
  <2>1. /\ verdict = "running" /\ at.phase = "accept"
        /\ UNCHANGED <<disk, got, again, closed, torn, consumed>>
        /\ at' = Step("done", 0)
    BY <1>12, Zenon DEF Accept, In
  <2>2. Filled' /\ Witnessed' /\ Shared'
    BY <1>q, <2>1, SuiteStepKeeps
  <2> QED BY <1>e, <2>1, <2>2 DEF Readings
<1>13. CASE Rewrite
  <2>1. PICK name \in Files :
          /\ disk' = [disk EXCEPT ![name] = Plain(name, target)]
          /\ torn' = (torn \/ WasRead(name))
    BY <1>13, Zenon DEF Rewrite
  <2>2. verdict = "running" /\ UNCHANGED <<at, got, again, closed, verdict, consumed>>
    BY <1>13, Zenon DEF Rewrite
  <2>3. /\ disk'[name] = Plain(name, target)
        /\ \A e \in Entries : e # name => disk'[e] = disk[e]
    BY <2>1, FilesAreEntries DEF Inv, Sizes
  <2>4. Filled'
    <3>1. Plain(name, target).size = 1
      BY DEF Plain
    <3> QED BY <1>0, <2>3, <3>1, FilesAreEntries DEF Filled
  <2>5. torn => torn'
    BY <2>1
  <2>6. Shared'
    BY <1>0, <2>2, <2>5, SharedStays
  <2>7. Ordered'
    BY <1>0, <2>2 DEF Ordered, Elements, Belongs
  <2>8. Reread'
    BY <1>0, <2>2, <2>5 DEF Reread
  <2>9. Witnessed'
    <3> SUFFICES ASSUME NEW n \in DOMAIN got' \cap Files
                 PROVE  WasRead(n)' /\ (~torn' => got'[n] = disk'[n])
      BY DEF Witnessed
    <3>1. WasRead(n) /\ (~torn => got[n] = disk[n])
      BY <1>0, <2>2 DEF Witnessed
    <3>2. WasRead(n)'
      BY <1>q, <2>2, <3>1
    <3>3. ASSUME ~torn' PROVE got'[n] = disk'[n]
      <4>1. ~torn /\ n # name
        BY <2>1, <3>1, <3>3
      <4>2. n \in Entries
        BY FilesAreEntries
      <4> QED BY <2>2, <2>3, <3>1, <4>1, <4>2
    <3> QED BY <3>2, <3>3
  <2> QED BY <2>4, <2>6, <2>7, <2>8, <2>9 DEF Readings
<1>14. CASE UNCHANGED vars
  <2>1. UNCHANGED <<disk, at, got, again, closed, verdict, consumed, torn>>
    BY <1>14 DEF vars
  <2>2. Filled' /\ Witnessed' /\ Shared'
    BY <1>0, <1>q, <2>1, FilledStays, WitnessedStays, SharedStays
  <2>3. Ordered'
    BY <1>0, <2>1 DEF Ordered, Elements, Belongs
  <2>4. Reread'
    BY <1>0, <2>1 DEF Reread
  <2> QED BY <2>2, <2>3, <2>4 DEF Readings
<1> QED BY <1>1, <1>2, <1>3, <1>4, <1>5, <1>6, <1>7, <1>8, <1>9, <1>10, <1>11, <1>12,
           <1>13, <1>14 DEF Next, Verify

(* As long as no file was replaced after it had been read, the records are *)
(* read twice alike, and the campaigns that were closed share the first    *)
(* one's baseline.                                                         *)
THEOREM ReadingsInvariance == Spec => []Readings
<1> QED BY ReadingsInit, StepKeepsReadings, Invariance, ProgressInvariance, PTL DEF Spec

(* An accepted suite names one baseline: as long as no file was replaced   *)
(* after it had been read, it is the baseline of every observation the     *)
(* suite reports, although it was taken from the second reading.           *)
THEOREM BaselineIsAlwaysShared == Spec => []BaselineIsShared
<1>1. Progress /\ Readings => BaselineIsShared
  <2> SUFFICES ASSUME Progress, Readings, verdict = "accepted", ~torn,
                      NEW c \in Campaigns, NEW o \in Elements(Reported(c).observations)
               PROVE  [i \in DOMAIN o.metrics |-> Side(o.metrics[i], o.metrics[i].baseline)]
                        = SuiteBaseline.metrics
    BY DEF BaselineIsShared
  <2>1. Len(closed) = Len(RetainCounts)
    BY DEF Progress, Counted
  <2>2. c \in DOMAIN closed
    BY <2>1, SuiteAssumption DEF Progress, Archived, Campaigns
  <2>3. PICK files : files = closed[c].got
    OBVIOUS
  <2>4. PICK second : second = closed[c].again
    OBVIOUS
  <2>5. PICK R : R = ObservedRecords(c, second)
    OBVIOUS
  <2>6. /\ Passed(c, files) /\ DOMAIN files \subseteq Belongs(c)
        /\ DOMAIN second = DOMAIN Policies
        /\ PositionComparisonError(R) = NoError
        /\ BaselineIdentity(c, second) = SuiteBaseline
        /\ \A i \in DOMAIN Policies : second[i] = files[Record(c, i)]
    <3>1. Agreed(c)
      BY <2>2 DEF Readings, Shared
    <3>2. Passed(c, files)
      BY <2>2, <2>3 DEF Progress, Archived
    <3> QED BY <2>3, <2>4, <2>5, <3>1, <3>2 DEF Agreed
  <2>7. R = [i \in DOMAIN Policies |-> PositionRecord(Text(Record(c, i), second[i]))]
    BY <2>5, <2>6, Zenon DEF ObservedRecords
  <2>8. PICK m : m = PackManifest(c, files)
    OBVIOUS
  <2>9. PICK records : records = PackRecords(c, files)
    OBVIOUS
  <2>10. DOMAIN m.records = DOMAIN Policies /\ DOMAIN Policies \subseteq Nat
    BY <2>6, <2>8, PassedSelects
  <2>11. PICK i \in DOMAIN m.records :
           o.metrics = PositionRecord(records[m.records[i].filename]).metrics
    BY <2>3, <2>8, <2>9, ObservationsAre DEF Reported
  <2>12. records[m.records[i].filename] = Text(Record(c, i), second[i])
    BY <2>6, <2>8, <2>9, <2>10, <2>11, PackIsWhole
  <2>13. o.metrics = R[i].metrics
    BY <2>7, <2>10, <2>11, <2>12
  <2>14. SameBaseline(R[1], R[i], "bits")
    <3>1. DOMAIN R = DOMAIN Policies
      BY <2>7
    <3> QED BY <2>6, <2>10, <2>11, <3>1, ComparedAlike
  <2>15. BaselineMetrics(R[1]) = BaselineMetrics(R[i])
    BY <2>14, BaselinesAreOne
  <2>16. BaselineMetrics(R[i])
           = [k \in DOMAIN o.metrics |-> Side(o.metrics[k], o.metrics[k].baseline)]
    <3>1. PICK metrics : metrics = o.metrics
      OBVIOUS
    <3>2. PICK record : record = R[i]
      OBVIOUS
    <3>3. record.metrics = metrics
      BY <2>13, <3>1, <3>2
    <3>4. BaselineMetrics(record) = [k \in DOMAIN record.metrics |->
             Side(record.metrics[k], record.metrics[k].baseline)]
      BY Zenon DEF BaselineMetrics
    <3> QED BY <3>1, <3>2, <3>3, <3>4
  <2>17. SuiteBaseline.metrics = BaselineMetrics(R[1])
    <3>1. BaselineIdentity(c, second).metrics = PositionBaseline(R[1]).metrics
      BY <2>5, Zenon DEF BaselineIdentity
    <3>2. PositionBaseline(R[1]).metrics = BaselineMetrics(R[1])
      BY Zenon DEF PositionBaseline
    <3> QED BY <2>6, <3>1, <3>2
  <2> QED BY <2>15, <2>16, <2>17
<1> QED BY <1>1, ProgressInvariance, ReadingsInvariance, PTL
=============================================================================
