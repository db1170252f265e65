------------------------------- MODULE Checks -------------------------------
(***************************************************************************)
(* What the readers, the solvers and the decision models of this           *)
(* repository have in common.                                              *)
(*                                                                         *)
(* They make their checks in a fixed order and return the first error.  A  *)
(* document is a record of fields; what its text is like, apart from them, *)
(* is its field "form":                                                    *)
(*   "good"          canonical text of the current schema;                 *)
(*   "noncanonical"  the same values written in another way;               *)
(*   "shape"         JSON with an unknown, missing or mistyped field;      *)
(*   "schema"        another schema identifier.                            *)
(***************************************************************************)
EXTENDS Integers, Sequences, FiniteSets, SequencesExt

Forms == {"good", "noncanonical", "shape", "schema"}

NoError == "none"

\* The error of the first check that fires; a check is <<when, error>>.
FirstError(checks) ==
  LET fired == { i \in DOMAIN checks : checks[i][1] }
  IN  IF fired = {} THEN NoError ELSE checks[Min(fired)][2]

\* The first error in a sequence of verdicts.
FirstOf(errors) ==
  FirstError([i \in DOMAIN errors |-> <<errors[i] # NoError, errors[i]>>])

\* The checks every canonical reader starts with.
FormChecks(text) ==
  << <<text.form = "noncanonical", "NonCanonicalJson">>,
     <<text.form = "shape", "Json">>,
     <<text.form = "schema", "UnsupportedSchema">> >>

\* No element of a sequence occurs in it twice.
Distinct(seq) == \A i, j \in DOMAIN seq : i < j => seq[i] # seq[j]

\* The elements of a sequence.
Elements(seq) == {seq[i] : i \in DOMAIN seq}

Magnitude(x) == IF x < 0 THEN -x ELSE x

----------------------------------------------------------------------------
(* Linear constraints [coefficients, relation, rhs], whether values        *)
(* satisfy one and whether a box of values can still satisfy it; orders;   *)
(* and a loop that keeps the best candidate it has met.  Sums are exact:   *)
(* the i128 of the code does not overflow on inputs a run can enumerate.   *)

\* lower <= form <= upper over a box: can the relation still hold?
Possible(relation, lower, upper, rhs) ==
  /\ relation # "GreaterOrEqual" => lower <= rhs
  /\ relation # "LessOrEqual" => upper >= rhs

Dot(coefficients, values) ==
  SumFunction([i \in DOMAIN coefficients |-> coefficients[i] * values[i]])

Holds(constraint, values) ==
  LET lhs == Dot(constraint.coefficients, values)
  IN  Possible(constraint.relation, lhs, lhs, constraint.rhs)

\* The least and the greatest value of a form over a box of values.
Least(coefficients, low, high) ==
  Dot(coefficients, [i \in DOMAIN coefficients |->
                      IF coefficients[i] >= 0 THEN low[i] ELSE high[i]])
Greatest(coefficients, low, high) == Least(coefficients, high, low)

PossibleInBox(constraint, low, high) ==
  Possible(constraint.relation,
           Least(constraint.coefficients, low, high),
           Greatest(constraint.coefficients, low, high), constraint.rhs)

\* The order in which vectors of values are compared: the first difference decides.
LexBefore(a, b) ==
  \E i \in DOMAIN a : a[i] < b[i] /\ \A j \in 1..(i - 1) : a[j] = b[j]

Larger(a, b) == IF a < b THEN b ELSE a
Smaller(a, b) == IF a < b THEN a ELSE b

\* Division as Rust makes it, towards zero.
Truncated(a, b) == IF a >= 0 THEN a \div b ELSE -((-a) \div b)

\* The loop of every exhaustive model: the candidate replaces the best so far only
\* when it is better, so the first of equals stays; better are the pairs of
\* which the first is.
NoCandidate == 0
KeepBest(candidates, better) ==
  FoldLeft(LAMBDA best, candidate :
             IF best = NoCandidate \/ <<candidate, best>> \in better THEN candidate ELSE best,
           NoCandidate, candidates)

\* Iterator::max_by_key: the last of equals stays.
LastBest(candidates, key) ==
  KeepBest(candidates, {pair \in (DOMAIN key) \X (DOMAIN key) :
                          ~LexBefore(key[pair[1]], key[pair[2]])})
FirstBest(candidates, key) ==
  KeepBest(candidates, {pair \in (DOMAIN key) \X (DOMAIN key) :
                          LexBefore(key[pair[2]], key[pair[1]])})

Indices(seq) == [i \in DOMAIN seq |-> i]

\* The subsets a mask over the positions counts through, the first position fastest.
SubsetsOf(width) ==
  [m \in 1..2^width |-> {i \in 1..width : ((m - 1) \div 2^(i - 1)) % 2 = 1}]
SumOver(values, chosen) == SumFunctionOnSet(values, chosen)
=============================================================================
