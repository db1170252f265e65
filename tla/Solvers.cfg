\* Every solver and decision model on problems small enough to be tried exhaustively.
SPECIFICATION Spec
CONSTANTS
  Open = Open
  Absent = Absent
  Scale = 4
  Problems <- MCProblems
INVARIANTS
  NothingIsLost
  AnswersAreExact
  DecisionsAreBest
\* A solver that has answered stops.
CHECK_DEADLOCK FALSE
