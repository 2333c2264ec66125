\* Every store, and every sequence of five runs over two files.
SPECIFICATION Spec

CONSTANTS
  Code <- TwoFiles
  MaxRuns = 5

INVARIANTS
  HoldsGraph
  AnswersAgree

\* The runs are bounded.
CHECK_DEADLOCK FALSE
