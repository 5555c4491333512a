SPECIFICATION Spec
CONSTANTS
  caller1 = caller1
  caller2 = caller2
  run1 = run1
  run2 = run2
  Callers <- MCCallers
  MaxRepeats = 1
  RunId <- MCRunId
  Patience = 1
  Results = 4
  MaxBuffer = 2
  Odd <- MCOdd
CHECK_DEADLOCK FALSE
INVARIANT TypeOK
INVARIANT OutcomeIsTheExecutions
INVARIANT AnswersAreTrue
INVARIANT BenchAccounted
PROPERTY CallsSettle
