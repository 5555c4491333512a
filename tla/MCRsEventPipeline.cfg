SPECIFICATION Spec
CONSTANTS
  Emissions <- MCEmissions
  MaxBatch = 2
  MaxRetries = 1
  MaxCount = 4
INVARIANT TypeOK
INVARIANT LossesExplained
INVARIANT EventsKeepTheirPlace
INVARIANT EndReportsTheRun
PROPERTY Settles
