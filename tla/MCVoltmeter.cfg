CONSTANTS
  Length = 3
  MAX = 3
  Generations = 3
  Timely = TRUE
SPECIFICATION FairSpec
INVARIANTS WholeReport NeverRefused NeverStale
PROPERTIES OnePerPeriod JobEnds ReportsGoOn
