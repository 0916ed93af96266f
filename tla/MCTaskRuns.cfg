\* One-shot and recurring tasks; no, few and many retries; three
\* base delays: far below the cap, the real 60 s, and one whose product saturates.
SPECIFICATION Spec
CONSTANTS
  MaxRetriesOf <- MCMaxRetries
  IntervalsOf = {0, 1800}
  BaseDelaysMs = {1, 60000, 1000000}
  MaxInt = 500000000
  MaxRuns = 14
INVARIANTS
  TypeOK
  DeadLetterSpendsTheBudget
  BackoffGrowsToItsCap
  RecurringKeepsRunning
CHECK_DEADLOCK FALSE
