\* Three tasks, polls inside the TTL, waits and timeouts below the threshold
\* (MaxWait + Timeout <= Stale); one crash, loss or failed call anywhere.
SPECIFICATION Spec
CONSTANTS
  w1 = w1  w2 = w2  s1 = s1  s2 = s2  k = k  sweep = sweep
  Tasks = {1, 2, 3}
  Workers = {w1, w2}
  Slots = {s1, s2}
  WorkerOf <- MCWorkerOf
  NoTask = NoTask  Free = Free  NoKey = NoKey
  Keys = {k, sweep}
  KeyOf <- MCKeyOf
  MaxRetries <- MCMaxRetries
  Interval <- MCInterval
  Timeout <- MCTimeout
  ResultsOf <- MCResultsOf
  RetryDelays = {1}
  Stale = 2
  BatchSize = 2
  MaxLate = 0
  MaxWait = 1
  MaxOverruns = 0
  MaxFaults = 1
  MaxQueue = 3
INVARIANTS
  TypeOK
  SequentialRuns
  RunsOwnTheirRow
  AttemptsWithinBudget
PROPERTIES
  KeepsThePromise
