\* Timeouts well below the threshold, no fault, but a queue that is served late.
SPECIFICATION Spec
CONSTANTS
  w1 = w1  w2 = w2  s1 = s1  s2 = s2  k = k  sweep = sweep
  Tasks = {1, 2}
  Workers = {w1, w2}
  Slots = {s1, s2}
  WorkerOf <- MCWorkerOf
  NoTask = NoTask  Free = Free  NoKey = NoKey
  Keys = {k, sweep}
  KeyOf <- MCKeyOf2
  MaxRetries <- MCMaxRetries2
  Interval <- MCInterval2
  Timeout <- MCTimeout2
  ResultsOf <- MCResultsOf2
  RetryDelays = {1}
  Stale = 2
  BatchSize = 2
  MaxLate = 0
  MaxWait = 4
  MaxOverruns = 0
  MaxFaults = 0
  MaxQueue = 2
INVARIANT SequentialRuns
