\* ProcessVideo with its real two hours of processing_timeout against the one
\* hour of stale recovery: no fault, no delay.
SPECIFICATION Spec
CONSTANTS
  w1 = w1  w2 = w2  s1 = s1  s2 = s2  k = k  sweep = sweep
  Tasks = {1}
  Workers = {w1, w2}
  Slots = {s1, s2}
  WorkerOf <- MCWorkerOf
  NoTask = NoTask  Free = Free  NoKey = NoKey
  Keys = {k, sweep}
  KeyOf <- MCKeyOf1
  MaxRetries <- MCMaxRetries1
  Interval <- MCInterval1
  Timeout <- MCTimeout1
  ResultsOf <- MCResultsOf1
  RetryDelays = {1}
  Stale = 2
  BatchSize = 2
  MaxLate = 0
  MaxWait = 1
  MaxOverruns = 0
  MaxFaults = 0
  MaxQueue = 1
PROPERTY LiveRunsAreNotReset
