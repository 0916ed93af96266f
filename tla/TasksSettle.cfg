\* One poll that outlives its lock, ids that may wait past the threshold, and one
\* fault, anywhere.
SPECIFICATION FairSpec
CONSTANTS
  w1 = w1  w2 = w2  s1 = s1  s2 = s2  k = k  sweep = sweep
  Tasks = {1, 2}
  Workers = {w1, w2}
  Slots = {s1}
  WorkerOf <- MCWorkerOf1
  NoTask = NoTask  Free = Free  NoKey = NoKey
  Keys = {k, sweep}
  KeyOf <- MCKeyOf2
  MaxRetries <- MCMaxRetries2
  Interval <- MCInterval2
  Timeout <- MCTimeout0
  ResultsOf <- MCResultsOf2
  RetryDelays = {1}
  Stale = 1
  BatchSize = 2
  MaxLate = 0
  MaxWait = 1
  MaxOverruns = 1
  MaxFaults = 1
  MaxQueue = 2

  
PROPERTIES
  ClaimsEnd
  ScheduledTasksSettle
  ShutdownEnds
  
