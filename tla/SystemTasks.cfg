\* Two workers; one check that outlives its lock, one loop that panics, one
\* signal, crash, loss or failed call.
SPECIFICATION FairSpec
CONSTANTS
  w1 = w1  w2 = w2
  Rows = {1, 2, 3}
  Workers = {w1, w2}
  Free = Free  Nobody = Nobody
  Retries = 1
  Answers = {"Success", "RetryableFailure"}
  MaxOverruns = 1
  MaxPanics = 1
  MaxFaults = 1
INVARIANTS
  TypeOK
  ClaimsAreHeld
  ActiveWithinOverruns
PROPERTIES
  MissingIsRecreated
  SweepKeepsRunning
  ShutdownCompletes
