\* A run fails half way; its retry finds the video claimed, does nothing and succeeds.
SPECIFICATION Spec
CHECK_DEADLOCK FALSE
CONSTANTS
  Videos = {v1}
  Callers = {c1}
  Procs = {p1, p2}
  Deleters = {d1}
  DeleteTasks = {i1, i2}
  Uploads = {"good"}
  LowInLadder = TRUE
  ProcessRetries = 1
  DeleteRetries = 1
  MaxAge = 2
  MaxFaults = 1
  NoVideo = NoVideo
  NoTask = NoTask
  NoToken = NoToken
SYMMETRY Symmetry
INVARIANTS
  RetryIsDeadLettered
