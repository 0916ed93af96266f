\* No fault at all: the sweep reads PROCESSING, the run finishes, the delete comes.
SPECIFICATION Spec
CHECK_DEADLOCK FALSE
CONSTANTS
  Videos = {v1}
  Callers = {c1}
  Procs = {p1, p2}
  Deleters = {d1}
  DeleteTasks = {i1, i2}
  Uploads = {"good"}
  LowInLadder = TRUE
  ProcessRetries = 1
  DeleteRetries = 1
  MaxAge = 2
  MaxFaults = 0
  NoVideo = NoVideo
  NoTask = NoTask
  NoToken = NoToken
SYMMETRY Symmetry
PROPERTIES
  ProcessedIsKept
