\* One fault anywhere: a request, two runs, the deletes and the sweep interleave.
SPECIFICATION Spec
CHECK_DEADLOCK FALSE
CONSTANTS
  Videos = {v1}
  Callers = {c1}
  Procs = {p1, p2}
  Deleters = {d1}
  DeleteTasks = {i1, i2}
  Uploads = {"good", "badSignature", "tooLarge"}
  LowInLadder = TRUE
  ProcessRetries = 1
  DeleteRetries = 1
  MaxAge = 2
  MaxFaults = 1
  NoVideo = NoVideo
  NoTask = NoTask
  NoToken = NoToken
SYMMETRY Symmetry
INVARIANTS
  TypeOK
  DeletedLeavesNothing
  ClaimedOnce
  UploadedIsQueued
  StreamableIsPlayable
PROPERTIES
  LivesAsPromised
  RowsAreDelivered
