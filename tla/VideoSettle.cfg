\* Everything settles, the sweep collecting what the runs leave behind.
SPECIFICATION PagesSpec
CHECK_DEADLOCK FALSE
CONSTANTS
  Videos = {v1}
  Callers = {c1}
  Procs = {p1}
  Deleters = {d1}
  DeleteTasks = {i1, i2}
  Uploads = {"good"}
  LowInLadder = TRUE
  ProcessRetries = 1
  DeleteRetries = 0
  MaxAge = 2
  MaxFaults = 1
  NoVideo = NoVideo
  NoTask = NoTask
  NoToken = NoToken
INVARIANTS
  ShownLinksPlay
PROPERTIES
  VideosSettle
  PollingEnds
  ProcessedIsKeptForADay
