--------------------------- MODULE VideoLifecycle ---------------------------
(***************************************************************************)
(* What happens to a video: the use cases of crates/application/src/       *)
(* usecases/video over the videos table, the object store and the tasks     *)
(* they schedule.  The callers of the API, the runs of ProcessVideo with    *)
(* the two tasks each of them spawns (the segment uploader and the early    *)
(* publisher), the runs of DeleteVideo and the daily sweep all interleave   *)
(* between one await and the next.                                          *)
(*                                                                          *)
(* The task system is the one of TaskSystem, seen from a handler: a run      *)
(* starts from a PENDING row, its result goes through ComputeUpdate, a row    *)
(* left IN_PROGRESS comes back, and - when a reset comes too early - a row    *)
(* may come back while its run is still going.                              *)
(***************************************************************************)
EXTENDS TaskOutcome, HlsStages, FiniteSets

CONSTANTS
  Videos,         \* video ids
  Callers,        \* concurrent POST .../complete requests
  Procs,          \* concurrent runs of ProcessVideo
  Deleters,       \* concurrent runs of DeleteVideo
  DeleteTasks,    \* bound: DeleteVideo rows active at a time
  NoVideo, NoTask, NoToken,
  Uploads,        \* what clients may PUT: a subset of Files
  LowInLadder,    \* QUALITY_TIERS names the low tier
  ProcessRetries, \* max_retries of ProcessVideo
  DeleteRetries,  \* max_retries of DeleteVideo
  MaxAge,         \* bound: 2 lets videos grow older than the sweep's 24 hours
  MaxFaults       \* environment: failed calls, timeouts, crashes, early resets

Files == {"good", "badSignature", "tooLarge"}

ASSUME VideoAssumption ==
  /\ NoVideo \notin Videos
  /\ NoTask \notin DeleteTasks
  /\ NoToken \notin Procs
  /\ IsFiniteSet(DeleteTasks)
  /\ Uploads \subseteq Files
  /\ LowInLadder \in BOOLEAN
  /\ ProcessRetries \in Nat
  /\ DeleteRetries \in Nat
  /\ MaxAge \in 0..2
  /\ MaxFaults \in Nat

VARIABLES
  \* Postgres
  status,    \* videos.status; NotInitiated and Deleted when there is no row
  token,     \* videos.share_token; a token is named after the run that made it
  clock,     \* age of created_at: 0, past the URL's 30 minutes, past 24 hours
  ptask,     \* the ProcessVideo row of each video
  dtask,     \* the DeleteVideo rows
  \* object storage
  original,  \* what is under upload_key, or "absent"
  hls,       \* what is under storage_prefix
  \* processes
  api,       \* the complete_upload requests
  run,       \* the ProcessVideo runs, with their uploader and publisher
  del,       \* the DeleteVideo runs
  sweep,     \* the CleanupStaleVideos run
  faults,
  \* history
  claims,    \* how often a video has been claimed for processing
  purged,    \* a DeleteVideo run has begun to delete the video's prefix
  late       \* since then something was stored, or the storage refused to delete

vars == <<status, token, clock, ptask, dtask, original, hls, api, run, del, sweep,
          faults, claims, purged, late>>

NotInitiated  == "NOT_INITIATED"
PendingUpload == "PENDING_UPLOAD"
Uploaded      == "UPLOADED"
Processing    == "PROCESSING"
Processed     == "PROCESSED"
Failed        == "FAILED"
Deleted       == "DELETED"

VideoStatus == {PendingUpload, Uploaded, Processing, Processed, Failed}
HasRow(v)   == status[v] \in VideoStatus

\* What the player needs first, and everything else the uploader writes.
Objects == {"segment", "playlist", "master", "more"}

TaskRow(st, att) == [status |-> st, attempt |-> att]
NoRow            == "NONE"

\* The rows a budget of retries allows.
TaskRows(retries) == [status : TaskStatus \cup {NoRow}, attempt : 0..retries]

\* What a process may be doing.
Calls   == [pc    : {"idle", "head", "range", "reject", "tx"},
            video : Videos \cup {NoVideo}]

RunStates   == {"idle", "load", "claim", "probe", "transcode", "joinOk", "joinFailed",
                "finalize", "fail", "cleanup"}
Runs    == [pc      : RunStates,
            video   : Videos \cup {NoVideo},
            attempt : 0..ProcessRetries,
            up      : UploaderAt \cup {"none", "ended"},
            pub     : PublisherAt \cup {"none", "ended"}]
Deletes == [pc      : {"idle", "find", "prefix", "object", "row"},
            video   : Videos \cup {NoVideo},
            task    : DeleteTasks \cup {NoTask},
            attempt : 0..DeleteRetries]
Reads   == SUBSET (Videos \X VideoStatus)
Sweeps  == [pc : {"idle", "failed", "mark", "create"}, stale : Reads, failed : Reads]

IdleCall  == [pc |-> "idle", video |-> NoVideo]
IdleRun   == [pc |-> "idle", video |-> NoVideo, attempt |-> 0, up |-> "none", pub |-> "none"]
IdleDel   == [pc |-> "idle", video |-> NoVideo, task |-> NoTask, attempt |-> 0]
IdleSweep == [pc |-> "idle", stale |-> {}, failed |-> {}]

Init ==
  /\ status   = [v \in Videos |-> NotInitiated]
  /\ token    = [v \in Videos |-> NoToken]
  /\ clock    = [v \in Videos |-> 0]
  /\ ptask    = [v \in Videos |-> TaskRow(NoRow, 0)]
  /\ dtask    = [i \in DeleteTasks |-> [row |-> TaskRow(NoRow, 0), video |-> NoVideo]]
  /\ original = [v \in Videos |-> "absent"]
  /\ hls      = [v \in Videos |-> {}]
  /\ api      = [c \in Callers |-> IdleCall]
  /\ run      = [p \in Procs |-> IdleRun]
  /\ del      = [d \in Deleters |-> IdleDel]
  /\ sweep    = IdleSweep
  /\ faults   = 0
  /\ claims   = [v \in Videos |-> 0]
  /\ purged   = [v \in Videos |-> FALSE]
  /\ late     = {}

Fault == faults < MaxFaults /\ faults' = faults + 1

\* UPDATE videos SET status = new WHERE id = v AND status = expected.
\* Mutant: the second half of the WHERE is lost.
UpdateStatusIf_Anyway(v, expected, new) ==
  IF HasRow(v) THEN [status EXCEPT ![v] = new] ELSE status

UpdateStatusIf(v, expected, new) ==
  IF status[v] = expected THEN [status EXCEPT ![v] = new] ELSE status

\* UPDATE videos SET share_token = t WHERE id = v AND status = 'PROCESSING'.
SetShareToken(v, t) ==
  IF status[v] = Processing THEN [token EXCEPT ![v] = t] ELSE token

\* The same, with SET status = 'PROCESSED'.
MarkProcessed(v, t) ==
  /\ status' = UpdateStatusIf(v, Processing, Processed)
  /\ token'  = SetShareToken(v, t)

\* Rows that can hold a new DeleteVideo task: finished ones are never read again.
Unused == {i \in DeleteTasks :
             dtask[i].row.status = NoRow /\ \A d \in Deleters : del[d].task # i}

\* Which of them makes no difference.
NewRows(n) == CHOOSE ids \in SUBSET Unused : Cardinality(ids) = n

\* create, bulk_create: one PENDING row per request <<video, from>>; nothing
\* looks for a task the video already has.
CreateDeletes(requests) ==
  LET ids == NewRows(Cardinality(requests)) IN
  /\ Cardinality(requests) <= Cardinality(Unused)
  /\ \E g \in [ids -> requests] :
       /\ \A x \in requests : \E i \in ids : g[i] = x
       /\ dtask' = [i \in DeleteTasks |->
                      IF i \in ids THEN [row |-> TaskRow(Pending, 0), video |-> g[i][1]]
                                   ELSE dtask[i]]

----------------------------------------------------------------------------
(* The client and time                                                     *)

\* initiate_upload: the row, and a presigned PUT that is good for 30 minutes.
Initiate(v) ==
  /\ status[v] = NotInitiated
  /\ status' = [status EXCEPT ![v] = PendingUpload]
  /\ UNCHANGED <<token, clock, ptask, dtask, original, hls, api, run, del, sweep,
                 faults, claims, purged, late>>

\* Something is stored for v.
BehindADelete(v) == IF purged[v] THEN late \cup {v} ELSE late

\* The client uses the URL, as often as it likes while it lasts.
ClientUpload(v) ==
  /\ status[v] # NotInitiated
  /\ clock[v] = 0
  /\ \E f \in Uploads : original' = [original EXCEPT ![v] = f]
  /\ late' = BehindADelete(v)
  /\ UNCHANGED <<status, token, clock, ptask, dtask, hls, api, run, del, sweep,
                 faults, claims, purged>>

\* created_at recedes.
Age(v) ==
  /\ status[v] # NotInitiated
  /\ clock[v] < MaxAge
  /\ clock' = [clock EXCEPT ![v] = @ + 1]
  /\ UNCHANGED <<status, token, ptask, dtask, original, hls, api, run, del, sweep,
                 faults, claims, purged, late>>

----------------------------------------------------------------------------
(* complete_upload                                                         *)

CallEnds(c)    == api' = [api EXCEPT ![c] = IdleCall]
CallGoes(c, l) == api' = [api EXCEPT ![c].pc = l]

\* find_by_id; anything but PENDING_UPLOAD is an error without effect.
CompleteFind(c, v) ==
  /\ api[c].pc = "idle"
  /\ status[v] = PendingUpload
  /\ api' = [api EXCEPT ![c] = [pc |-> "head", video |-> v]]
  /\ UNCHANGED <<status, token, clock, ptask, dtask, original, hls, run, del, sweep,
                 faults, claims, purged, late>>

\* head_object: missing, too large, or on to the signature.
CompleteHead(c) ==
  LET f == original[api[c].video] IN
  /\ api[c].pc = "head"
  /\ \/ f = "absent" /\ CallEnds(c)
     \/ f = "tooLarge" /\ CallGoes(c, "reject")
     \/ f \in {"good", "badSignature"} /\ CallGoes(c, "range")
  /\ UNCHANGED <<status, token, clock, ptask, dtask, original, hls, run, del, sweep,
                 faults, claims, purged, late>>

\* read_range and validate_signature, on what is there by now.
CompleteRange(c) ==
  LET f == original[api[c].video] IN
  /\ api[c].pc = "range"
  /\ \/ f = "absent" /\ CallEnds(c)
     \/ f = "badSignature" /\ CallGoes(c, "reject")
     \/ f \in {"good", "tooLarge"} /\ CallGoes(c, "tx")
  /\ UNCHANGED <<status, token, clock, ptask, dtask, original, hls, run, del, sweep,
                 faults, claims, purged, late>>

\* schedule_delete_after_rejection: standalone, and its error is only logged.
CompleteReject(c) ==
  /\ api[c].pc = "reject"
  /\ \/ CreateDeletes({<<api[c].video, "rejected">>}) /\ UNCHANGED faults
     \/ Fault /\ UNCHANGED dtask
  /\ CallEnds(c)
  /\ UNCHANGED <<status, token, clock, ptask, original, hls, run, del, sweep, claims, purged, late>>

\* Mutant: the task is scheduled outside the transaction, and is lost.
CompleteTx_NoTask(c) ==
  LET v == api[c].video IN
  /\ api[c].pc = "tx"
  /\ status' = UpdateStatusIf(v, PendingUpload, Uploaded)
  /\ CallEnds(c)
  /\ UNCHANGED <<token, clock, ptask, dtask, original, hls, run, del, sweep, faults,
                 claims, purged, late>>

\* transition_to_uploaded: the status and the ProcessVideo task, or neither.
CompleteTx(c) ==
  LET v == api[c].video IN
  /\ api[c].pc = "tx"
  /\ \/ /\ status' = UpdateStatusIf(v, PendingUpload, Uploaded)
        /\ ptask'  = IF status[v] = PendingUpload
                       THEN [ptask EXCEPT ![v] = TaskRow(Pending, 0)] ELSE ptask
        /\ UNCHANGED faults
     \/ Fault /\ UNCHANGED <<status, ptask>>
  /\ CallEnds(c)
  /\ UNCHANGED <<token, clock, dtask, original, hls, run, del, sweep, claims, purged, late>>

CallStep(c) ==
  \/ \E v \in Videos : CompleteFind(c, v)
  \/ CompleteHead(c)
  \/ CompleteRange(c)
  \/ CompleteReject(c)
  \/ CompleteTx(c)

----------------------------------------------------------------------------
(* process_video                                                           *)

\* A run's place is free again once its handler and both spawned tasks are over.
Reap(r) == IF r.pc = "idle" /\ r.up \notin UploaderAt /\ r.pub \notin PublisherAt
             THEN IdleRun ELSE r

SetRun(p, r)  == run' = [run EXCEPT ![p] = Reap(r)]
RunGoes(p, l) == SetRun(p, [run[p] EXCEPT !.pc = l])

\* The handler returns (or is dropped) and batch_update writes its result.
RunEnds(p, result) ==
  LET u == ComputeUpdate(run[p].attempt, ProcessRetries, NoInterval, 0, result) IN
  /\ ptask' = [ptask EXCEPT ![run[p].video] = TaskRow(u.status, u.attempt)]
  /\ RunGoes(p, "idle")

\* The row is polled, queued, popped and fetched: see TaskSystem.
ProcessStart(p, v) ==
  /\ run[p] = IdleRun
  /\ ptask[v].status = Pending
  /\ ptask' = [ptask EXCEPT ![v].status = InProgress]
  /\ run' = [run EXCEPT ![p] = [IdleRun EXCEPT !.pc = "load", !.video = v,
                                               !.attempt = ptask[v].attempt]]
  /\ UNCHANGED <<status, token, clock, dtask, original, hls, api, del, sweep, faults,
                 claims, purged, late>>

\* load_video
ProcessLoad(p) ==
  LET v == run[p].video IN
  /\ run[p].pc = "load"
  /\ \/ HasRow(v) /\ RunGoes(p, "claim") /\ UNCHANGED <<ptask, faults>>
     \/ ~HasRow(v) /\ RunEnds(p, "PermanentFailure") /\ UNCHANGED faults
     \/ Fault /\ RunEnds(p, "RetryableFailure")
  /\ UNCHANGED <<status, token, clock, dtask, original, hls, api, del, sweep, claims, purged, late>>

\* claim_for_processing.  A failed call may have reached the database.
ProcessClaim(p) ==
  LET v == run[p].video IN
  /\ run[p].pc = "claim"
  /\ \/ /\ status' = UpdateStatusIf(v, Uploaded, Processing)
        /\ claims' = IF status' # status THEN [claims EXCEPT ![v] = @ + 1] ELSE claims
        /\ \/ /\ status' # status
              /\ RunGoes(p, "probe")
              /\ UNCHANGED <<ptask, faults>>
           \/ /\ status' = status
              /\ RunEnds(p, "Success")
              /\ UNCHANGED faults
           \/ Fault /\ RunEnds(p, "RetryableFailure")
     \/ /\ Fault
        /\ RunEnds(p, "RetryableFailure")
        /\ UNCHANGED <<status, claims>>
  /\ UNCHANGED <<token, clock, dtask, original, hls, api, del, sweep, purged, late>>

\* probe: only the content of the file decides, or the storage does not answer.
\* With a usable file the publisher and, in transcode_to_hls, the uploader are
\* spawned.
ProcessProbe(p) ==
  /\ run[p].pc = "probe"
  /\ \/ /\ original[run[p].video] # "absent"
        /\ SetRun(p, [StreamBegins(run[p], LowInLadder) EXCEPT !.pc = "transcode"])
     \/ RunGoes(p, "fail")
  /\ UNCHANGED <<status, token, clock, ptask, dtask, original, hls, api, del, sweep,
                 faults, claims, purged, late>>

\* The uploader task puts the next object of the stages, or - a tier before the
\* low one, or anything later - another one.  It goes on after its handler was
\* dropped: tokio detaches it, and the dropped stop sender asks for a drain.
UploadNext(p) ==
  LET r == run[p] IN
  /\ r.up \in UploaderAt
  /\ \/ /\ hls' = [hls EXCEPT ![r.video] = @ \cup {r.up}]
        /\ SetRun(p, AfterUpload(r))
     \/ /\ hls' = [hls EXCEPT ![r.video] = @ \cup {"more"}]
        /\ UNCHANGED run
  /\ late' = BehindADelete(r.video)
  /\ UNCHANGED <<status, token, clock, ptask, dtask, original, api, del, sweep, faults,
                 claims, purged>>

\* transcode_to_hls returns: end of stream and a full drain, or an error of the
\* pipeline (at any point: the file decides) or of the uploader.
TranscodeEnds(p) ==
  LET r == run[p] IN
  /\ r.pc = "transcode"
  /\ \/ r.up = "more" /\ SetRun(p, [UploaderOver(r) EXCEPT !.pc = "joinOk"])
     \/ SetRun(p, [UploaderOver(r) EXCEPT !.pc = "joinFailed"])
  /\ UNCHANGED <<status, token, clock, ptask, dtask, original, hls, api, del, sweep,
                 faults, claims, purged, late>>

\* A detached uploader's final drain is over, or has failed.
DetachedUploaderEnds(p) ==
  /\ run[p].pc = "idle"
  /\ run[p].up \in UploaderAt
  /\ SetRun(p, UploaderOver(run[p]))
  /\ UNCHANGED <<status, token, clock, ptask, dtask, original, hls, api, del, sweep,
                 faults, claims, purged, late>>

\* publish_share_token, in the publisher task.
PublishToken(p) ==
  LET r == run[p] IN
  /\ r.pub = "notified"
  /\ \/ token' = SetShareToken(r.video, p) /\ UNCHANGED faults
     \/ Fault /\ UNCHANGED token
  /\ SetRun(p, [r EXCEPT !.pub = "ended"])
  /\ UNCHANGED <<status, clock, ptask, dtask, original, hls, api, del, sweep, claims, purged, late>>

\* "Wait for the publisher to wind down before proceeding."
ProcessJoin(p) ==
  /\ run[p].pc \in {"joinOk", "joinFailed"}
  /\ run[p].pub = "ended"
  /\ RunGoes(p, IF run[p].pc = "joinOk" THEN "finalize" ELSE "fail")
  /\ UNCHANGED <<status, token, clock, ptask, dtask, original, hls, api, del, sweep,
                 faults, claims, purged, late>>

\* mark_processed; a failed call may have reached the database.
ProcessFinalize(p) ==
  LET v == run[p].video IN
  /\ run[p].pc = "finalize"
  /\ \/ /\ status[v] = Processing
        /\ MarkProcessed(v, p)
        /\ RunGoes(p, "cleanup")
        /\ UNCHANGED <<ptask, faults>>
     \/ /\ status[v] # Processing
        /\ RunEnds(p, "Success")
        /\ UNCHANGED <<status, token, faults>>
     \/ /\ Fault
        /\ MarkProcessed(v, p) \/ UNCHANGED <<status, token>>
        /\ RunGoes(p, "fail")
        /\ UNCHANGED ptask
  /\ UNCHANGED <<clock, dtask, original, hls, api, del, sweep, claims, purged, late>>

\* fail_and_schedule_delete: the delete is scheduled whatever the update
\* matched.  An error is logged, and the handler succeeds all the same.
ProcessFail(p) ==
  LET v == run[p].video
      Tx == /\ status' = UpdateStatusIf(v, Processing, Failed)
            /\ CreateDeletes({<<v, "failed">>})
  IN
  /\ run[p].pc = "fail"
  /\ \/ Tx /\ UNCHANGED faults
     \/ Fault /\ UNCHANGED <<status, dtask>>
  /\ RunEnds(p, "Success")
  /\ UNCHANGED <<token, clock, original, hls, api, del, sweep, claims, purged, late>>

\* cleanup_original_inline, best effort.
ProcessCleanup(p) ==
  /\ run[p].pc = "cleanup"
  /\ \/ original' = [original EXCEPT ![run[p].video] = "absent"] /\ UNCHANGED faults
     \/ Fault /\ UNCHANGED original
  /\ RunEnds(p, "Success")
  /\ UNCHANGED <<status, token, clock, dtask, hls, api, del, sweep, claims, purged, late>>

\* run_with_timeout drops the handler at whatever await it is in.
ProcessTimesOut(p) ==
  /\ run[p].pc # "idle"
  /\ Fault
  /\ RunEnds(p, "RetryableFailure")
  /\ UNCHANGED <<status, token, clock, dtask, original, hls, api, del, sweep, claims, purged, late>>

\* The worker dies: the row stays IN_PROGRESS, all three tasks are gone.
ProcessLost(p) ==
  /\ run[p].pc # "idle"
  /\ Fault
  /\ run' = [run EXCEPT ![p] = IdleRun]
  /\ UNCHANGED <<status, token, clock, ptask, dtask, original, hls, api, del, sweep,
                 claims, purged, late>>

\* A handler works on v.
Held(v) == \E p \in Procs : run[p].pc # "idle" /\ run[p].video = v

\* Mutant: a reset counts as an attempt.
ProcessReset_Counts(v) ==
  /\ ptask[v].status = InProgress
  /\ IF Held(v) THEN Fault ELSE UNCHANGED faults
  /\ ptask' = [ptask EXCEPT ![v] = TaskRow(Pending, ptask[v].attempt + 1)]
  /\ UNCHANGED <<status, token, clock, dtask, original, hls, api, run, del, sweep,
                 claims, purged, late>>

\* reset_stale: a row nobody works on comes back, and sometimes one that
\* somebody does (a run may take 2 hours, the threshold is 1).
ProcessReset(v) ==
  /\ ptask[v].status = InProgress
  /\ IF Held(v) THEN Fault ELSE UNCHANGED faults
  /\ ptask' = [ptask EXCEPT ![v].status = Pending]
  /\ UNCHANGED <<status, token, clock, dtask, original, hls, api, run, del, sweep,
                 claims, purged, late>>

\* mark_in_progress goes by id alone: a poll that has read the row and outlives
\* its lock, or a reset, marks a row that has been finished meanwhile.
ProcessRevive(v) ==
  /\ ptask[v].status \in Terminal
  /\ Fault
  /\ ptask' = [ptask EXCEPT ![v].status = InProgress]
  /\ UNCHANGED <<status, token, clock, dtask, original, hls, api, run, del, sweep,
                 claims, purged, late>>

HandlerStep(p) ==
  \/ ProcessLoad(p)
  \/ ProcessClaim(p)
  \/ ProcessProbe(p)
  \/ TranscodeEnds(p)
  \/ ProcessJoin(p)
  \/ ProcessFinalize(p)
  \/ ProcessFail(p)
  \/ ProcessCleanup(p)

----------------------------------------------------------------------------
(* delete_video                                                            *)

DeleteGoes(d, l) == del' = [del EXCEPT ![d].pc = l]

DeleteEnds(d, result) ==
  LET u == ComputeUpdate(del[d].attempt, DeleteRetries, NoInterval, 0, result) IN
  /\ dtask' = [dtask EXCEPT ![del[d].task] =
                 [row   |-> IF u.status = Pending THEN TaskRow(Pending, u.attempt)
                                                  ELSE TaskRow(NoRow, 0),
                  video |-> del[d].video]]
  /\ del' = [del EXCEPT ![d] = IdleDel]

\* As ProcessStart; the ordering key video_delete:{id} keeps runs apart.
DeleteStart(d, i) ==
  /\ del[d].pc = "idle"
  /\ dtask[i].row.status = Pending
  /\ \A j \in DeleteTasks : dtask[j].video = dtask[i].video => dtask[j].row.status # InProgress
  /\ dtask' = [dtask EXCEPT ![i].row.status = InProgress]
  /\ del' = [del EXCEPT ![d] = [pc |-> "find", video |-> dtask[i].video, task |-> i,
                                attempt |-> dtask[i].row.attempt]]
  /\ UNCHANGED <<status, token, clock, ptask, original, hls, api, run, sweep, faults,
                 claims, purged, late>>

\* find_by_id: a missing row is a Skip.
DeleteFind(d) ==
  LET v == del[d].video IN
  /\ del[d].pc = "find"
  /\ \/ HasRow(v) /\ DeleteGoes(d, "prefix") /\ UNCHANGED <<dtask, faults>>
     \/ ~HasRow(v) /\ DeleteEnds(d, "Skip") /\ UNCHANGED faults
     \/ Fault /\ DeleteEnds(d, "RetryableFailure")
  /\ UNCHANGED <<status, token, clock, ptask, original, hls, api, run, sweep, claims, purged, late>>

\* Mutant: a page that cannot be deleted is passed over.
DeletePrefix_SkipsPages(d) ==
  LET v == del[d].video IN
  /\ del[d].pc = "prefix"
  /\ purged' = [purged EXCEPT ![v] = TRUE]
  /\ \/ hls' = [hls EXCEPT ![v] = {}] /\ UNCHANGED faults
     \/ Fault /\ UNCHANGED hls
  /\ DeleteGoes(d, "object")
  /\ UNCHANGED <<status, token, clock, ptask, dtask, original, api, run, sweep, claims, late>>

\* delete_prefix works page by page: a failure leaves some of it.  The answer to
\* delete_objects also lists keys that could not be deleted; nobody reads it.
DeletePrefix(d) ==
  LET v == del[d].video IN
  /\ del[d].pc = "prefix"
  /\ purged' = [purged EXCEPT ![v] = TRUE]
  /\ \/ hls' = [hls EXCEPT ![v] = {}] /\ DeleteGoes(d, "object") /\ UNCHANGED <<dtask, faults, late>>
     \/ /\ Fault
        /\ \E left \in SUBSET hls[v] : hls' = [hls EXCEPT ![v] = left]
        /\ \/ DeleteEnds(d, "RetryableFailure") /\ UNCHANGED late
           \/ DeleteGoes(d, "object") /\ late' = late \cup {v} /\ UNCHANGED dtask
  /\ UNCHANGED <<status, token, clock, ptask, original, api, run, sweep, claims>>

DeleteObject(d) ==
  /\ del[d].pc = "object"
  /\ \/ /\ original' = [original EXCEPT ![del[d].video] = "absent"]
        /\ DeleteGoes(d, "row")
        /\ UNCHANGED <<dtask, faults>>
     \/ Fault /\ DeleteEnds(d, "RetryableFailure") /\ UNCHANGED original
  /\ UNCHANGED <<status, token, clock, ptask, hls, api, run, sweep, claims, purged, late>>

\* DELETE FROM videos WHERE id = v, whatever the status is by now.
DeleteRow(d) ==
  LET v == del[d].video IN
  /\ del[d].pc = "row"
  /\ \/ /\ status' = [status EXCEPT ![v] = Deleted]
        /\ token'  = [token EXCEPT ![v] = NoToken]
        /\ DeleteEnds(d, "Success")
        /\ UNCHANGED faults
     \/ Fault /\ DeleteEnds(d, "RetryableFailure") /\ UNCHANGED <<status, token>>
  /\ UNCHANGED <<clock, ptask, original, hls, api, run, sweep, claims, purged, late>>

\* A crash, or the 5-minute timeout: then the result is a retryable failure.
DeleteLost(d) ==
  /\ del[d].pc # "idle"
  /\ Fault
  /\ \/ del' = [del EXCEPT ![d] = IdleDel] /\ UNCHANGED dtask
     \/ DeleteEnds(d, "RetryableFailure")
  /\ UNCHANGED <<status, token, clock, ptask, original, hls, api, run, sweep, claims, purged, late>>

DeleteReset(i) ==
  /\ dtask[i].row.status = InProgress
  /\ IF \E d \in Deleters : del[d].task = i THEN Fault ELSE UNCHANGED faults
  /\ dtask' = [dtask EXCEPT ![i].row.status = Pending]
  /\ UNCHANGED <<status, token, clock, ptask, original, hls, api, run, del, sweep,
                 claims, purged, late>>

\* As ProcessRevive; what the finished row had counted is forgotten here.
DeleteRevive(i) ==
  /\ dtask[i].row.status = NoRow
  /\ dtask[i].video # NoVideo
  /\ Fault
  /\ \E att \in 0..DeleteRetries : dtask' = [dtask EXCEPT ![i].row = TaskRow(InProgress, att)]
  /\ UNCHANGED <<status, token, clock, ptask, original, hls, api, run, del, sweep,
                 claims, purged, late>>

DeleteStep(d) ==
  \/ DeleteFind(d)
  \/ DeletePrefix(d)
  \/ DeleteObject(d)
  \/ DeleteRow(d)

----------------------------------------------------------------------------
(* cleanup_stale_videos: recurring, retried and recreated, so one is always *)
(* going to come; its constant ordering key keeps it alone.                 *)

Old(v) == clock[v] = 2

\* Mutant: PROCESSING videos are somebody else's.
StaleStatuses_NoProcessing == {PendingUpload, Uploaded}

StaleStatuses == {PendingUpload, Uploaded, Processing}

\* What the two queries return: videos, with the status each has at the time.
\* Mutant: the cutoff is forgotten.
FindStale_AnyAge == {<<v, status[v]>> : v \in {w \in Videos : status[w] \in StaleStatuses}}
FindStale        == {<<v, status[v]>> : v \in {w \in Videos : Old(w) /\ status[w] \in StaleStatuses}}
FindFailedBefore == {<<v, Failed>> : v \in {w \in Videos : Old(w) /\ status[w] = Failed}}

SweepFindStale ==
  /\ sweep.pc = "idle"
  /\ sweep' = [pc |-> "failed", stale |-> FindStale, failed |-> {}]
  /\ UNCHANGED <<status, token, clock, ptask, dtask, original, hls, api, run, del, faults,
                 claims, purged, late>>

SweepFindFailed ==
  /\ sweep.pc = "failed"
  /\ sweep' = [sweep EXCEPT !.pc = "mark", !.failed = FindFailedBefore]
  /\ UNCHANGED <<status, token, clock, ptask, dtask, original, hls, api, run, del, faults,
                 claims, purged, late>>

\* Mutant: the rows are marked whatever has become of them.
FromStatuses_Any == VideoStatus

FromStatuses == {Uploaded, Processing}

BulkMarkFailed(ids) ==
  [v \in Videos |-> IF v \in ids /\ status[v] \in FromStatuses THEN Failed ELSE status[v]]

\* collect_stuck_ids
StuckIds == {v \in Videos : <<v, Uploaded>> \in sweep.stale \/ <<v, Processing>> \in sweep.stale}

SweepMark ==
  /\ sweep.pc = "mark"
  /\ status' = BulkMarkFailed(StuckIds)
  /\ sweep' = [sweep EXCEPT !.pc = "create"]
  /\ UNCHANGED <<token, clock, ptask, dtask, original, hls, api, run, del, faults,
                 claims, purged, late>>

\* build_delete_tasks and bulk_create, for all that was read.
SweepCreate ==
  /\ sweep.pc = "create"
  /\ CreateDeletes(sweep.stale \cup sweep.failed)
  /\ sweep' = IdleSweep
  /\ UNCHANGED <<status, token, clock, ptask, original, hls, api, run, del, faults,
                 claims, purged, late>>

\* Any of the four calls fails, the run times out or its worker dies.
SweepLost ==
  /\ sweep.pc # "idle"
  /\ Fault
  /\ sweep' = IdleSweep
  /\ UNCHANGED <<status, token, clock, ptask, dtask, original, hls, api, run, del,
                 claims, purged, late>>

SweepStep == SweepFindStale \/ SweepFindFailed \/ SweepMark \/ SweepCreate

----------------------------------------------------------------------------

ProcessStep(p) ==
  \/ \E v \in Videos : ProcessStart(p, v)
  \/ HandlerStep(p)
  \/ UploadNext(p)
  \/ DetachedUploaderEnds(p)
  \/ PublishToken(p)
  \/ ProcessTimesOut(p)
  \/ ProcessLost(p)

Next ==
  \/ \E v \in Videos : Initiate(v) \/ ClientUpload(v) \/ Age(v) \/ ProcessReset(v) \/ ProcessRevive(v)
  \/ \E c \in Callers : CallStep(c)
  \/ \E p \in Procs : ProcessStep(p)
  \/ \E d \in Deleters : DeleteStep(d) \/ DeleteLost(d)
                           \/ \E i \in DeleteTasks : DeleteStart(d, i)
  \/ \E i \in DeleteTasks : DeleteReset(i) \/ DeleteRevive(i)
  \/ SweepStep
  \/ SweepLost

\* Time passes, the worker's loops go on and handlers end (at the latest by
\* their timeout); clients and callers may stop at any point.
Fairness ==
  /\ \A v \in Videos : WF_vars(Age(v)) /\ WF_vars(ProcessReset(v))
  /\ \A p \in Procs :
       /\ WF_vars(HandlerStep(p)) /\ WF_vars(PublishToken(p))
       /\ WF_vars(DetachedUploaderEnds(p))
  /\ WF_vars(\E p \in Procs, v \in Videos : ProcessStart(p, v))
  /\ \A d \in Deleters : WF_vars(DeleteStep(d))
  /\ \A i \in DeleteTasks : WF_vars(DeleteReset(i))
  /\ WF_vars(\E d \in Deleters, i \in DeleteTasks : DeleteStart(d, i))
  /\ WF_vars(SweepStep)

Spec     == Init /\ [][Next]_vars
FairSpec == Spec /\ Fairness

----------------------------------------------------------------------------
(* Properties                                                              *)

VideosTyped ==
  /\ status \in [Videos -> VideoStatus \cup {NotInitiated, Deleted}]
  /\ token \in [Videos -> Procs \cup {NoToken}]
  /\ clock \in [Videos -> 0..MaxAge]
  /\ original \in [Videos -> Files \cup {"absent"}]
  /\ hls \in [Videos -> SUBSET Objects]
  /\ claims \in [Videos -> Nat]
  /\ purged \in [Videos -> BOOLEAN]
  /\ late \subseteq Videos

ProcessRowsTyped == ptask \in [Videos -> TaskRows(ProcessRetries)]

DeleteRowsTyped ==
  /\ dtask \in [DeleteTasks -> [row : TaskRows(DeleteRetries), video : Videos \cup {NoVideo}]]
  /\ \A i \in DeleteTasks : dtask[i].row.status # NoRow => dtask[i].video \in Videos

CallsTyped ==
  /\ api \in [Callers -> Calls]
  /\ \A c \in Callers : api[c].pc # "idle" => api[c].video \in Videos

RunsTyped ==
  /\ run \in [Procs -> Runs]
  /\ \A p \in Procs : run[p] # IdleRun => run[p].video \in Videos

DeletesTyped ==
  /\ del \in [Deleters -> Deletes]
  /\ \A d \in Deleters :
       del[d].pc # "idle" => del[d].video \in Videos /\ del[d].task \in DeleteTasks

TypeOK ==
  /\ VideosTyped
  /\ ProcessRowsTyped
  /\ DeleteRowsTyped
  /\ CallsTyped
  /\ RunsTyped
  /\ DeletesTyped
  /\ sweep \in Sweeps
  /\ faults \in 0..MaxFaults

\* The claim guard ("re-runs are a no-op"): whatever is retried, reset early or
\* restarted, a video is claimed for processing at most once in its life, and
\* so is transcoded, and given a token, by one run only.
ClaimedOnce ==
  /\ \A v \in Videos : claims[v] <= 1
  /\ \A p, q \in Procs :
       run[p].up # "none" /\ run[q].up # "none" /\ run[p].video = run[q].video => p = q

\* The outbox: an UPLOADED video has a ProcessVideo task that is still to run,
\* is running, or has been dead-lettered for an operator to see.  It is never
\* left behind without one, nor with one that counts as done.
UploadedIsQueued ==
  \A v \in Videos :
    status[v] = Uploaded => ptask[v].status \in {Pending, InProgress, DeadLetter}

\* Mutant: early publish is forgotten.
Streamable_ProcessedOnly(v) == status[v] = Processed

\* Video::is_streamable
Streamable(v) ==
  status[v] = Processed \/ (status[v] = Processing /\ token[v] # NoToken)

Playable(v) == {"segment", "playlist", "master"} \subseteq hls[v]

\* What is_streamable promises a player: the master playlist, the low variant
\* and its first segment are in storage as long as nobody is deleting the video.
StreamableIsPlayable ==
  \A v \in Videos :
    Streamable(v) /\ ~purged[v] => Playable(v)

\* A share link that has been handed out stays the video's link until the row
\* is deleted: finalize writes the token the publisher has written.
ShareLinkIsStable ==
  [][\A v \in Videos : token[v] # NoToken /\ status'[v] # Deleted => token'[v] = token[v]]_vars

\* The life a status may have: a rejected, late or repeated call never takes a
\* video back, and PROCESSED and FAILED are left only by deletion.
Successors(st) ==
  CASE st = NotInitiated  -> {PendingUpload}
    [] st = PendingUpload -> {Uploaded, Deleted}
    [] st = Uploaded      -> {Processing, Failed, Deleted}
    [] st = Processing    -> {Processed, Failed, Deleted}
    [] st = Processed     -> {Deleted}
    [] st = Failed        -> {Deleted}
    [] st = Deleted       -> {}

StatusMovesOn ==
  [][\A v \in Videos : status'[v] # status[v] => status'[v] \in Successors(status[v])]_vars

\* What a player finds in storage.
Media == [v \in Videos |-> IF purged[v] THEN "withdrawn"
                          ELSE IF Playable(v) THEN "playable" ELSE "none"]

Seen == INSTANCE VideoPromise WITH
          link <- token, media <- Media, Links <- Procs, NoLink <- NoToken

\* Whatever is retried, reset, lost or swept, users see VideoPromise: a status
\* that only moves on, a link that comes when the video plays and stays, a row
\* that goes last.
LivesAsPromised == Seen!Spec

\* The ProcessVideo row of each video and the runs, as TaskDelivery has them.
RowState == [v \in Videos |->
               LET st == ptask[v].status IN
               IF st = NoRow THEN "NOT_CREATED"
               ELSE IF st = InProgress /\ ~Held(v) THEN Pending ELSE st]
RowUsed  == [v \in Videos |-> ptask[v].attempt]
Jobs     == [p \in Procs |-> IF run[p].pc = "idle" THEN [task |-> NoVideo, attempt |-> 0]
                            ELSE [task |-> run[p].video, attempt |-> run[p].attempt]]

Delivery == INSTANCE TaskDelivery WITH
              state <- RowState, used <- RowUsed, job <- Jobs,
              Tasks <- Videos, NoTask <- NoVideo, Runners <- Procs,
              MaxRetries <- [v \in Videos |-> ProcessRetries],
              Interval <- [v \in Videos |-> NoInterval],
              ResultsOf <- [v \in Videos |-> {"Success", "PermanentFailure"}],
              RetryDelays <- {0}

\* The rows are run within the promise that TaskSystem keeps with no assumption
\* on time: whatever this module lets happen to a row, delivery at least once
\* allows it.
RowsAreDelivered == Delivery!Spec

\* The row goes last, and nothing looks for objects without a row: what is left
\* in storage then has been put there behind the delete's back - by a client
\* whose URL still lasts, by an uploader that is still running - or the storage
\* has refused to delete it.  Failed, repeated, timed out deletes leave nothing.
DeletedLeavesNothing ==
  \A v \in Videos :
    status[v] = Deleted /\ v \notin late => hls[v] = {} /\ original[v] = "absent"

\* The safety net: no video stays in a transient or failed state for ever,
\* whatever crashed or failed on the way.
VideosSettle ==
  \A v \in Videos :
    HasRow(v) /\ status[v] # Processed ~> status[v] \in {Processed, Deleted}

----------------------------------------------------------------------------
(* What the documents say and the code does not keep                       *)

\* video.md: "PROCESSED videos kept indefinitely".
ProcessedIsKept ==
  [][\A v \in Videos : status[v] = Processed => status'[v] = Processed]_vars

\* What remains of it: as long as nothing fails and clients store usable files,
\* no delete reaches a PROCESSED video before it is a day old.
ProcessedIsKeptForADay ==
  [][\A v \in Videos :
       status[v] = Processed /\ status'[v] # Processed /\ Uploads = {"good"} /\ faults = 0
         => Old(v)]_vars

\* task-catalog.md: "With max_retries = 1, that single retry converts to dead
\* letter": a retry that leaves its video in PROCESSING is dead-lettered, so
\* that an operator can see it.
RetryIsDeadLettered ==
  \A v \in Videos :
    /\ ptask[v].attempt = 1
    /\ status[v] = Processing
    /\ \A p \in Procs : run[p].video # v
    => ptask[v].status # Completed

----------------------------------------------------------------------------
(* The inductive invariants the proofs in VideoLifecycle_proofs rest on     *)

\* A run that has passed the claim and not yet reached its end.
Claimed(r) == r.pc \in RunStates \ {"idle", "load", "claim"} \/ r.up # "none"

\* claims counts the claims of a video that left UPLOADED.
ClaimsCounted ==
  \A v \in Videos :
    /\ claims[v] <= 1
    /\ status[v] \in {NotInitiated, PendingUpload, Uploaded} => claims[v] = 0
    /\ status[v] \in {NotInitiated, PendingUpload} => ptask[v].status = NoRow
    /\ token[v] # NoToken => claims[v] = 1

\* The claimed run and its publisher are the only ones to write a video's token.
RunsClaimed ==
  \A p \in Procs :
    /\ run[p] # IdleRun => ptask[run[p].video].status # NoRow
    /\ run[p].pub # "none" => run[p].up # "none"
    /\ Claimed(run[p]) => claims[run[p].video] = 1 /\ token[run[p].video] \in {NoToken, p}

OneRunPerClaim ==
  \A p, q \in Procs :
    Claimed(run[p]) /\ Claimed(run[q]) /\ run[p].video = run[q].video => p = q

DeletesFound ==
  \A d \in Deleters :
    del[d].pc \in {"prefix", "object", "row"} => status[del[d].video] # NotInitiated

VideoInv ==
  /\ ClaimsCounted
  /\ RunsClaimed
  /\ OneRunPerClaim
  /\ DeletesFound
  /\ UploadedIsQueued

\* How far a run's uploader is tells what it has stored, unless someone has
\* begun to delete it.
Stored(r) ==
  /\ r.up \in {"playlist", "master"} => "segment" \in hls[r.video]
  /\ r.up = "master" => "playlist" \in hls[r.video]
  /\ r.up = "more" \/ r.pub = "notified" \/ r.pc \in {"joinOk", "finalize", "cleanup"}
       => Playable(r.video)

PublishedIsPlayable ==
  \A v \in Videos :
    ~purged[v] /\ (token[v] # NoToken \/ status[v] = Processed) => Playable(v)

StorageInv ==
  /\ PublishedIsPlayable
  /\ \A p \in Procs : run[p] # IdleRun /\ ~purged[run[p].video] => Stored(run[p])

\* How far a delete has come: whatever it has passed is empty but for what came
\* behind its back.
DeletionInv ==
  /\ \A v \in Videos : status[v] = Deleted => purged[v]
  /\ \A d \in Deleters :
       del[d].pc \in {"object", "row"} =>
         /\ purged[del[d].video]
         /\ del[d].video \notin late =>
              hls[del[d].video] = {} /\ (del[d].pc = "row" => original[del[d].video] = "absent")
  /\ DeletedLeavesNothing

\* A row that was never created has counted nothing.
RowsInv == \A v \in Videos : ptask[v].status = NoRow => ptask[v].attempt = 0

\* As long as nothing fails and only usable files are stored ...
Calm == Uploads = {"good"} /\ faults = 0

\* ... whatever is deleted, or going to be, is a day old, has failed or is gone.
Reasoned == {v \in Videos : Old(v) \/ status[v] \in {Failed, Deleted}}

DeletionHasReason ==
  Calm =>
    /\ \A v \in Videos : original[v] \in {"absent", "good"}
    /\ \A c \in Callers : api[c].pc # "reject"
    /\ \A p \in Procs :
         run[p].pc \in RunStates \ {"idle", "load", "claim", "cleanup"}
           => status[run[p].video] # Processed
    /\ \A x \in sweep.stale \cup sweep.failed : Old(x[1])
    /\ \A i \in DeleteTasks : dtask[i].row.status # NoRow => dtask[i].video \in Reasoned
    /\ \A d \in Deleters : del[d].pc # "idle" => del[d].video \in Reasoned
=============================================================================
