# Formal verification of benri-stream

TLA+ models of benri-stream, checked with TLC on small instances, and theorems
about them proved with TLAPS for every value of the constants. Everything is
translated from the Rust sources under `crates/` and the two pages under
`frontend/src/routes`; the specifications in `.spec/` are used only where a
finding quotes what they promise. Paths below omit `crates/`.

## 1. The system

A client asks the API for a presigned URL, PUTs a video, and tells the API that
the upload is complete. That writes a task row in the same transaction. A worker
polls the row, pushes its id through Redis, transcodes the video to HLS, uploads
the segments while they are made, publishes a share link as soon as the first
segment can be played, and marks the video processed. The upload page polls until
it has a link to show; whoever opens the link gets a player. A daily sweep
collects what failed or stalled.

| Component | State it keeps | Operations | Talks to |
|---|---|---|---|
| Task outcome rules (`domain/src/task/mod.rs`) | none | `compute_update`, `calculate_retry_delay` | called by the consumer |
| Scheduler (`domain/src/task/scheduler.rs`) | task rows | `schedule_in_tx`, `schedule_standalone` | Postgres |
| Task table (`infrastructure/src/postgres/task_repository.rs`) | status, attempt_count, next_run_at, started_at, ordering_key | `find_pending`, `mark_in_progress`, `batch_update`, `reset_stale`, `find_by_id`, `count_active_by_type`, creates | poller, consumer, recovery, checker |
| Outbox poller (`worker/src/poller.rs`) | a batch between two awaits | acquire, find, mark, publish, release | Postgres, Redis list, Redis lock |
| Consumer (`worker/src/consumer.rs`, `handlers/mod.rs`) | permits, runs in flight | pop, fetch, run with timeout, persist, drain | Redis list, Postgres, handlers |
| Stale recovery (`worker/src/recovery.rs`) | none | reset | Postgres, lock |
| System task checker (`worker/src/system_checker.rs`) | none | acquire, count, create, release | Postgres, lock |
| Worker process (`worker/src/main.rs`) | the four loops, a shutdown channel | start, SIGTERM, second signal, join | all of the above |
| Video use cases (`application/src/usecases/video/`) | none between calls | initiate, complete, process, delete, sweep, two reads | Postgres, object storage, transcoder, scheduler |
| Video table (`infrastructure/src/postgres/video_repository.rs`, `transaction.rs`) | status, share_token, created_at | conditional updates, deletes, queries | use cases |
| HTTP API (`api/src/handlers/video.rs`) | none | one use case per route, Ok or an error | use cases, pages |
| HLS uploader (`infrastructure/src/transcoder/hls_uploader.rs`) | uploaded segments, last published playlist, notifier | tick, upload, publish, drain | temp dir, object storage |
| GStreamer transcoder (`infrastructure/src/transcoder/gstreamer.rs`) | pipeline thread, cancel flag, stop channel | race of pipeline and uploader | uploader |
| Web frontend (`frontend/src/routes`) | where the upload page is, its video, its link | upload, complete, poll; play | HTTP API |
| Object storage, bootstrap, configuration, tracing | - | I/O | - |

**What is hard.** Every read and the write it leads to are separate statements
(`find_pending` / `mark_in_progress`, the run's fetch / `batch_update`, the sweep's
queries / its delete tasks, the checker's count / its create), and several workers
interleave between them. The poller and the checker rely on a lock with a TTL.
Recovery judges by a clock whether a run is dead. An id is popped before anything
is known of its run. A handler's timeout drops its future but not the tasks it
spawned. A run that is retried meets the traces of its predecessor. A loop that
panics is noticed only when its worker is told to stop. The uploader reads files
while they are written. A delete lists a prefix while others may still write to
it. The page hands out a link while its video is still being made. `PROJECT.json`
lists each of these at its line with the properties that are about it.

**What makes each component correct.**

- Outcome rules: the retry budget is spent exactly, the backoff grows to its cap
  and never beyond, a recurring task never ends silently.
- Task system: one run at a time per ordering key; a result lands on the claim
  it came from; finished tasks stay finished; no claim and no task is forgotten;
  a shutdown ends. Together: `TaskPromise`. Where polls and runs take longer than
  the code counts on: delivery at least once (`TaskDelivery`), and a key with at most
  one row more at work than polls have outlived their lock.
- System task: one instance unless a check outlives its lock; a series that never
  ends, whatever panics; a shutdown that gets past panicked loops.
- Videos: claimed once; never UPLOADED without a task; statuses only move on; a
  share link never changes; streamable means playable; a delete leaves nothing
  behind; everything settles; a PROCESSED video is kept for a day at least. To the
  users: `VideoPromise`.
- Pages: a link that is shown plays; polling ends.
- Uploader: playlists name stored segments from the first without a gap, only
  grow and are closed once; no half-written segment is stored while the transcode
  may still succeed; the notifier fires only when playback is possible; Ok means
  complete; a failure unwinds. To its caller: `HlsStream`.

## 2. The modules

| Module | Models | Checked by |
|---|---|---|
| `TaskOutcome` | `compute_update`, its five outcomes, `calculate_retry_delay` | extended by the next five |
| `TaskRuns` | one row through any sequence of results | `MCTaskRuns`, `TaskRuns_proofs` |
| `TaskPromise` | what the task system promises to those who use it (abstract) | implemented by `TaskSystem` in time; `TaskPromise_proofs` |
| `TaskDelivery` | what is left of it with no assumption on time: at least once (abstract) | implemented by `TaskSystem`, `TaskPromise` and the rows of `VideoLifecycle` |
| `TaskSystem` | tasks table, Redis list and lock, pollers, consumers, recovery, worker processes, time | `MCTaskSystem`, `TaskSystem_proofs` |
| `SystemTasks` | the recurring task, the checker, the four loops of each worker | `MCSystemTasks`, `SystemTasks_proofs` |
| `VideoLifecycle` | the use cases over the videos table, the store and the task rows they schedule | `MCVideoLifecycle`, `VideoLifecycle_proofs`, `VideoRefinement_proofs` |
| `VideoPromise` | the life of a video as its users see it (abstract) | implemented by `VideoLifecycle` |
| `VideoPages` | upload page, player page and the reads, as the clients of `VideoLifecycle` | `MCVideoPages`, `VideoPages_proofs` |
| `HlsStages` | the stages of a transcode that others can see | extended by `HlsStream` and `VideoLifecycle` |
| `HlsStream` | one transcode as `process_video` sees it (abstract) | implemented by `HlsUploader` |
| `HlsUploader` | one `transcode_to_hls`: pipeline thread, uploader task, coordinator | `MCHlsUploader`, `HlsUploader_proofs` |

**How they compose.**

```
                           TaskOutcome
             ________________|_|_____|__________
            |        |         |                |
        TaskRuns     |     TaskPromise ==> TaskDelivery <===============+
                     |      |   ^               ^                       |
                     |      |   | (in time)     | (always)              |
                     |      |   +-- TaskSystem -+                       |
                     |   SystemTasks (INSTANCE)                         | (its rows)
                     |                                                  |
                     +----------------- VideoLifecycle =================+
                                          |   |   +=====> VideoPromise
        HlsUploader ==> HlsStream -- HlsStages|
                                              +--- VideoPages (PagesSpec => Spec)
```

`==>` and `=====>` are refinements (the detailed specification implements the
abstract one, by INSTANCE with a refinement mapping); plain lines are EXTENDS.

- `TaskSystem` implements `TaskPromise` (`KeepsThePromise`, an INSTANCE with a refinement
  mapping): a task *runs* while a handler of it lives; an IN_PROGRESS row whose id is
  still in a batch or in Redis, or whose run is lost, *waits* there. Claims,
  queue, polls and recovery are stutters; a crash abandons the runs of its worker.
- That holds where a poll fits the lock's TTL and a run the stale threshold. With
  neither, `TaskSystem` implements `TaskDelivery` (`DeliversAtLeastOnce`): runs of one task
  may overlap, a finished row may be claimed again, but a run starts from the row as
  it is, writes to it once at most, and nothing else counts attempts or ends a task.
  `TaskPromise` is the special case in which a task is its own runner
  (`PromiseIsADelivery`).
- `SystemTasks` lives on `TaskPromise`: its rows move by the promise's own actions
  (`Row == INSTANCE TaskPromise`), each joined to the loop it needs - no start without
  a poller and a consumer, no reset without a recovery loop.
- `VideoLifecycle` sees the task system as a handler does: a run starts from a PENDING
  row (`ProcessStart`, `DeleteStart`), its result is written by `ComputeUpdate`, an
  IN_PROGRESS row may come back (`ProcessReset`, `DeleteReset`) - when its run is dead,
  which the promise has as Abandon, or, beyond the promise, while it is alive,
  which `process_video_reset` shows to be possible with ProcessVideo's two hours -
  and a finished row may be marked IN_PROGRESS once more (`ProcessRevive`,
  `DeleteRevive`), by a poll that read it before and outlived its lock:
  `mark_in_progress` goes by id alone. All of it is within `TaskDelivery`
  (`RowsAreDelivered`).
- `VideoLifecycle` implements `VideoPromise` (`LivesAsPromised`), in which there are only
  a status, a link and what a player finds: none of the retries, resets, timeouts
  and deletes shows but as a status that moves on, a link that appears once there is
  something to play and stays, and a row that goes after what it played.
- `HlsUploader` implements `HlsStream` (`ImplementsStream`), which is written with the very
  operators (`StreamBegins`, `AfterUpload`, `UploaderOver` of `HlsStages`) by which a run of
  `VideoLifecycle` moves its uploader.
- `VideoPages` extends `VideoLifecycle`: every step of it is one of `VideoLifecycle` or of
  the pages alone, so its behaviours are `VideoLifecycle`'s (`PagesImplementSpec`).

**TaskSystem.** One function per column of the tasks table. `due` and `age` are ticks
from now, so time needs no bound: `age` saturates above the stale threshold and
`due` stops falling at `-MaxLate`. `started_at` is read only of IN_PROGRESS rows and
written whenever a row becomes one, so the model keeps 0 for the others. A poll
is `PollAcquire` (SET NX EX), `PollFind` (the three CTEs: `KeyBlocked`, `Eligible`,
`Selected`, and the page), `PollMark`, `PollPublish`, `PollRelease`; a permit's run is
`Pop`, `Fetch`, `HandlerReturns` or `HandlerTimesOut`, `Persist`. `RunIsLost` stands for a
failed fetch, a panic and a failed `batch_update`. Recovery's body is one SQL
statement between acquiring and releasing a lock nobody else uses: one step.

**SystemTasks.** The checker is `Wake`, `CheckAcquire`, `CheckCount`, `CheckCreate`,
`CheckRelease`, with `CheckFails` and `LockExpires` between any two. A process is up or
down, has been told to stop or not, and has four loops that are on, ended or
panicked; `Exit` is `tokio::join!`, which takes a panicked handle like an ended one.
A row that is terminal is never read again, so a new row may take its place:
`Rows` bounds the rows that are active, not how many there ever are.

**VideoLifecycle.** One action per await of each use case. A run of ProcessVideo is a
record with three program counters: the handler, its uploader (`up`) and its
publisher (`pub`). A timeout stops only the first; a crash stops all. A failed
call that may have reached the database is a disjunct of its own
(`ProcessClaim`, `ProcessFinalize`). A finished DeleteVideo row is forgotten, so that
ids can be reused. `claims` (how often a video was claimed), `purged` (a delete of it
has begun) and `late` (something was stored behind a delete's back, or the store
kept an object without saying so) are history variables.

**VideoPages.** A page is idle, uploading, completing, processing, done or at an
error. `CompleteReplies` couples the answer of `complete_upload` to the page that
waits for it; `PagePolls` is the round of `pollForShareUrl` that ends the polling.
`PlayerPage` is what the player page would find if it were opened now.

**HlsUploader.** Segments are numbers; a playlist is their list and whether it is
closed. `torn` records what was stored while the pipeline was still writing it. The
uploader's tick is broken at every await; `Dropped` is the handler's timeout, after
which the temp dir and the stop sender are gone and thread and uploader are not.

## 3. The runs

Passing runs:

| Run | Configuration | Shows |
|---|---|---|
| `task_runs` | one-shot and recurring; no, 0, 1, 3, 5 and 12 retries; three base delays; 14 runs | the budget, the backoff (also where the product saturates) and the recurrence |
| `tasks_in_time` | 2 workers, 1 permit each, 3 tasks, 2 keys, 1 fault, MaxWait + Timeout <= Stale | sequential runs, results on their claims, attempts within the budget: `TaskSystem` implements `TaskPromise` |
| `tasks_settle` | 2 workers, 1 permit, 2 tasks of a key, 1 poll that outlives its lock, ids that may wait past the threshold, 1 fault, fairness | rows of a key counted by overruns; `TaskSystem` implements `TaskDelivery`; every claim ends, every one-shot task settles, every shutdown ends |
| `system_tasks` | 2 workers, 3 rows, one overrun, one panic, one fault, fairness | active rows counted by overruns, claims held by live consumers, the sweep recreated and run again and again, shutdowns that complete |
| `video_races` | 1 video, 1 caller, 2 runs, 1 delete, the sweep, 1 fault | one claim per life, no UPLOADED video without a task, streamable is playable, nothing left behind a delete: `VideoLifecycle` implements `VideoPromise`, its rows `TaskDelivery` |
| `video_settle` | the upload page as the client, 1 run, 1 fault, fairness | links that play, polling that ends, every video PROCESSED or deleted, none that is PROCESSED deleted on its first day while nothing fails |
| `hls_streams` | 3 tiers, the low one second, up to 3 segments each, 2 failed calls, fairness | playlists, whole segments, notifier, Ok is complete, playlists only grow; failures unwind and detached uploaders end: `HlsUploader` implements `HlsStream` |

Runs that must find a violation - each checks one sentence of the repository that
the code does not keep (the quotes are in `PROJECT.json`):

| Run | Shows |
|---|---|
| `process_video_reset` | ProcessVideo may run for two hours, recovery resets after one |
| `backlog_runs_twice` | the stale clock starts at the poll, so a backlog duplicates runs without a crash |
| `retry_completes` | a retry that finds its own claim counts as COMPLETED; the video stays in PROCESSING |
| `processed_swept` | the sweep deletes a video that was PROCESSED after its query |
| `hls_error_notifies` | the drain after a pipeline error fires the notifier |

Other ways to the same ends, which the models contain and no run of its own shows:
a lost reply of `mark_processed` (`ProcessFinalize`, then `ProcessFail`) and the delete
task of an earlier rejection (`CompleteReject`) also get a PROCESSED video deleted;
nothing deduplicates DeleteVideo tasks (`CreateDeletes`), so that one video may have
several, which their ordering key runs one after the other; the sweep goes by
`created_at` and may fail a video whose transcode is under way; a ladder without
`low` (`LowInLadder = FALSE`) yields PROCESSED videos without a master playlist.

Differences between documents and code that follow from one line each and need no
run:

- an original whose inline delete failed is kept: `process_video.rs` says that the
  sweep collects it, but the sweep's statuses leave PROCESSED videos out
  (`ProcessCleanup`, `StaleStatuses`);
- a FAILED video that had its link published is shown as done by the upload page,
  which looks at `share_url` before the status (`PagePolls`); `ShownLinksPlay` therefore
  speaks of videos that have not failed;
- the player page does not poll while a video is not yet playable, since the
  answer carries no status (`PlayerPage` is "blank" then).

**Bounds.** In `TaskSystem` one tick is half an hour: the stale threshold is 2 ticks,
the sweep's timeout 1, ProcessVideo's 4; the 24 hours of the recurring task are
1 tick, which brings it back sooner than in reality and hides nothing. Five
retries become one: the budget itself is `TaskRuns`' subject with the real numbers.
Two workers with a permit each are the least with which two polls, two runs and
a reset can overlap; two rows share a key and a third does not. In `tasks_settle` the
threshold is 1 tick, which an id may spend in the queue, and one poll may outlive
its lock: two polls are then enough for a row that is waiting, running or finished to
be marked again and its id to be queued twice. It has one permit, which keeps the
liveness check small, and handlers that end within their tick, so that the permit gets
to both copies in time; `backlog_runs_twice` has two runs side by side. In `SystemTasks`
two workers are the least with which one check outlives its lock to another's
profit, and one overrun can leave two rows active, of which a third row keeps
count; one panic and one fault, in either order, kill a loop in one worker and
stop, crash or lose something in the other. One video is enough for
`VideoLifecycle` because no use case but the sweep looks at two, and the sweep treats
each on its own; two runs of it can overlap with each other, a delete, a caller
and the sweep. Three segments are the least with one held back, one in mid-loop
and one drained; the low tier comes second where it has to wait its turn and
leave it to another, and first where the drain is at issue. `MaxFaults` bounds the
failures of an execution, not where they happen: every call that can fail has the
choice. The theorems of section 4 need none of these bounds.
CHECK_DEADLOCK is off where all actors may really be done.

**Fairness.** All fairness is weak. `TaskSystem`: the loops go on, `tokio`'s timers
fire, time passes, a TTL expires, a dead worker is restarted; acquiring the lock
and popping are fair for some worker, not for each. Nothing makes a handler return
before its timeout. `SystemTasks`: the same for the loops that are left; nothing
brings a panicked loop back but the restart of its process. `VideoLifecycle`: runs,
deletes and the sweep go on and time passes; clients and callers may stop at any
point and an uploader need not make progress (the handler ends all the same).
`VideoPages` adds that a page which is left open polls on; its `setTimeout` loop does.
The page gives up after ten minutes in the code; that is left out, so that
`PollingEnds` says it is not what ends the polling. `HlsUploader`: the tasks run, but
nothing makes a pipeline end.

**Symmetry** is used only in safety runs of `MCVideoLifecycle`, over callers, runs
and deletes, which the specification never tells apart (a new delete row is picked by
CHOOSE, so the rows are left out of it).

## 4. The proofs

Every invariant, action property and refinement that a passing run checks, and
some that they imply, is also a theorem, for any number of tasks, workers, videos, runs, tiers, segments and
faults. What remains with TLC is liveness.

| Module | Theorem | States |
|---|---|---|
| `TaskRuns_proofs` | `TypeCorrect` | `Spec => []TypeOK`, as in each module below but the pages' |
| | `BudgetIsSpent` | a row is dead-lettered exactly when its budget is spent, or by a permanent failure |
| | `BackoffIsMonotone` | the backoff never shrinks between successes and never exceeds its cap |
| | `RecurringGoesOn` | only Terminate completes a recurring task |
| `TaskSystem_proofs` | `KeysAreExclusive` | no poll outlives its lock => one row per key IN_PROGRESS |
| | `ClaimInvariant` | ... and waits and timeouts below the threshold => one holder per claim, and it is fresh |
| | `RunsAreSequential` | under the same => no two live runs of a task or key |
| | `ResultsHitTheirClaim` | under the same => a run's row is still its claim |
| | `FinalIsFinal` | under the same => finished rows are never touched |
| | `LiveRunsAreSafe` | under the same => recovery never takes the task of a live run |
| | `RetriesAreBounded` | with no assumption => no row counts past its budget |
| | `PromiseIsKept` | under the same two => `TaskSystem` implements `TaskPromise` |
| | `OverrunsAddOneEach` | with no assumption => a key has at most 1 + overruns rows IN_PROGRESS |
| | `DeliveryIsAtLeastOnce` | with no assumption => `TaskSystem` implements `TaskDelivery` |
| `TaskPromise_proofs` | `PromiseIsADelivery` | `TaskPromise` implements `TaskDelivery` |
| `SystemTasks_proofs` | `ChecksAreCounted` | active rows and checks about to create are at most 1 + overruns |
| | `SweepIsSingle` | hence at most 1 + overruns active rows |
| | `RunsHaveConsumers` | a row that runs has a live consumer, one that lost its run is PENDING |
| `VideoLifecycle_proofs` | `VideosAreClaimedOnce` | one claim per video, one run with an uploader |
| | `UploadedVideosAreQueued` | no UPLOADED video without a live or dead-lettered task |
| | `ShareLinksAreStable` | a token stays until the row is deleted |
| | `StatusesMoveOn` | a status changes only along the life of a video |
| | `StreamableVideosArePlayable` | `LowInLadder` => streamable means playable until deletion begins |
| | `DeletionsAreComplete` | a deleted video leaves nothing but what came behind its delete's back |
| | `ProcessedVideosLastADay` | no failure and usable files only => no PROCESSED video is deleted on its first day |
| `VideoRefinement_proofs` | `UsersSeeThePromise` | `LowInLadder` => `VideoLifecycle` implements `VideoPromise` |
| | `RowsLiveByDelivery` | its ProcessVideo rows implement `TaskDelivery` |
| `VideoPages_proofs` | `PagesImplementSpec` | `PagesSpec => Spec` |
| | `PagesSeeThePromise` | so the three of them hold with the pages as clients |
| | `LinksPlay` | `LowInLadder` => a link that is shown plays until its video fails or is deleted |
| `HlsUploader_proofs` | `HlsInvariant` | the inductive invariant |
| | `PlaylistsSound`, `SegmentsAreWhole`, `NotifiedPlays`, `OkStoresAll` | the four invariants of `hls_streams` |
| | `PlaylistsGrow` | a playlist never loses a segment, and stays as it was closed |
| | `StreamIsImplemented` | `HlsUploader` implements `HlsStream` |

**Assumptions.** Of the task system, the two the code's comments make: `PollsFitTheTTL`
(a poll takes less than the 30 s of LOCK_TTL_SECS in `poller.rs`) and
`TimeoutsBelowStale` (`TaskMetadata` asks it of every type); the violation runs show that
without the second the conclusions are false. What `TaskSystem` is proved to do
without either - count attempts, deliver at least once, add no row to a key but one
for each poll that has outlived its lock - needs no more than that workers are
finitely many, as they are, since it counts them. Of the videos and the pages only
`LowInLadder`, that QUALITY_TIERS has its low tier, and that only where playing is at
issue: early resets, timeouts with tasks left behind and lost replies are all
among the steps. Each constant's ASSUME is evaluated by TLC in a run.

**Task system.** `OneInProgressPerKey` and `SequentialRuns` are not inductive: a poll that
has read its page marks it later. `PollInv` adds that a poller inside a poll owns the
lock and that no key of its page has become busy; `OneHolder` that an id is in one
place (queue, marked batch or permit) only; `HoldersAreFresh` that a holder's row is
IN_PROGRESS and younger than the threshold, so that recovery never sees it. `ClaimInv`
is their conjunction. `BudgetInv` needs none of it: an update on its way counts within
the budget whatever claim it will hit. For the refinement, `UpdateInv` says that a
finished run carries what `ComputeUpdate` makes of the row as it is now, so that
writing it is the promise's Finish, and `OneInProgressPerKey` is why a Start is one.

Where a poll may outlive its lock, `OverrunInv` counts: the pollers that go on without
the lock (`Overstaying`) are no more than the overruns so far, and the rows of a key
that are IN_PROGRESS together with the pollers about to mark one more (`AboutToMark`) are
at most one more than these. A poller that reads a page with a row of the key has
found the key free, so only those who overstay can be about to mark it already; and
a page names a key once, so a poller marks one. `KeysWithinOverruns`
alone is not inductive, as a poller marks what it has read long ago. `DeliversAtLeastOnce` takes
two invariants: `UpdateInv`, now of the attempts the run itself has read, whatever the
row has become, and `ReadRowsExist`, that what a poll marks has been created.

**System task.** `ActiveWithinOverruns` is about rows, and what may break it are checks
that have counted: `CheckInv` bounds active rows and such checks together, and bounds
the checks inside without the lock by the overruns. A count that finds nothing can
be shared by those and the lock's holder only.

**Rows.** `RunsInv` ties the backoff to the attempt count it was computed from; its
growth is that of the powers of two up to the exponent's clamp, which are taken by
cases.

**Videos.** `VideoInv`: `ClaimedOnce` is not inductive because nothing in it says why a
second claim must fail. `ClaimsCounted` ties the history `claims` to the status (a video
up to UPLOADED has none) and `RunsClaimed` ties it to the runs past their claim, each
of which is then alone with its video (`OneRunPerClaim`). That also gives the stable
link, a token being the claimed run's or none, and completed rows, a run completing
its row only past the claim or when the video was not UPLOADED. `DeletesFound` is
there for the statuses: a delete has seen a row, so it does not make one out of
nothing. `StorageInv` says what an uploader's place tells of the store (`Stored`).
`DeletionInv` says how far a delete has come: what it has passed is empty but for
`late`. `LinksHeld` ties a page's link to its video's token; with the stable link and
`StreamableVideosArePlayable` it gives `LinksPlay`.

For `VideoPromise`, `StorageInv` is why there is something to play before a link or
PROCESSED is written, and `DeletionInv` why a row that goes has been withdrawn first.
For `TaskDelivery` a row is IN_PROGRESS when a run holds it; one that is marked but
that no run has, or has any longer, counts as waiting, so that a reset of it is a
stutter, and `RowsInv` is there for rows that do not exist yet.
`ProcessedIsKeptForADay` rests on `DeletionHasReason`: as long as nothing has failed
(`Calm`), what is deleted, or scheduled to be, is a day old, FAILED or gone (`Reasoned`) -
there are no rejections, a run that has claimed its video and is not done with it is
never of a PROCESSED one, since only that very run could have finished it
(`OneRunPerClaim`), and what the sweep has read was old.

**Uploader.** `HlsInv` has nine parts. `ListsInOrder`: what is uploaded, listed and
published is each a prefix of the tier's segments; `DiskKept` and `TodoInOrder`: what a
tick still has to upload is next in line and on disk; `OneOpenSegment`: only the last
segment is being written; `Coordinated`: what pipeline, uploader and coordinator know
of each other, so that nobody drains while the pipeline plays; `TodoIsWhole` and
`StoredSegmentsAreWhole`; `LowComesFirst`: low segment, low playlist, master and notifier
come one after the other; `DrainIsComplete`: a drain that has passed a tier left nothing
of it. `ClosedBehind` is added for `PlaylistsGrow`: a closed playlist lies behind the drain.
For the refinement, `Stage` reads from the uploader's state which of the first objects
comes next, and each upload of one of them is a step of `HlsStream`, any other step but
the end a stutter.

**Only model-checked** are the liveness properties, since fairness and ENABLED are
beyond TLAPS: `ClaimsEnd`, `ScheduledTasksSettle`, `ShutdownEnds`, `MissingIsRecreated`,
`SweepKeepsRunning`, `ShutdownCompletes`, `VideosSettle`, `PollingEnds`, `FailureUnwinds`,
`DetachedUploaderEnds`.

## 5. Not modelled

- Bootstrap, configuration, migrations and tracing keep no state that a property
  is about.
- GStreamer: how elements are built and linked and what probe discovers are library
  calls. A pipeline in the model makes segments, ends, fails or hangs.
- Object storage: presigning, content types and the request format of a listing.
  Objects are members of a set; `delete_prefix` may silently keep some, as the code
  ignores the error list of a page.
- HTTP: parsing, JSON, error texts, CORS and trace layers.
- The frontend's ten-minute cap and its failing requests, the checks on the chosen
  file in the browser, hls.js. A page in the model waits for its answers.
- `retry_after` and `reschedule_after` of a `TaskResult`, which no handler sets;
  `find_by_ids`, which nothing calls.
- A pipeline thread that panics returns from `transcode_to_hls` without waiting for
  its uploader; `HlsUploader` has this as `Dropped`, `VideoLifecycle` does not tell it from
  a failure.
- That what is transcoded is what was validated: the original may be replaced while
  its URL lasts (`ClientUpload`), and no document says otherwise.

## 6. The plan

Done, in this order: `TaskOutcome` and `TaskRuns`; `TaskSystem`; `VideoLifecycle`;
`HlsUploader`; the proofs of the task system and of the videos; `TaskPromise` and the
refinement of `TaskSystem`; `SystemTasks` on top of it; `HlsStages`, `HlsStream` and the
refinement of `HlsUploader`; `VideoPages`; the proofs of everything that is not liveness;
`TaskDelivery`, the task system without assumptions on time, and the rows marked
again that it has, in `VideoLifecycle`; `VideoPromise`.

What could follow:

1. The lock with token and TTL as a specification of its own, with the overruns
   counted, for the poller's and the checker's use of it alike.
2. The page's failing requests and its cap, with the retries a user makes by hand.
3. Liveness runs with a second fault, where one fault hides that two of them
   do not add up.
