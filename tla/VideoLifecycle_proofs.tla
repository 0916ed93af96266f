----------------------- MODULE VideoLifecycle_proofs -----------------------
(***************************************************************************)
(* Theorems about VideoLifecycle, for every set of videos, callers, runs    *)
(* and delete rows, any number of faults and any retry budgets.             *)
(***************************************************************************)
EXTENDS VideoLifecycle, TLAPS

----------------------------------------------------------------------------
(* What the operators of the model return                                   *)

\* The row compute_update leaves of a one-shot task: never IN_PROGRESS, its
\* counter within the budget; only a success, a skip or the like completes it.
LEMMA UpdateOfOneShot ==
  ASSUME NEW max \in Nat, NEW att \in 0..max, NEW result \in TaskResult
  PROVE  LET u == ComputeUpdate(att, max, NoInterval, 0, result) IN
         /\ u.status \in {Pending, Completed, DeadLetter}
         /\ u.attempt \in 0..max
         /\ result = "RetryableFailure" => u.status \in {Pending, DeadLetter}
  BY DEF ComputeUpdate, OnSuccess, OnRetryableFailure, OnPermanentFailure, OnSkip,
         OnTerminate, CanRetry, Update, TaskResult, Pending, Completed,
         DeadLetter, NoRetries, NoInterval, KeepNextRun

LEMMA StatusNames ==
  /\ TaskStatus = {Pending, InProgress, Completed, DeadLetter}
  /\ NoRow \notin TaskStatus
  /\ Pending # InProgress /\ Pending # Completed /\ Pending # DeadLetter
  /\ InProgress # Completed /\ InProgress # DeadLetter /\ Completed # DeadLetter
  BY DEF TaskStatus, NoRow, Pending, InProgress, Completed, DeadLetter

LEMMA VideoStatusNames ==
  /\ VideoStatus = {PendingUpload, Uploaded, Processing, Processed, Failed}
  /\ NotInitiated \notin VideoStatus /\ Deleted \notin VideoStatus
  /\ NotInitiated # Deleted
  /\ PendingUpload \notin {Uploaded, Processing, Processed, Failed}
  /\ Uploaded \notin {Processing, Processed, Failed}
  /\ Processing \notin {Processed, Failed}
  /\ Processed # Failed
  BY DEF VideoStatus, NotInitiated, PendingUpload, Uploaded, Processing, Processed, Failed,
         Deleted

LEMMA IdleTypes ==
  /\ IdleCall \in Calls
  /\ IdleRun \in Runs
  /\ IdleDel \in Deletes
  /\ IdleSweep \in Sweeps
  BY VideoAssumption
  DEF IdleCall, IdleRun, IdleDel, IdleSweep, Calls, Runs, Deletes, Sweeps, Reads, RunStates

\* Writing a run: the place is either free again or holds what was written.
LEMMA RunWritten ==
  ASSUME RunsTyped, NEW p \in Procs, NEW r \in Runs, r # IdleRun => r.video \in Videos,
         SetRun(p, r)
  PROVE  /\ RunsTyped'
         /\ run'[p] \in {r, IdleRun}
         /\ \A q \in Procs : q # p => run'[q] = run[q]
<1>1. Reap(r) \in Runs /\ Reap(r) \in {r, IdleRun}
  BY IdleTypes DEF Reap
<1>2. /\ run' \in [Procs -> Runs]
      /\ run'[p] = Reap(r)
      /\ \A q \in Procs : q # p => run'[q] = run[q]
  BY <1>1 DEF SetRun, RunsTyped
<1>3. QED
  BY <1>1, <1>2 DEF RunsTyped

\* The fields of a run that is not idle.
LEMMA RunFields ==
  ASSUME RunsTyped, NEW p \in Procs
  PROVE  /\ run[p] \in Runs
         /\ run[p].pc # "idle" \/ run[p].up # "none" \/ run[p].pub # "none"
              => run[p] # IdleRun /\ run[p].video \in Videos
         /\ run[p].attempt \in 0..ProcessRetries
  BY DEF RunsTyped, Runs, IdleRun

LEMMA RunAdvanced ==
  ASSUME RunsTyped, NEW p \in Procs, run[p].pc # "idle", NEW l \in RunStates, RunGoes(p, l)
  PROVE  /\ RunsTyped'
         /\ run'[p] \in {[run[p] EXCEPT !.pc = l], IdleRun}
         /\ \A q \in Procs : q # p => run'[q] = run[q]
<1>1. [run[p] EXCEPT !.pc = l] \in Runs /\ [run[p] EXCEPT !.pc = l].video \in Videos
  BY RunFields DEF Runs
<1>2. QED
  BY <1>1, RunWritten DEF RunGoes

\* A run ends: its row gets an outcome, its place is free once the tasks it
\* spawned are over.
LEMMA RunEnded ==
  ASSUME RunsTyped, ProcessRowsTyped, NEW p \in Procs, run[p].pc # "idle",
         NEW result \in TaskResult, RunEnds(p, result)
  PROVE  /\ RunsTyped'
         /\ ProcessRowsTyped'
         /\ run'[p] \in {[run[p] EXCEPT !.pc = "idle"], IdleRun}
         /\ \A q \in Procs : q # p => run'[q] = run[q]
         /\ \A v \in Videos : v # run[p].video => ptask'[v] = ptask[v]
         /\ ptask'[run[p].video].status \in {Pending, Completed, DeadLetter}
         /\ result = "RetryableFailure" =>
              ptask'[run[p].video].status \in {Pending, DeadLetter}
<1>1. /\ RunsTyped'
      /\ run'[p] \in {[run[p] EXCEPT !.pc = "idle"], IdleRun}
      /\ \A q \in Procs : q # p => run'[q] = run[q]
  BY RunAdvanced DEF RunEnds, RunStates
<1> DEFINE u == ComputeUpdate(run[p].attempt, ProcessRetries, NoInterval, 0, result)
           v == run[p].video
<1>2. v \in Videos /\ run[p].attempt \in 0..ProcessRetries /\ ProcessRetries \in Nat
  BY RunFields, VideoAssumption
<1>3. /\ u.status \in {Pending, Completed, DeadLetter}
      /\ u.attempt \in 0..ProcessRetries
      /\ result = "RetryableFailure" => u.status \in {Pending, DeadLetter}
  BY <1>2, UpdateOfOneShot
<1>4. TaskRow(u.status, u.attempt) \in TaskRows(ProcessRetries)
  BY <1>3, StatusNames DEF TaskRow, TaskRows
<1>5. ptask' = [ptask EXCEPT ![v] = TaskRow(u.status, u.attempt)]
  BY DEF RunEnds
<1> HIDE DEF u, v
<1>6. /\ ptask' \in [Videos -> TaskRows(ProcessRetries)]
      /\ ptask'[v] = TaskRow(u.status, u.attempt)
      /\ \A w \in Videos : w # v => ptask'[w] = ptask[w]
  BY <1>2, <1>4, <1>5 DEF ProcessRowsTyped
<1>7. QED
  BY <1>1, <1>3, <1>6 DEF v, ProcessRowsTyped, TaskRow

\* New DeleteVideo rows.
LEMMA DeletesCreated ==
  ASSUME DeleteRowsTyped, NEW S, NEW requests \in SUBSET (Videos \X S), CreateDeletes(requests)
  PROVE  DeleteRowsTyped'
<1>1. PICK ids :
        \E g \in [ids -> requests] :
          dtask' = [i \in DeleteTasks |->
                      IF i \in ids THEN [row |-> TaskRow(Pending, 0), video |-> g[i][1]]
                                   ELSE dtask[i]]
  BY DEF CreateDeletes
<1>0. PICK g \in [ids -> requests] :
        dtask' = [i \in DeleteTasks |->
                    IF i \in ids THEN [row |-> TaskRow(Pending, 0), video |-> g[i][1]]
                                 ELSE dtask[i]]
  BY <1>1
<1>2. TaskRow(Pending, 0) \in TaskRows(DeleteRetries)
  BY VideoAssumption, StatusNames DEF TaskRow, TaskRows
<1>3. \A i \in ids : g[i][1] \in Videos
  OBVIOUS
<1>4. QED
  BY <1>0, <1>2, <1>3 DEF DeleteRowsTyped

\* A DeleteVideo run ends.
LEMMA DeleteEnded ==
  ASSUME DeleteRowsTyped, DeletesTyped, NEW d \in Deleters, del[d].pc # "idle",
         NEW result \in TaskResult, DeleteEnds(d, result)
  PROVE  DeleteRowsTyped' /\ DeletesTyped' /\ del'[d] = IdleDel
         /\ \A e \in Deleters : e # d => del'[e] = del[e]
<1> DEFINE u == ComputeUpdate(del[d].attempt, DeleteRetries, NoInterval, 0, result)
           row == IF u.status = Pending THEN TaskRow(Pending, u.attempt) ELSE TaskRow(NoRow, 0)
<1>1. /\ del[d].attempt \in 0..DeleteRetries /\ DeleteRetries \in Nat
      /\ del[d].video \in Videos /\ del[d].task \in DeleteTasks
  BY VideoAssumption DEF DeletesTyped, Deletes
<1>2. u.status \in {Pending, Completed, DeadLetter} /\ u.attempt \in 0..DeleteRetries
  BY <1>1, UpdateOfOneShot
<1>3. row \in TaskRows(DeleteRetries)
  BY <1>1, <1>2, StatusNames DEF TaskRow, TaskRows
<1>4. dtask' = [dtask EXCEPT ![del[d].task] = [row |-> row, video |-> del[d].video]]
  BY DEF DeleteEnds
<1>5. del' = [del EXCEPT ![d] = IdleDel]
  BY DEF DeleteEnds
<1> HIDE DEF row, u
<1>6. DeleteRowsTyped'
  BY <1>1, <1>3, <1>4 DEF DeleteRowsTyped
<1>7. DeletesTyped' /\ del'[d] = IdleDel /\ \A e \in Deleters : e # d => del'[e] = del[e]
  BY <1>5, IdleTypes DEF DeletesTyped, IdleDel
<1>8. QED
  BY <1>6, <1>7

LEMMA DeleteAdvanced ==
  ASSUME DeletesTyped, NEW d \in Deleters, del[d].pc # "idle",
         NEW l \in {"prefix", "object", "row"}, DeleteGoes(d, l)
  PROVE  DeletesTyped' /\ del'[d] = [del[d] EXCEPT !.pc = l]
         /\ \A e \in Deleters : e # d => del'[e] = del[e]
  BY DEF DeletesTyped, DeleteGoes, Deletes

\* The conditional updates keep the types.
LEMMA UpdatesTyped ==
  ASSUME VideosTyped, NEW v \in Videos
  PROVE  /\ \A e \in VideoStatus, n \in VideoStatus :
              UpdateStatusIf(v, e, n) \in [Videos -> VideoStatus \cup {NotInitiated, Deleted}]
         /\ \A p \in Procs : SetShareToken(v, p) \in [Videos -> Procs \cup {NoToken}]
  BY DEF VideosTyped, UpdateStatusIf, SetShareToken

LEMMA AFault == ASSUME faults \in 0..MaxFaults, Fault PROVE faults' \in 0..MaxFaults
  BY VideoAssumption DEF Fault

----------------------------------------------------------------------------
(* Type correctness                                                         *)

LEMMA InitType == Init => TypeOK
  BY VideoAssumption, IdleTypes, StatusNames, VideoStatusNames
  DEF Init, TypeOK, VideosTyped, ProcessRowsTyped, DeleteRowsTyped, CallsTyped, RunsTyped,
      DeletesTyped, TaskRow, TaskRows, IdleCall, IdleDel, Files, Objects

LEMMA StutterType == ASSUME TypeOK, UNCHANGED vars PROVE TypeOK'
  BY DEF TypeOK, vars, VideosTyped, ProcessRowsTyped, DeleteRowsTyped, CallsTyped, RunsTyped,
         DeletesTyped

LEMMA ClientType ==
  ASSUME TypeOK, NEW v \in Videos, Initiate(v) \/ ClientUpload(v) \/ Age(v)
  PROVE  TypeOK'
<1>1. /\ UNCHANGED <<ptask, dtask, api, run, del, sweep, faults>>
      /\ ProcessRowsTyped' /\ DeleteRowsTyped' /\ CallsTyped' /\ RunsTyped' /\ DeletesTyped'
  BY DEF TypeOK, Initiate, ClientUpload, Age, ProcessRowsTyped, DeleteRowsTyped, CallsTyped,
         RunsTyped, DeletesTyped
<1>2. VideosTyped'
  <2>1. CASE Initiate(v)
    BY <2>1, VideoStatusNames DEF TypeOK, VideosTyped, Initiate
  <2>2. CASE ClientUpload(v)
    BY <2>2, VideoAssumption DEF TypeOK, VideosTyped, ClientUpload, BehindADelete
  <2>3. CASE Age(v)
    BY <2>3, VideoAssumption DEF TypeOK, VideosTyped, Age
  <2>4. QED
    BY <2>1, <2>2, <2>3
<1>3. QED
  BY <1>1, <1>2 DEF TypeOK

LEMMA CallType ==
  ASSUME TypeOK, NEW c \in Callers, CallStep(c)
  PROVE  TypeOK'
<1>1. /\ UNCHANGED <<token, clock, original, hls, run, del, sweep, claims, purged, late>>
      /\ RunsTyped' /\ DeletesTyped' /\ sweep' \in Sweeps
  BY DEF TypeOK, CallStep, CompleteFind, CompleteHead, CompleteRange, CompleteReject, CompleteTx,
         RunsTyped, DeletesTyped
<1>2. CallsTyped'
  <2>1. ASSUME NEW v \in Videos, CompleteFind(c, v) PROVE CallsTyped'
    BY <2>1 DEF TypeOK, CallsTyped, CompleteFind, Calls
  <2>2. CASE CallEnds(c)
    BY <2>2, IdleTypes DEF TypeOK, CallsTyped, CallEnds, IdleCall
  <2>3. ASSUME NEW l \in {"reject", "range", "tx"}, CallGoes(c, l), api[c].pc # "idle"
        PROVE  CallsTyped'
    BY <2>3 DEF TypeOK, CallsTyped, CallGoes, Calls
  <2>4. QED
    BY <2>1, <2>2, <2>3 DEF CallStep, CompleteHead, CompleteRange, CompleteReject, CompleteTx
<1>3. VideosTyped' /\ ProcessRowsTyped' /\ faults' \in 0..MaxFaults
  <2>1. CASE CompleteTx(c)
    <3> DEFINE v == api[c].video
    <3>1. v \in Videos
      BY <2>1 DEF CompleteTx, TypeOK, CallsTyped
    <3>2. TaskRow(Pending, 0) \in TaskRows(ProcessRetries)
      BY VideoAssumption, StatusNames DEF TaskRow, TaskRows
    <3>3. UpdateStatusIf(v, PendingUpload, Uploaded) \in [Videos -> VideoStatus \cup {NotInitiated, Deleted}]
      BY <3>1, UpdatesTyped, VideoStatusNames DEF TypeOK
    <3>4. QED
      BY <1>1, <2>1, <3>1, <3>2, <3>3, AFault
      DEF CompleteTx, TypeOK, VideosTyped, ProcessRowsTyped
  <2>2. CASE CompleteReject(c)
    BY <1>1, <2>2, AFault DEF CompleteReject, TypeOK, VideosTyped, ProcessRowsTyped
  <2>3. CASE UNCHANGED <<status, ptask, faults>>
    BY <1>1, <2>3 DEF TypeOK, VideosTyped, ProcessRowsTyped
  <2>4. QED
    BY <2>1, <2>2, <2>3 DEF CallStep, CompleteFind, CompleteHead, CompleteRange
<1>4. DeleteRowsTyped'
  <2>1. CASE CompleteReject(c) /\ CreateDeletes({<<api[c].video, "rejected">>})
    <3>1. {<<api[c].video, "rejected">>} \in SUBSET (Videos \X {"rejected"})
      BY <2>1 DEF CompleteReject, TypeOK, CallsTyped
    <3>2. QED
      BY <2>1, <3>1, DeletesCreated DEF TypeOK
  <2>2. CASE UNCHANGED dtask
    BY <2>2 DEF TypeOK, DeleteRowsTyped
  <2>3. QED
    BY <2>1, <2>2 DEF CallStep, CompleteFind, CompleteHead, CompleteRange, CompleteReject, CompleteTx
<1>5. QED
  BY <1>1, <1>2, <1>3, <1>4 DEF TypeOK

\* What every step of a run leaves alone.
LEMMA ProcessFrame ==
  ASSUME TypeOK, NEW p \in Procs, ProcessStep(p)
  PROVE  /\ UNCHANGED <<clock, api, del, sweep, purged>>
         /\ CallsTyped' /\ DeletesTyped' /\ sweep' \in Sweeps
  BY DEF TypeOK, ProcessStep, HandlerStep, ProcessStart, ProcessLoad, ProcessClaim, ProcessProbe,
         TranscodeEnds, ProcessJoin, ProcessFinalize, ProcessFail, ProcessCleanup, UploadNext,
         DetachedUploaderEnds, PublishToken, ProcessTimesOut, ProcessLost, CallsTyped, DeletesTyped

\* Only these steps write anything but the run and its row.
LEMMA ProcessVideosType ==
  ASSUME TypeOK, NEW p \in Procs, ProcessStep(p)
  PROVE  VideosTyped' /\ DeleteRowsTyped' /\ faults' \in 0..MaxFaults
<1> DEFINE v == run[p].video
<1>0. UNCHANGED <<clock, purged>> /\ late' \subseteq Videos
  <2>1. CASE UploadNext(p)
    <3>1. v \in Videos
      BY <2>1, RunFields DEF UploadNext, TypeOK, UploaderAt
    <3>2. QED
      BY <2>1, <3>1, ProcessFrame DEF UploadNext, BehindADelete, TypeOK, VideosTyped
  <2>2. CASE UNCHANGED late
    BY <2>2, ProcessFrame DEF TypeOK, VideosTyped
  <2>3. QED
    BY <2>1, <2>2 DEF ProcessStep, HandlerStep, ProcessStart, ProcessLoad, ProcessClaim,
        ProcessProbe, TranscodeEnds, ProcessJoin, ProcessFinalize, ProcessFail, ProcessCleanup,
        DetachedUploaderEnds, PublishToken, ProcessTimesOut, ProcessLost
<1>1. CASE UNCHANGED <<status, token, original, hls, claims, dtask>>
  <2>1. faults' \in 0..MaxFaults
    BY <1>1, AFault
    DEF TypeOK, ProcessStep, HandlerStep, ProcessStart, ProcessLoad, ProcessClaim, ProcessProbe,
        TranscodeEnds, ProcessJoin, ProcessFinalize, ProcessFail, ProcessCleanup, UploadNext,
        DetachedUploaderEnds, PublishToken, ProcessTimesOut, ProcessLost
  <2>2. QED
    BY <1>0, <1>1, <2>1 DEF TypeOK, VideosTyped, DeleteRowsTyped
<1>2. CASE ProcessClaim(p)
  <2>1. v \in Videos
    BY <1>2, RunFields DEF ProcessClaim, TypeOK
  <2>2. UpdateStatusIf(v, Uploaded, Processing) \in [Videos -> VideoStatus \cup {NotInitiated, Deleted}]
    BY <2>1, UpdatesTyped, VideoStatusNames DEF TypeOK
  <2>3. status' \in [Videos -> VideoStatus \cup {NotInitiated, Deleted}] /\ claims' \in [Videos -> Nat]
    BY <1>2, <2>1, <2>2 DEF ProcessClaim, TypeOK, VideosTyped
  <2>4. faults' \in 0..MaxFaults /\ UNCHANGED <<token, original, hls, dtask>>
    BY <1>2, AFault DEF ProcessClaim, TypeOK
  <2>5. QED
    BY <1>0, <2>3, <2>4 DEF TypeOK, VideosTyped, DeleteRowsTyped
<1>3. CASE UploadNext(p)
  <2>1. v \in Videos /\ run[p].up \in Objects
    BY <1>3, RunFields DEF UploadNext, TypeOK, UploaderAt, Objects
  <2>2. hls' \in [Videos -> SUBSET Objects]
    BY <1>3, <2>1 DEF UploadNext, TypeOK, VideosTyped, Objects
  <2>3. QED
    BY <1>0, <1>3, <2>2 DEF UploadNext, TypeOK, VideosTyped, DeleteRowsTyped
<1>4. CASE PublishToken(p)
  <2>1. v \in Videos
    BY <1>4, RunFields DEF PublishToken, TypeOK
  <2>2. token' \in [Videos -> Procs \cup {NoToken}]
    BY <1>4, <2>1, UpdatesTyped DEF PublishToken, TypeOK, VideosTyped
  <2>3. faults' \in 0..MaxFaults /\ UNCHANGED <<status, original, hls, claims, dtask>>
    BY <1>4, AFault DEF PublishToken, TypeOK
  <2>4. QED
    BY <1>0, <2>2, <2>3 DEF TypeOK, VideosTyped, DeleteRowsTyped
<1>5. CASE ProcessFinalize(p)
  <2>1. v \in Videos
    BY <1>5, RunFields DEF ProcessFinalize, TypeOK
  <2>2. /\ token' \in [Videos -> Procs \cup {NoToken}]
        /\ status' \in [Videos -> VideoStatus \cup {NotInitiated, Deleted}]
    <3>1. CASE MarkProcessed(v, p)
      BY <2>1, <3>1, UpdatesTyped, VideoStatusNames DEF MarkProcessed, TypeOK
    <3>2. CASE UNCHANGED <<status, token>>
      BY <3>2 DEF TypeOK, VideosTyped
    <3>3. QED
      BY <1>5, <3>1, <3>2 DEF ProcessFinalize
  <2>3. faults' \in 0..MaxFaults /\ UNCHANGED <<original, hls, claims, dtask>>
    BY <1>5, AFault DEF ProcessFinalize, TypeOK
  <2>4. QED
    BY <1>0, <2>2, <2>3 DEF TypeOK, VideosTyped, DeleteRowsTyped
<1>6. CASE ProcessFail(p)
  <2>1. v \in Videos
    BY <1>6, RunFields DEF ProcessFail, TypeOK
  <2>2. status' \in [Videos -> VideoStatus \cup {NotInitiated, Deleted}]
    BY <1>6, <2>1, UpdatesTyped, VideoStatusNames DEF ProcessFail, TypeOK, VideosTyped
  <2>3. DeleteRowsTyped'
    <3>1. CASE CreateDeletes({<<v, "failed">>})
      <4>1. {<<v, "failed">>} \in SUBSET (Videos \X {"failed"})
        BY <2>1
      <4>2. QED
        BY <3>1, <4>1, DeletesCreated DEF TypeOK
    <3>2. CASE UNCHANGED dtask
      BY <3>2 DEF TypeOK, DeleteRowsTyped
    <3>3. QED
      BY <1>6, <3>1, <3>2 DEF ProcessFail
  <2>4. faults' \in 0..MaxFaults /\ UNCHANGED <<token, original, hls, claims>>
    BY <1>6, AFault DEF ProcessFail, TypeOK
  <2>5. QED
    BY <1>0, <2>2, <2>3, <2>4 DEF TypeOK, VideosTyped
<1>7. CASE ProcessCleanup(p)
  <2>1. v \in Videos
    BY <1>7, RunFields DEF ProcessCleanup, TypeOK
  <2>2. original' \in [Videos -> Files \cup {"absent"}]
    BY <1>7, <2>1 DEF ProcessCleanup, TypeOK, VideosTyped
  <2>3. faults' \in 0..MaxFaults /\ UNCHANGED <<status, token, hls, claims, dtask>>
    BY <1>7, AFault DEF ProcessCleanup, TypeOK
  <2>4. QED
    BY <1>0, <2>2, <2>3 DEF TypeOK, VideosTyped, DeleteRowsTyped
<1>8. QED
  BY <1>1, <1>2, <1>3, <1>4, <1>5, <1>6, <1>7
  DEF ProcessStep, HandlerStep, ProcessStart, ProcessLoad, ProcessProbe, TranscodeEnds,
      ProcessJoin, DetachedUploaderEnds, ProcessTimesOut, ProcessLost

\* The records the steps of a run write.
LEMMA StreamBegun ==
  ASSUME NEW r \in Runs
  PROVE  \E u \in UploaderAt :
           /\ u = IF LowInLadder THEN "segment" ELSE "more"
           /\ [StreamBegins(r, LowInLadder) EXCEPT !.pc = "transcode"]
                = [r EXCEPT !.pc = "transcode", !.up = u, !.pub = "waiting"]
<1>1. PICK u \in UploaderAt : u = IF LowInLadder THEN "segment" ELSE "more"
  BY DEF UploaderAt
<1>2. [StreamBegins(r, LowInLadder) EXCEPT !.pc = "transcode"]
        = [r EXCEPT !.pc = "transcode", !.up = u, !.pub = "waiting"]
  BY <1>1 DEF StreamBegins, Runs
<1>3. QED
  BY <1>1, <1>2

LEMMA RunsWritten ==
  ASSUME NEW r \in Runs
  PROVE  /\ r.up \in UploaderAt => AfterUpload(r) \in Runs /\ AfterUpload(r).video = r.video
         /\ UploaderOver(r) \in Runs /\ UploaderOver(r).video = r.video
         /\ [r EXCEPT !.pub = "ended"] \in Runs
         /\ \A l \in RunStates, u \in UploaderAt, b \in PublisherAt :
              [r EXCEPT !.pc = l, !.up = u, !.pub = b] \in Runs
         /\ \A l \in RunStates : [UploaderOver(r) EXCEPT !.pc = l] \in Runs
                                   /\ [UploaderOver(r) EXCEPT !.pc = l].video = r.video
<1>1. r.up \in UploaderAt => AfterUpload(r) \in Runs /\ AfterUpload(r).video = r.video
  BY DEF AfterUpload, Runs, UploaderAt, PublisherAt
<1>2. UploaderOver(r) \in Runs /\ UploaderOver(r).video = r.video
  BY DEF UploaderOver, Runs
<1>3. QED
  BY <1>1, <1>2 DEF Runs

LEMMA ProcessRunsType ==
  ASSUME TypeOK, NEW p \in Procs, ProcessStep(p)
  PROVE  RunsTyped' /\ ProcessRowsTyped'
<1> DEFINE r == run[p]
<1>0. r \in Runs /\ RunsTyped /\ ProcessRowsTyped
  BY RunFields DEF TypeOK
<1>1. ASSUME NEW v \in Videos, ProcessStart(p, v) PROVE RunsTyped' /\ ProcessRowsTyped'
  <2>1. ptask[v] \in TaskRows(ProcessRetries)
    BY <1>0 DEF ProcessRowsTyped
  <2>2. [ptask[v] EXCEPT !.status = InProgress] \in TaskRows(ProcessRetries)
    BY <2>1, StatusNames DEF TaskRows
  <2>3. ProcessRowsTyped'
    BY <1>0, <1>1, <2>2 DEF ProcessStart, ProcessRowsTyped
  <2>4. [IdleRun EXCEPT !.pc = "load", !.video = v, !.attempt = ptask[v].attempt] \in Runs
    BY <2>1 DEF IdleRun, Runs, RunStates, TaskRows
  <2>5. [IdleRun EXCEPT !.pc = "load", !.video = v, !.attempt = ptask[v].attempt].video = v
    BY DEF IdleRun
  <2>6. RunsTyped'
    BY <1>0, <1>1, <2>4, <2>5 DEF ProcessStart, RunsTyped
  <2>7. QED
    BY <2>3, <2>6
<1>2. ASSUME NEW result \in TaskResult, RunEnds(p, result), r.pc # "idle"
      PROVE  RunsTyped' /\ ProcessRowsTyped'
  BY <1>0, <1>2, RunEnded
<1>3. ASSUME NEW x \in Runs, x.video = r.video, SetRun(p, x), UNCHANGED ptask, r # IdleRun
      PROVE  RunsTyped' /\ ProcessRowsTyped'
  <2>1. x.video \in Videos
    BY <1>0, <1>3 DEF RunsTyped
  <2>2. QED
    BY <1>0, <1>3, <2>1, RunWritten DEF ProcessRowsTyped
<1>4. ASSUME NEW l \in RunStates, RunGoes(p, l), UNCHANGED ptask, r.pc # "idle"
      PROVE  RunsTyped' /\ ProcessRowsTyped'
  BY <1>0, <1>4, RunAdvanced DEF ProcessRowsTyped
<1>5. CASE ProcessProbe(p)
  <2>1. r # IdleRun
    BY <1>0, <1>5, RunFields DEF ProcessProbe
  <2>2. \A u \in UploaderAt : [r EXCEPT !.pc = "transcode", !.up = u, !.pub = "waiting"] \in Runs
    <3>1. "transcode" \in RunStates /\ "waiting" \in PublisherAt
      BY DEF RunStates, PublisherAt
    <3>2. QED
      BY <1>0, <3>1, RunsWritten
  <2>3. \A u \in UploaderAt :
          [r EXCEPT !.pc = "transcode", !.up = u, !.pub = "waiting"].video = r.video
    BY <1>0 DEF Runs
  <2>4. PICK u \in UploaderAt :
          [StreamBegins(r, LowInLadder) EXCEPT !.pc = "transcode"]
            = [r EXCEPT !.pc = "transcode", !.up = u, !.pub = "waiting"]
    BY <1>0, StreamBegun
  <2>5. QED
    BY <1>3, <1>4, <1>5, <2>1, <2>2, <2>3, <2>4 DEF ProcessProbe, RunStates
<1>6. CASE TranscodeEnds(p)
  BY <1>0, <1>3, <1>6, RunFields, RunsWritten DEF TranscodeEnds, RunStates
<1>7. CASE UploadNext(p)
  <2>1. CASE SetRun(p, AfterUpload(r))
    BY <1>0, <1>3, <1>7, <2>1, RunFields, RunsWritten DEF UploadNext, UploaderAt
  <2>2. QED
    BY <1>0, <1>7, <2>1 DEF UploadNext, RunsTyped, ProcessRowsTyped
<1>8. CASE DetachedUploaderEnds(p)
  BY <1>0, <1>3, <1>8, RunFields, RunsWritten DEF DetachedUploaderEnds, UploaderAt
<1>9. CASE PublishToken(p)
  <2>1. [r EXCEPT !.pub = "ended"].video = r.video
    BY <1>0 DEF Runs
  <2>2. QED
    BY <1>0, <1>3, <1>9, <2>1, RunFields, RunsWritten DEF PublishToken
<1>10. CASE ProcessLost(p)
  BY <1>0, <1>10, IdleTypes DEF ProcessLost, RunsTyped, ProcessRowsTyped
<1>11. CASE ProcessLoad(p)
  BY <1>2, <1>4, <1>11 DEF ProcessLoad, TaskResult, RunStates
<1>12. CASE ProcessClaim(p)
  BY <1>2, <1>4, <1>12 DEF ProcessClaim, TaskResult, RunStates
<1>13. CASE ProcessJoin(p)
  <2>1. r.pc # "idle" /\ (IF r.pc = "joinOk" THEN "finalize" ELSE "fail") \in RunStates
    BY <1>13 DEF ProcessJoin, RunStates
  <2>2. QED
    BY <1>4, <1>13, <2>1 DEF ProcessJoin
<1>14. CASE ProcessFinalize(p)
  BY <1>2, <1>4, <1>14 DEF ProcessFinalize, TaskResult, RunStates
<1>15. CASE ProcessFail(p) \/ ProcessCleanup(p) \/ ProcessTimesOut(p)
  BY <1>2, <1>15 DEF ProcessFail, ProcessCleanup, ProcessTimesOut, TaskResult
<1>16. QED
  BY <1>1, <1>5, <1>6, <1>7, <1>8, <1>9, <1>10, <1>11, <1>12, <1>13, <1>14, <1>15, ProcessStep(p)
  DEF ProcessStep, HandlerStep

LEMMA ProcessType ==
  ASSUME TypeOK, NEW p \in Procs, ProcessStep(p)
  PROVE  TypeOK'
  BY ProcessFrame, ProcessVideosType, ProcessRunsType DEF TypeOK

LEMMA ProcessResetType ==
  ASSUME TypeOK, NEW v \in Videos, ProcessReset(v) \/ ProcessRevive(v)
  PROVE  TypeOK'
<1>1. ptask[v] \in TaskRows(ProcessRetries)
  BY DEF TypeOK, ProcessRowsTyped
<1>2. \A st \in {Pending, InProgress} : [ptask[v] EXCEPT !.status = st] \in TaskRows(ProcessRetries)
  BY <1>1, StatusNames DEF TaskRows
<1>3. ProcessRowsTyped'
  BY <1>2 DEF ProcessReset, ProcessRevive, TypeOK, ProcessRowsTyped
<1>4. faults' \in 0..MaxFaults
  BY AFault DEF ProcessReset, ProcessRevive, TypeOK
<1>5. QED
  BY <1>3, <1>4 DEF ProcessReset, ProcessRevive, TypeOK, VideosTyped, DeleteRowsTyped, CallsTyped,
                    RunsTyped, DeletesTyped

LEMMA DeleteType ==
  ASSUME TypeOK, NEW d \in Deleters,
         DeleteStep(d) \/ DeleteLost(d) \/ \E i \in DeleteTasks : DeleteStart(d, i)
  PROVE  TypeOK'
<1>1. /\ UNCHANGED <<clock, ptask, api, run, sweep, claims>>
      /\ ProcessRowsTyped' /\ CallsTyped' /\ RunsTyped' /\ sweep' \in Sweeps
  BY DEF TypeOK, DeleteStep, DeleteStart, DeleteFind, DeletePrefix, DeleteObject, DeleteRow,
         DeleteLost, ProcessRowsTyped, CallsTyped, RunsTyped
<1>2. VideosTyped' /\ faults' \in 0..MaxFaults
  <2>1. faults' \in 0..MaxFaults
    BY AFault
    DEF TypeOK, DeleteStep, DeleteStart, DeleteFind, DeletePrefix, DeleteObject, DeleteRow, DeleteLost
  <2>2. CASE DeletePrefix(d)
    BY <1>1, <2>1, <2>2 DEF DeletePrefix, TypeOK, VideosTyped, DeletesTyped
  <2>3. CASE DeleteObject(d)
    BY <1>1, <2>1, <2>3 DEF DeleteObject, TypeOK, VideosTyped, DeletesTyped
  <2>4. CASE DeleteRow(d)
    BY <1>1, <2>1, <2>4 DEF DeleteRow, TypeOK, VideosTyped, DeletesTyped
  <2>5. CASE UNCHANGED <<status, token, original, hls, purged, late>>
    BY <1>1, <2>1, <2>5 DEF TypeOK, VideosTyped
  <2>6. QED
    BY <2>1, <2>2, <2>3, <2>4, <2>5 DEF DeleteStep, DeleteStart, DeleteFind, DeleteLost
<1>3. DeleteRowsTyped' /\ DeletesTyped'
  <2>1. ASSUME NEW i \in DeleteTasks, DeleteStart(d, i) PROVE DeleteRowsTyped' /\ DeletesTyped'
    <3>1. /\ dtask[i] \in [row : TaskRows(DeleteRetries), video : Videos \cup {NoVideo}]
          /\ dtask[i].row \in TaskRows(DeleteRetries) /\ dtask[i].row.attempt \in 0..DeleteRetries
          /\ dtask[i].video \in Videos
      BY <2>1, StatusNames DEF DeleteStart, TypeOK, DeleteRowsTyped, TaskRows
    <3>2. [dtask[i] EXCEPT !.row.status = InProgress]
            \in [row : TaskRows(DeleteRetries), video : Videos \cup {NoVideo}]
      BY <3>1, StatusNames DEF TaskRows
    <3>3. [dtask[i] EXCEPT !.row.status = InProgress].video = dtask[i].video
      BY <3>1
    <3>4. dtask' = [dtask EXCEPT ![i] = [dtask[i] EXCEPT !.row.status = InProgress]]
      BY <2>1 DEF DeleteStart, TypeOK, DeleteRowsTyped
    <3>5. DeleteRowsTyped'
      BY <3>1, <3>2, <3>3, <3>4 DEF TypeOK, DeleteRowsTyped
    <3>6. DeletesTyped'
      BY <2>1, <3>1 DEF DeleteStart, TypeOK, DeletesTyped, Deletes
    <3>7. QED
      BY <3>5, <3>6
  <2>2. ASSUME NEW result \in TaskResult, DeleteEnds(d, result), del[d].pc # "idle"
        PROVE  DeleteRowsTyped' /\ DeletesTyped'
    BY <2>2, DeleteEnded DEF TypeOK
  <2>3. ASSUME NEW l \in {"prefix", "object", "row"}, DeleteGoes(d, l), UNCHANGED dtask,
               del[d].pc # "idle"
        PROVE  DeleteRowsTyped' /\ DeletesTyped'
    BY <2>3, DeleteAdvanced DEF TypeOK, DeleteRowsTyped
  <2>4. CASE DeleteStep(d)
    BY <2>2, <2>3, <2>4 DEF DeleteStep, DeleteFind, DeletePrefix, DeleteObject, DeleteRow, TaskResult
  <2>5. CASE DeleteLost(d)
    <3>1. CASE del' = [del EXCEPT ![d] = IdleDel] /\ UNCHANGED dtask
      BY <3>1, IdleTypes DEF TypeOK, DeletesTyped, DeleteRowsTyped, IdleDel
    <3>2. CASE DeleteEnds(d, "RetryableFailure")
      BY <2>2, <2>5, <3>2 DEF DeleteLost, TaskResult
    <3>3. QED
      BY <2>5, <3>1, <3>2 DEF DeleteLost
  <2>6. QED
    BY <2>1, <2>4, <2>5
<1>4. QED
  BY <1>1, <1>2, <1>3 DEF TypeOK

LEMMA DeleteResetType ==
  ASSUME TypeOK, NEW i \in DeleteTasks, DeleteReset(i)
  PROVE  TypeOK'
<1>1. /\ dtask[i] \in [row : TaskRows(DeleteRetries), video : Videos \cup {NoVideo}]
      /\ dtask[i].video \in Videos
  BY StatusNames DEF DeleteReset, TypeOK, DeleteRowsTyped
<1>2. [dtask[i] EXCEPT !.row.status = Pending]
        \in [row : TaskRows(DeleteRetries), video : Videos \cup {NoVideo}]
  BY <1>1, StatusNames DEF TaskRows
<1>3. dtask' = [dtask EXCEPT ![i] = [dtask[i] EXCEPT !.row.status = Pending]]
  BY DEF DeleteReset, TypeOK, DeleteRowsTyped
<1>4. DeleteRowsTyped'
  BY <1>1, <1>2, <1>3 DEF TypeOK, DeleteRowsTyped
<1>5. faults' \in 0..MaxFaults
  BY AFault DEF DeleteReset, TypeOK
<1>6. QED
  BY <1>4, <1>5 DEF DeleteReset, TypeOK, VideosTyped, ProcessRowsTyped, CallsTyped, RunsTyped,
                    DeletesTyped

LEMMA DeleteReviveType ==
  ASSUME TypeOK, NEW i \in DeleteTasks, DeleteRevive(i)
  PROVE  TypeOK'
<1>1. PICK att \in 0..DeleteRetries : dtask' = [dtask EXCEPT ![i].row = TaskRow(InProgress, att)]
  BY DEF DeleteRevive
<1>2. /\ dtask[i] \in [row : TaskRows(DeleteRetries), video : Videos \cup {NoVideo}]
      /\ dtask[i].video \in Videos
  BY DEF DeleteRevive, TypeOK, DeleteRowsTyped
<1>3. TaskRow(InProgress, att) \in TaskRows(DeleteRetries)
  BY StatusNames DEF TaskRow, TaskRows
<1>4. /\ [dtask[i] EXCEPT !.row = TaskRow(InProgress, att)]
           \in [row : TaskRows(DeleteRetries), video : Videos \cup {NoVideo}]
      /\ [dtask[i] EXCEPT !.row = TaskRow(InProgress, att)].video \in Videos
  BY <1>2, <1>3
<1>5. DeleteRowsTyped'
  BY <1>1, <1>4 DEF TypeOK, DeleteRowsTyped
<1>6. faults' \in 0..MaxFaults
  BY AFault DEF DeleteRevive, TypeOK
<1>7. QED
  BY <1>5, <1>6 DEF DeleteRevive, TypeOK, VideosTyped, ProcessRowsTyped, CallsTyped, RunsTyped,
                    DeletesTyped

LEMMA SweepType ==
  ASSUME TypeOK, SweepStep \/ SweepLost
  PROVE  TypeOK'
<1>1. /\ UNCHANGED <<token, clock, ptask, original, hls, api, run, del, claims, purged, late>>
      /\ ProcessRowsTyped' /\ CallsTyped' /\ RunsTyped' /\ DeletesTyped'
  BY DEF TypeOK, SweepStep, SweepFindStale, SweepFindFailed, SweepMark, SweepCreate, SweepLost,
         ProcessRowsTyped, CallsTyped, RunsTyped, DeletesTyped
<1>2. FindStale \in Reads /\ FindFailedBefore \in Reads
  BY DEF FindStale, FindFailedBefore, Reads, StaleStatuses, VideoStatus
<1>3. sweep' \in Sweeps
  <2>1. CASE SweepFindStale
    BY <1>2, <2>1 DEF SweepFindStale, Sweeps, Reads
  <2>2. CASE SweepFindFailed
    BY <1>2, <2>2 DEF SweepFindFailed, TypeOK, Sweeps
  <2>3. CASE SweepMark
    BY <2>3 DEF SweepMark, TypeOK, Sweeps
  <2>4. CASE SweepCreate \/ SweepLost
    BY <2>4, IdleTypes DEF SweepCreate, SweepLost
  <2>5. QED
    BY <2>1, <2>2, <2>3, <2>4 DEF SweepStep
<1>4. VideosTyped'
  <2>1. CASE SweepMark
    BY <1>1, <2>1 DEF SweepMark, BulkMarkFailed, TypeOK, VideosTyped, VideoStatus
  <2>2. CASE UNCHANGED status
    BY <1>1, <2>2 DEF TypeOK, VideosTyped
  <2>3. QED
    BY <2>1, <2>2 DEF SweepStep, SweepFindStale, SweepFindFailed, SweepCreate, SweepLost
<1>5. DeleteRowsTyped' /\ faults' \in 0..MaxFaults
  <2>1. CASE SweepCreate
    <3>1. sweep.stale \cup sweep.failed \in SUBSET (Videos \X VideoStatus)
      BY DEF TypeOK, Sweeps, Reads
    <3>2. QED
      BY <2>1, <3>1, DeletesCreated DEF SweepCreate, TypeOK
  <2>2. CASE ~SweepCreate
    BY <2>2, AFault DEF TypeOK, DeleteRowsTyped, SweepStep, SweepFindStale, SweepFindFailed,
                        SweepMark, SweepLost
  <2>3. QED
    BY <2>1, <2>2
<1>6. QED
  BY <1>1, <1>3, <1>4, <1>5 DEF TypeOK

LEMMA NextType == TypeOK /\ [Next]_vars => TypeOK'
  BY StutterType, ClientType, CallType, ProcessType, ProcessResetType, DeleteType,
     DeleteResetType, DeleteReviveType, SweepType
  DEF Next

\* In every state each variable has its type: statuses and rows stay within
\* their sets, retry counters within the budgets, and whatever runs or is
\* scheduled is about a video there is.
THEOREM TypeCorrect == Spec => []TypeOK
<1>1. Init => TypeOK
  BY InitType
<1>2. TypeOK /\ [Next]_vars => TypeOK'
  BY NextType
<1>3. QED
  BY <1>1, <1>2, PTL DEF Spec
----------------------------------------------------------------------------
(* The claim                                                                *)

\* Every step but the three that move a video up to PROCESSING: claims stay,
\* statuses only reach an end, rows are kept, a token is written only by the
\* claimed run, and no run comes to have claimed anything.
LEMMA ClaimKept ==
  ASSUME TypeOK, TypeOK', VideoInv, UNCHANGED claims,
         \A v \in Videos : status'[v] = status[v] \/ status'[v] \in {Processed, Failed, Deleted},
         \A v \in Videos : \/ ptask'[v].status = ptask[v].status
                           \/ ptask'[v].status # NoRow /\ ptask[v].status # NoRow,
         \A v \in Videos : status'[v] = Uploaded =>
                             ptask'[v].status \in {Pending, InProgress, DeadLetter},
         \A v \in Videos : \/ token'[v] \in {token[v], NoToken}
                           \/ \E p \in Procs : Claimed(run[p]) /\ v = run[p].video /\ token'[v] = p,
         \A p \in Procs : \/ run'[p] = run[p]
                          \/ run'[p] = IdleRun
                          \/ /\ run'[p].video \in Videos
                             /\ ptask'[run'[p].video].status # NoRow
                             /\ run'[p].pub # "none" => run'[p].up # "none"
                             /\ Claimed(run'[p]) => Claimed(run[p]) /\ run'[p].video = run[p].video,
         \A d \in Deleters : del'[d].pc \in {"prefix", "object", "row"} =>
                               status'[del'[d].video] # NotInitiated
  PROVE  VideoInv'
<1> USE DEF VideoInv
<1>1. ~Claimed(IdleRun) /\ IdleRun.pub = "none"
  BY DEF Claimed, IdleRun, RunStates
<1>2. \A p \in Procs : Claimed(run[p]) => run[p] # IdleRun /\ run[p].video \in Videos
  BY <1>1 DEF TypeOK, RunsTyped
<1>3. \A p \in Procs : Claimed(run'[p]) => Claimed(run[p]) /\ run'[p].video = run[p].video
  BY <1>1
<1>4. ClaimsCounted'
  <2> SUFFICES ASSUME NEW v \in Videos
               PROVE  /\ claims'[v] <= 1
                      /\ status'[v] \in {NotInitiated, PendingUpload, Uploaded} => claims'[v] = 0
                      /\ status'[v] \in {NotInitiated, PendingUpload} => ptask'[v].status = NoRow
                      /\ token'[v] # NoToken => claims'[v] = 1
    BY DEF ClaimsCounted
  <2>1. status'[v] \in {NotInitiated, PendingUpload, Uploaded} => status'[v] = status[v]
    BY VideoStatusNames DEF VideoStatus
  <2>2. token'[v] # NoToken => claims[v] = 1
    BY <1>2 DEF ClaimsCounted, RunsClaimed
  <2>3. QED
    BY <2>1, <2>2 DEF ClaimsCounted
<1>5. RunsClaimed'
  <2> SUFFICES ASSUME NEW p \in Procs
               PROVE  /\ run'[p] # IdleRun => ptask'[run'[p].video].status # NoRow
                      /\ run'[p].pub # "none" => run'[p].up # "none"
                      /\ Claimed(run'[p]) => /\ claims'[run'[p].video] = 1
                                             /\ token'[run'[p].video] \in {NoToken, p}
    BY DEF RunsClaimed, Claimed
  <2>1. run'[p] # IdleRun => ptask'[run'[p].video].status # NoRow
    <3>1. CASE run'[p] = run[p] /\ run'[p] # IdleRun
      BY <3>1 DEF RunsClaimed, TypeOK, RunsTyped
    <3>2. QED
      BY <3>1
  <2>2. run'[p].pub # "none" => run'[p].up # "none"
    BY <1>1 DEF RunsClaimed
  <2>3. Claimed(run'[p]) => claims'[run'[p].video] = 1 /\ token'[run'[p].video] \in {NoToken, p}
    <3> SUFFICES ASSUME Claimed(run'[p]) PROVE claims[run[p].video] = 1 /\ token'[run[p].video] \in {NoToken, p}
      BY <1>3
    <3>1. Claimed(run[p]) /\ run[p].video \in Videos
      BY <1>2, <1>3
    <3>2. claims[run[p].video] = 1 /\ token[run[p].video] \in {NoToken, p}
      BY <3>1 DEF RunsClaimed
    <3>3. QED
      BY <3>1, <3>2 DEF OneRunPerClaim
  <2>4. QED
    BY <2>1, <2>2, <2>3
<1>6. OneRunPerClaim'
  BY <1>3 DEF OneRunPerClaim, Claimed
<1>7. QED
  BY <1>4, <1>5, <1>6 DEF DeletesFound, UploadedIsQueued
LEMMA InitClaim == Init => VideoInv
  BY VideoStatusNames
  DEF Init, VideoInv, ClaimsCounted, RunsClaimed, OneRunPerClaim, DeletesFound, UploadedIsQueued,
      Claimed, IdleRun, IdleDel, RunStates, TaskRow

LEMMA ClientClaim ==
  ASSUME TypeOK, TypeOK', VideoInv, NEW v \in Videos, Initiate(v) \/ ClientUpload(v) \/ Age(v)
  PROVE  VideoInv'
<1>1. CASE Initiate(v)
  <2>1. /\ UNCHANGED <<token, ptask, run, del, claims>>
        /\ status' = [status EXCEPT ![v] = PendingUpload] /\ status[v] = NotInitiated
    BY <1>1 DEF Initiate
  <2>2. status'[v] = PendingUpload /\ \A w \in Videos : w # v => status'[w] = status[w]
    BY <2>1 DEF TypeOK, VideosTyped
  <2>3. ClaimsCounted' /\ UploadedIsQueued'
    BY <2>1, <2>2, VideoStatusNames DEF VideoInv, ClaimsCounted, UploadedIsQueued
  <2>4. DeletesFound'
    BY <2>1, <2>2, VideoStatusNames DEF VideoInv, DeletesFound, TypeOK, DeletesTyped
  <2>5. RunsClaimed' /\ OneRunPerClaim'
    BY <2>1 DEF VideoInv, RunsClaimed, OneRunPerClaim, Claimed
  <2>6. QED
    BY <2>3, <2>4, <2>5 DEF VideoInv
<1>2. CASE ClientUpload(v) \/ Age(v)
  BY <1>2 DEF ClientUpload, Age, VideoInv, ClaimsCounted, RunsClaimed, OneRunPerClaim, DeletesFound,
              UploadedIsQueued, Claimed
<1>3. QED
  BY <1>1, <1>2

LEMMA CallClaim ==
  ASSUME TypeOK, TypeOK', VideoInv, NEW c \in Callers, CallStep(c)
  PROVE  VideoInv'
<1>1. UNCHANGED <<token, run, del, claims>>
  BY DEF CallStep, CompleteFind, CompleteHead, CompleteRange, CompleteReject, CompleteTx
<1>2. CASE UNCHANGED <<status, ptask>>
  BY <1>1, <1>2 DEF VideoInv, ClaimsCounted, RunsClaimed, OneRunPerClaim, DeletesFound,
                    UploadedIsQueued, Claimed
<1>3. CASE CompleteTx(c) /\ status[api[c].video] = PendingUpload /\ ~UNCHANGED <<status, ptask>>
  <2> DEFINE v == api[c].video
  <2>1. v \in Videos
    BY <1>3 DEF CompleteTx, TypeOK, CallsTyped
  <2>2. /\ status' = [status EXCEPT ![v] = Uploaded]
        /\ ptask' = [ptask EXCEPT ![v] = TaskRow(Pending, 0)]
    BY <1>3 DEF CompleteTx, UpdateStatusIf
  <2>3. /\ status'[v] = Uploaded /\ \A w \in Videos : w # v => status'[w] = status[w]
        /\ ptask'[v].status = Pending /\ \A w \in Videos : w # v => ptask'[w] = ptask[w]
    BY <2>1, <2>2 DEF TypeOK, VideosTyped, ProcessRowsTyped, TaskRow
  <2> HIDE DEF v
  <2>4. ClaimsCounted' /\ UploadedIsQueued'
    BY <1>1, <1>3, <2>3, VideoStatusNames DEF VideoInv, ClaimsCounted, UploadedIsQueued, v
  <2>5. RunsClaimed'
    BY <1>1, <2>3, StatusNames DEF VideoInv, RunsClaimed, TypeOK, RunsTyped, Claimed
  <2>6. OneRunPerClaim'
    BY <1>1 DEF VideoInv, OneRunPerClaim, Claimed
  <2>7. DeletesFound'
    BY <1>1, <2>3, VideoStatusNames DEF VideoInv, DeletesFound, TypeOK, DeletesTyped
  <2>8. QED
    BY <2>4, <2>5, <2>6, <2>7 DEF VideoInv
<1>4. QED
  BY <1>2, <1>3 DEF CallStep, CompleteFind, CompleteHead, CompleteRange, CompleteReject, CompleteTx,
                    UpdateStatusIf

LEMMA ProcessResetClaim ==
  ASSUME TypeOK, TypeOK', VideoInv, NEW v \in Videos, ProcessReset(v) \/ ProcessRevive(v)
  PROVE  VideoInv'
<1>1. /\ ptask[v].status # NoRow /\ ptask'[v].status \in {Pending, InProgress}
      /\ \A w \in Videos : w # v => ptask'[w] = ptask[w]
      /\ UNCHANGED <<status, token, run, del, claims>>
  BY StatusNames DEF ProcessReset, ProcessRevive, Terminal, TypeOK, ProcessRowsTyped, TaskRows
<1>2. QED
  BY <1>1, ClaimKept, StatusNames DEF VideoInv, UploadedIsQueued, DeletesFound

LEMMA DeleteClaim ==
  ASSUME TypeOK, TypeOK', VideoInv, NEW d \in Deleters,
         DeleteStep(d) \/ DeleteLost(d) \/ \E i \in DeleteTasks : DeleteStart(d, i)
  PROVE  VideoInv'
<1>1. UNCHANGED <<ptask, run, claims>>
  BY DEF DeleteStep, DeleteStart, DeleteFind, DeletePrefix, DeleteObject, DeleteRow, DeleteLost
<1>2. /\ \A v \in Videos : status'[v] \in {status[v], Deleted}
      /\ \A v \in Videos : token'[v] \in {token[v], NoToken}
  <2>1. CASE DeleteRow(d)
    BY <2>1 DEF DeleteRow, TypeOK, VideosTyped
  <2>2. CASE UNCHANGED <<status, token>>
    BY <2>2
  <2>3. QED
    BY <2>1, <2>2 DEF DeleteStep, DeleteStart, DeleteFind, DeletePrefix, DeleteObject, DeleteLost
<1>3. /\ \A e \in Deleters : e # d => del'[e] = del[e]
      /\ \/ del'[d].pc \in {"idle", "find"}
         \/ del'[d].video = del[d].video /\ (HasRow(del[d].video) \/ del[d].pc \in {"prefix", "object"})
  <2>1. CASE \E result \in TaskResult : DeleteEnds(d, result)
    BY <2>1 DEF DeleteEnds, TypeOK, DeletesTyped, IdleDel
  <2>2. ASSUME NEW l \in {"prefix", "object", "row"}, DeleteGoes(d, l)
        PROVE  del'[d].video = del[d].video /\ \A e \in Deleters : e # d => del'[e] = del[e]
    BY <2>2 DEF DeleteGoes, TypeOK, DeletesTyped, Deletes
  <2>3. CASE \E i \in DeleteTasks : DeleteStart(d, i)
    BY <2>3 DEF DeleteStart, TypeOK, DeletesTyped
  <2>4. CASE del' = [del EXCEPT ![d] = IdleDel]
    BY <2>4 DEF TypeOK, DeletesTyped, IdleDel
  <2>5. QED
    BY <2>1, <2>2, <2>3, <2>4
    DEF DeleteStep, DeleteFind, DeletePrefix, DeleteObject, DeleteRow, DeleteLost, TaskResult
<1>4. DeletesFound'
  <2> SUFFICES ASSUME NEW e \in Deleters, del'[e].pc \in {"prefix", "object", "row"}
               PROVE  status'[del'[e].video] # NotInitiated
    BY DEF DeletesFound
  <2>1. del'[e].video \in Videos
    BY DEF TypeOK, DeletesTyped
  <2>2. del'[e].video = del[e].video /\ status[del[e].video] # NotInitiated
    BY <1>3, VideoStatusNames DEF VideoInv, DeletesFound, HasRow
  <2>3. QED
    BY <1>2, <2>1, <2>2, VideoStatusNames
<1>5. QED
  BY <1>1, <1>2, <1>4, ClaimKept, VideoStatusNames DEF VideoInv, UploadedIsQueued, DeletesFound

LEMMA DeleteResetClaim ==
  ASSUME VideoInv, NEW i \in DeleteTasks, DeleteReset(i) \/ DeleteRevive(i)
  PROVE  VideoInv'
  BY DEF DeleteReset, DeleteRevive, VideoInv, ClaimsCounted, RunsClaimed, OneRunPerClaim,
         DeletesFound, UploadedIsQueued, Claimed

LEMMA SweepClaim ==
  ASSUME TypeOK, TypeOK', VideoInv, SweepStep \/ SweepLost
  PROVE  VideoInv'
<1>1. UNCHANGED <<token, ptask, run, del, claims>>
  BY DEF SweepStep, SweepFindStale, SweepFindFailed, SweepMark, SweepCreate, SweepLost
<1>2. \A v \in Videos : status'[v] \in {status[v], Failed}
  <2>1. CASE SweepMark
    BY <2>1 DEF SweepMark, BulkMarkFailed
  <2>2. CASE UNCHANGED status
    BY <2>2
  <2>3. QED
    BY <2>1, <2>2 DEF SweepStep, SweepFindStale, SweepFindFailed, SweepCreate, SweepLost
<1>3. DeletesFound'
  <2>1. \A d \in Deleters : del[d].pc \in {"prefix", "object", "row"} => del[d].video \in Videos
    BY DEF TypeOK, DeletesTyped
  <2>2. QED
    BY <1>1, <1>2, <2>1, VideoStatusNames DEF VideoInv, DeletesFound
<1>4. QED
  BY <1>1, <1>2, <1>3, ClaimKept, VideoStatusNames DEF VideoInv, UploadedIsQueued, DeletesFound

\* Every step of a run but its start and its claim: the run is written or ends
\* with its place in the story of its video unchanged.
LEMMA RunKeepsClaim ==
  ASSUME TypeOK, TypeOK', VideoInv, NEW p \in Procs, run[p] # IdleRun, UNCHANGED <<claims, del>>,
         \A v \in Videos : status'[v] = status[v] \/ status'[v] \in {Processed, Failed},
         \A v \in Videos : \/ token'[v] = token[v]
                           \/ Claimed(run[p]) /\ v = run[p].video /\ token'[v] = p,
         \/ /\ UNCHANGED ptask
            /\ \E r \in Runs : /\ r.video = run[p].video
                               /\ r.pub # "none" => r.up # "none"
                               /\ Claimed(r) => Claimed(run[p])
                               /\ SetRun(p, r)
         \/ \E result \in TaskResult :
              /\ run[p].pc # "idle"
              /\ RunEnds(p, result)
              /\ result = "RetryableFailure" \/ status[run[p].video] # Uploaded
  PROVE  VideoInv'
<1> DEFINE v == run[p].video
<1>1. v \in Videos /\ ptask[v].status # NoRow /\ run[p] \in Runs
  BY DEF TypeOK, RunsTyped, VideoInv, RunsClaimed
<1>2. \A w \in Videos : \/ ptask'[w].status = ptask[w].status
                        \/ ptask'[w].status # NoRow /\ ptask[w].status # NoRow
  <2>1. CASE UNCHANGED ptask
    BY <2>1
  <2>2. ASSUME NEW result \in TaskResult, run[p].pc # "idle", RunEnds(p, result)
        PROVE  \A w \in Videos : \/ ptask'[w].status = ptask[w].status
                                 \/ ptask'[w].status # NoRow /\ ptask[w].status # NoRow
    BY <1>1, <2>2, RunEnded, StatusNames DEF TypeOK
  <2>3. QED
    BY <2>1, <2>2
<1>3. \A w \in Videos : status'[w] = Uploaded => ptask'[w].status \in {Pending, InProgress, DeadLetter}
  <2> SUFFICES ASSUME NEW w \in Videos, status'[w] = Uploaded
               PROVE  ptask'[w].status \in {Pending, InProgress, DeadLetter}
    OBVIOUS
  <2>1. status[w] = Uploaded /\ ptask[w].status \in {Pending, InProgress, DeadLetter}
    BY VideoStatusNames DEF VideoInv, UploadedIsQueued
  <2>2. ASSUME NEW result \in TaskResult, run[p].pc # "idle", RunEnds(p, result),
               result = "RetryableFailure" \/ status[v] # Uploaded
        PROVE  ptask'[w].status \in {Pending, InProgress, DeadLetter}
    BY <2>1, <2>2, RunEnded DEF TypeOK
  <2>3. QED
    BY <2>1, <2>2
<1>4. \A q \in Procs :
        \/ run'[q] = run[q]
        \/ run'[q] = IdleRun
        \/ /\ run'[q].video \in Videos
           /\ ptask'[run'[q].video].status # NoRow
           /\ run'[q].pub # "none" => run'[q].up # "none"
           /\ Claimed(run'[q]) => Claimed(run[q]) /\ run'[q].video = run[q].video
  <2>1. ptask'[v].status # NoRow
    BY <1>1, <1>2
  <2>2. ASSUME NEW r \in Runs, r.video = v, r.pub # "none" => r.up # "none",
               Claimed(r) => Claimed(run[p]), SetRun(p, r)
        PROVE  /\ \A q \in Procs : q # p => run'[q] = run[q]
               /\ run'[p] \in {r, IdleRun}
    BY <1>1, <2>2, RunWritten DEF TypeOK
  <2>3. ASSUME NEW result \in TaskResult, run[p].pc # "idle", RunEnds(p, result)
        PROVE  /\ \A q \in Procs : q # p => run'[q] = run[q]
               /\ run'[p] \in {[run[p] EXCEPT !.pc = "idle"], IdleRun}
    BY <2>3, RunEnded DEF TypeOK
  <2>4. /\ [run[p] EXCEPT !.pc = "idle"].video = v
        /\ [run[p] EXCEPT !.pc = "idle"].pub = run[p].pub
        /\ [run[p] EXCEPT !.pc = "idle"].up = run[p].up
        /\ Claimed([run[p] EXCEPT !.pc = "idle"]) => Claimed(run[p])
    BY <1>1 DEF Runs, Claimed
  <2>5. run[p].pub # "none" => run[p].up # "none"
    BY DEF VideoInv, RunsClaimed
  <2> HIDE DEF v
  <2>6. QED
    BY <1>1, <2>1, <2>2, <2>3, <2>4, <2>5 DEF v
<1>5. \A d \in Deleters : del'[d].pc \in {"prefix", "object", "row"} => status'[del'[d].video] # NotInitiated
  <2>1. \A d \in Deleters : del[d].pc \in {"prefix", "object", "row"} => del[d].video \in Videos
    BY DEF TypeOK, DeletesTyped
  <2>2. QED
    BY <2>1, VideoStatusNames DEF VideoInv, DeletesFound
<1>6. \A w \in Videos : \/ token'[w] \in {token[w], NoToken}
                        \/ \E q \in Procs : Claimed(run[q]) /\ w = run[q].video /\ token'[w] = q
  OBVIOUS
<1>7. QED
  BY <1>2, <1>3, <1>4, <1>5, <1>6, ClaimKept

LEMMA StartClaim ==
  ASSUME TypeOK, TypeOK', VideoInv, NEW p \in Procs, NEW v \in Videos, ProcessStart(p, v)
  PROVE  VideoInv'
<1>1. UNCHANGED <<status, token, del, claims>>
  BY DEF ProcessStart
<1>2. /\ ptask[v].status = Pending /\ ptask'[v].status = InProgress
      /\ \A w \in Videos : w # v => ptask'[w] = ptask[w]
  BY DEF ProcessStart, TypeOK, ProcessRowsTyped, TaskRows
<1>3. /\ \A q \in Procs : q # p => run'[q] = run[q]
      /\ run'[p].video = v /\ run'[p].pc = "load" /\ run'[p].up = "none" /\ run'[p].pub = "none"
  BY DEF ProcessStart, TypeOK, RunsTyped, IdleRun
<1>4. ~Claimed(run'[p])
  BY <1>3 DEF Claimed, RunStates
<1>5. QED
  BY <1>1, <1>2, <1>3, <1>4, ClaimKept, StatusNames DEF VideoInv, UploadedIsQueued, DeletesFound

LEMMA ClaimClaim ==
  ASSUME TypeOK, TypeOK', VideoInv, NEW p \in Procs, ProcessClaim(p)
  PROVE  VideoInv'
<1> DEFINE v == run[p].video
<1>0. v \in Videos /\ run[p] \in Runs /\ run[p] # IdleRun /\ run[p].pc = "claim"
  BY RunFields DEF ProcessClaim, TypeOK
<1>1. UNCHANGED <<token, del>>
  BY DEF ProcessClaim
<1>2. CASE status' # status
  <2>1. status[v] = Uploaded /\ status' = [status EXCEPT ![v] = Processing]
    BY <1>2 DEF ProcessClaim, UpdateStatusIf
  <2>2. status'[v] = Processing /\ \A w \in Videos : w # v => status'[w] = status[w]
    BY <1>0, <2>1 DEF TypeOK, VideosTyped
  <2>3. claims[v] = 0 /\ token[v] = NoToken
    BY <1>0, <2>1 DEF VideoInv, ClaimsCounted
  <2>4. claims' = [claims EXCEPT ![v] = @ + 1]
    BY <1>2, <2>1 DEF ProcessClaim
  <2>5. claims'[v] = 1 /\ \A w \in Videos : w # v => claims'[w] = claims[w]
    BY <1>0, <2>3, <2>4 DEF TypeOK, VideosTyped
  <2>6. /\ ptask'[v].status # NoRow
        /\ \A w \in Videos : w # v => ptask'[w] = ptask[w]
        /\ \A q \in Procs : q # p => run'[q] = run[q]
        /\ run'[p] # IdleRun => run'[p].video = v /\ run'[p].up = run[p].up /\ run'[p].pub = run[p].pub
    <3>1. ptask[v].status # NoRow
      BY <1>0 DEF VideoInv, RunsClaimed
    <3>2. CASE RunGoes(p, "probe") /\ UNCHANGED ptask
      <4>1. "probe" \in RunStates /\ run[p].pc # "idle"
        BY <1>0 DEF RunStates
      <4>2. /\ \A q \in Procs : q # p => run'[q] = run[q]
            /\ run'[p] \in {[run[p] EXCEPT !.pc = "probe"], IdleRun}
        BY <3>2, <4>1, RunAdvanced DEF TypeOK
      <4>3. QED
        BY <1>0, <3>1, <3>2, <4>2 DEF Runs
    <3>3. CASE RunEnds(p, "RetryableFailure")
      <4>1. "RetryableFailure" \in TaskResult /\ run[p].pc # "idle"
        BY <1>0 DEF TaskResult
      <4>2. /\ run'[p] \in {[run[p] EXCEPT !.pc = "idle"], IdleRun}
            /\ \A q \in Procs : q # p => run'[q] = run[q]
            /\ \A w \in Videos : w # v => ptask'[w] = ptask[w]
            /\ ptask'[v].status \in {Pending, Completed, DeadLetter}
        BY <3>3, <4>1, RunEnded DEF TypeOK
      <4>3. QED
        BY <1>0, <4>2, StatusNames DEF Runs
    <3>4. QED
      BY <1>2, <3>2, <3>3 DEF ProcessClaim
  <2> HIDE DEF v
  <2>7. ClaimsCounted' /\ UploadedIsQueued'
    BY <1>1, <2>2, <2>3, <2>5, <2>6, VideoStatusNames
    DEF VideoInv, ClaimsCounted, UploadedIsQueued
  <2>8. \A q \in Procs : Claimed(run[q]) => run[q].video # v /\ run[q].video \in Videos
    BY <2>3 DEF VideoInv, RunsClaimed, TypeOK, RunsTyped, Claimed, IdleRun
  <2>9. \A q \in Procs : q # p /\ Claimed(run'[q]) => Claimed(run[q]) /\ run'[q].video = run[q].video
    BY <2>6
  <2>10. Claimed(run'[p]) => run'[p].video = v
    BY <2>6 DEF Claimed, IdleRun, RunStates
  <2>11. OneRunPerClaim'
    BY <2>8, <2>9, <2>10 DEF VideoInv, OneRunPerClaim, Claimed
  <2>12. RunsClaimed'
    <3> SUFFICES ASSUME NEW q \in Procs
                 PROVE  /\ run'[q] # IdleRun => ptask'[run'[q].video].status # NoRow
                        /\ run'[q].pub # "none" => run'[q].up # "none"
                        /\ Claimed(run'[q]) => /\ claims'[run'[q].video] = 1
                                               /\ token'[run'[q].video] \in {NoToken, q}
      BY DEF RunsClaimed, Claimed
    <3>1. CASE q = p
      <4>1. run'[p] # IdleRun => ptask'[run'[p].video].status # NoRow
        BY <2>6
      <4>2. run'[p].pub # "none" => run'[p].up # "none"
        BY <2>6 DEF VideoInv, RunsClaimed, IdleRun
      <4>3. Claimed(run'[p]) => claims'[run'[p].video] = 1 /\ token'[run'[p].video] \in {NoToken, p}
        BY <1>1, <2>3, <2>5, <2>10
      <4>4. QED
        BY <3>1, <4>1, <4>2, <4>3
    <3>2. CASE q # p
      <4>1. run'[q] = run[q] /\ (run[q] # IdleRun => run[q].video \in Videos)
        BY <2>6, <3>2 DEF TypeOK, RunsTyped
      <4>2. run[q] # IdleRun => ptask'[run[q].video].status # NoRow
        BY <2>6, <4>1 DEF VideoInv, RunsClaimed
      <4>3. Claimed(run[q]) => claims'[run[q].video] = 1 /\ token'[run[q].video] \in {NoToken, q}
        BY <1>1, <2>5, <2>8 DEF VideoInv, RunsClaimed
      <4>4. QED
        BY <4>1, <4>2, <4>3 DEF VideoInv, RunsClaimed
    <3>3. QED
      BY <3>1, <3>2
  <2>13. DeletesFound'
    BY <1>1, <2>2, VideoStatusNames DEF VideoInv, DeletesFound, TypeOK, DeletesTyped
  <2>14. QED
    BY <2>7, <2>11, <2>12, <2>13 DEF VideoInv
<1>3. CASE UNCHANGED <<status, claims>>
  <2>1. \/ /\ RunEnds(p, "Success")
           /\ status[v] # Uploaded
        \/ RunEnds(p, "RetryableFailure")
    <3>1. CASE status' = UpdateStatusIf(v, Uploaded, Processing) /\ status[v] = Uploaded
      <4>1. status'[v] = Processing
        BY <1>0, <3>1 DEF UpdateStatusIf, TypeOK, VideosTyped
      <4>2. QED
        BY <1>3, <3>1, <4>1, VideoStatusNames
    <3>2. QED
      BY <1>3, <3>1 DEF ProcessClaim
  <2>2. QED
    BY <1>0, <1>1, <1>3, <2>1, RunKeepsClaim DEF TaskResult
<1>4. QED
  BY <1>2, <1>3 DEF ProcessClaim

\* The runs the remaining steps write, as RunKeepsClaim asks for them.
LEMMA RunsClaim ==
  ASSUME NEW r \in Runs, r.pub # "none" => r.up # "none"
  PROVE  /\ r.up \in UploaderAt => /\ AfterUpload(r).pub # "none" => AfterUpload(r).up # "none"
                                   /\ Claimed(r)
         /\ r.pub # "none" => Claimed(r)
         /\ r.pc \notin {"idle", "load", "claim"} => Claimed(r)
         /\ \A l \in RunStates : /\ [r EXCEPT !.pc = l] \in Runs
                                 /\ [r EXCEPT !.pc = l].video = r.video
                                 /\ [r EXCEPT !.pc = l].pub # "none" => [r EXCEPT !.pc = l].up # "none"
         /\ \A l \in RunStates : [UploaderOver(r) EXCEPT !.pc = l].up # "none"
         /\ UploaderOver(r).up # "none"
         /\ [r EXCEPT !.pub = "ended"].up = r.up /\ [r EXCEPT !.pub = "ended"].video = r.video
<1>1. r.up \in UploaderAt => /\ AfterUpload(r).pub # "none" => AfterUpload(r).up # "none"
                             /\ Claimed(r)
  BY DEF AfterUpload, UploaderAt, Runs, Claimed
<1>2. (r.pub # "none" => Claimed(r)) /\ (r.pc \notin {"idle", "load", "claim"} => Claimed(r))
  BY DEF Claimed, Runs
<1>3. UploaderOver(r).up # "none" /\ \A l \in RunStates : [UploaderOver(r) EXCEPT !.pc = l].up # "none"
  BY DEF UploaderOver, Runs
<1>4. QED
  BY <1>1, <1>2, <1>3 DEF Runs

LEMMA ProcessClaimInv ==
  ASSUME TypeOK, TypeOK', VideoInv, NEW p \in Procs, ProcessStep(p)
  PROVE  VideoInv'
<1> DEFINE r == run[p]
           v == run[p].video
<1>0. r \in Runs /\ (r.pub # "none" => r.up # "none") /\ UNCHANGED del
  BY ProcessFrame DEF TypeOK, RunsTyped, VideoInv, RunsClaimed
<1>1. ASSUME NEW w \in Videos, ProcessStart(p, w) PROVE VideoInv'
  BY <1>1, StartClaim
<1>2. CASE ProcessClaim(p)
  BY <1>2, ClaimClaim
<1>3. ASSUME NEW x \in Runs, SetRun(p, x), x.video = v, x.pub # "none" => x.up # "none", Claimed(r),
             UNCHANGED <<status, token, ptask, claims>>
      PROVE  VideoInv'
  <2>1. run[p] # IdleRun
    BY <1>3 DEF Claimed, IdleRun, RunStates
  <2>2. QED
    BY <1>0, <1>3, <2>1, RunKeepsClaim
<1>4. ASSUME NEW result \in TaskResult, RunEnds(p, result), r.pc # "idle", UNCHANGED claims,
             result = "RetryableFailure" \/ status[v] # Uploaded,
             \A w \in Videos : status'[w] = status[w] \/ status'[w] \in {Processed, Failed},
             \A w \in Videos : token'[w] = token[w] \/ (Claimed(r) /\ w = v /\ token'[w] = p)
      PROVE  VideoInv'
  BY <1>0, <1>4, RunFields, RunKeepsClaim DEF TypeOK
<1>5. Claimed(r) => v \in Videos /\ status[v] # Uploaded
  BY DEF VideoInv, RunsClaimed, ClaimsCounted, TypeOK, RunsTyped, Claimed, IdleRun, RunStates
<1>6. CASE ProcessLoad(p)
  <2>1. r.pc = "load" /\ r # IdleRun /\ v \in Videos /\ UNCHANGED <<status, token, claims>>
    BY <1>6, RunFields DEF ProcessLoad, TypeOK
  <2>2. CASE RunGoes(p, "claim") /\ UNCHANGED ptask
    <3>1. "claim" \in RunStates
      BY DEF RunStates
    <3>2. [r EXCEPT !.pc = "claim"] \in Runs /\ (Claimed([r EXCEPT !.pc = "claim"]) => Claimed(r))
      BY <1>0, <2>1, <3>1 DEF Runs, Claimed
    <3>3. QED
      BY <1>0, <2>1, <2>2, <3>1, <3>2, RunsClaim, RunKeepsClaim DEF RunGoes
  <2>3. CASE ~HasRow(v) /\ RunEnds(p, "PermanentFailure")
    BY <1>4, <2>1, <2>3, VideoStatusNames DEF HasRow, TaskResult
  <2>4. CASE RunEnds(p, "RetryableFailure")
    BY <1>4, <2>1, <2>4 DEF TaskResult
  <2>5. QED
    BY <1>6, <2>2, <2>3, <2>4 DEF ProcessLoad
<1>7. CASE ProcessProbe(p) \/ ProcessJoin(p)
  <2>1. UNCHANGED <<status, token, ptask, claims>> /\ Claimed(r)
    BY <1>0, <1>7, RunsClaim DEF ProcessProbe, ProcessJoin
  <2>2. ASSUME NEW l \in RunStates, RunGoes(p, l) PROVE VideoInv'
    BY <1>0, <1>3, <2>1, <2>2, RunsClaim DEF RunGoes
  <2>3. ASSUME NEW u \in UploaderAt, SetRun(p, [r EXCEPT !.pc = "transcode", !.up = u, !.pub = "waiting"])
        PROVE  VideoInv'
    <3>1. [r EXCEPT !.pc = "transcode", !.up = u, !.pub = "waiting"] \in Runs
      BY <1>0, RunsWritten DEF RunStates, PublisherAt
    <3>2. /\ [r EXCEPT !.pc = "transcode", !.up = u, !.pub = "waiting"].video = v
          /\ [r EXCEPT !.pc = "transcode", !.up = u, !.pub = "waiting"].up # "none"
      BY <1>0 DEF Runs, UploaderAt
    <3>3. QED
      BY <1>3, <2>1, <2>3, <3>1, <3>2
  <2>4. CASE ProcessProbe(p)
    <3>1. PICK u \in UploaderAt :
            [StreamBegins(r, LowInLadder) EXCEPT !.pc = "transcode"]
              = [r EXCEPT !.pc = "transcode", !.up = u, !.pub = "waiting"]
      BY <1>0, StreamBegun
    <3>2. QED
      BY <2>2, <2>3, <2>4, <3>1 DEF ProcessProbe, RunStates
  <2>5. CASE ProcessJoin(p)
    <3>1. (IF r.pc = "joinOk" THEN "finalize" ELSE "fail") \in RunStates
      BY DEF RunStates
    <3>2. QED
      BY <2>2, <2>5, <3>1 DEF ProcessJoin
  <2>6. QED
    BY <1>7, <2>4, <2>5
<1>8. CASE TranscodeEnds(p)
  <2>1. UNCHANGED <<status, token, ptask, claims>> /\ Claimed(r)
    BY <1>0, <1>8, RunsClaim DEF TranscodeEnds
  <2>2. ASSUME NEW l \in RunStates, SetRun(p, [UploaderOver(r) EXCEPT !.pc = l]) PROVE VideoInv'
    <3>1. [UploaderOver(r) EXCEPT !.pc = l] \in Runs /\ [UploaderOver(r) EXCEPT !.pc = l].video = v
      BY <1>0, RunsWritten
    <3>2. [UploaderOver(r) EXCEPT !.pc = l].up # "none"
      BY <1>0, RunsClaim
    <3>3. QED
      BY <1>3, <2>1, <2>2, <3>1, <3>2
  <2>3. QED
    BY <1>8, <2>2 DEF TranscodeEnds, RunStates
<1>9. CASE UploadNext(p)
  <2>1. CASE SetRun(p, AfterUpload(r))
    BY <1>0, <1>3, <1>9, <2>1, RunsWritten, RunsClaim DEF UploadNext
  <2>2. CASE UNCHANGED run
    BY <1>9, <2>2 DEF UploadNext, VideoInv, ClaimsCounted, RunsClaimed, OneRunPerClaim, DeletesFound,
                      UploadedIsQueued
  <2>3. QED
    BY <1>9, <2>1, <2>2 DEF UploadNext
<1>10. CASE DetachedUploaderEnds(p)
  BY <1>0, <1>3, <1>10, RunsWritten, RunsClaim DEF DetachedUploaderEnds
<1>11. CASE PublishToken(p)
  <2>1. Claimed(r) /\ UNCHANGED <<status, ptask, claims>> /\ SetRun(p, [r EXCEPT !.pub = "ended"])
    BY <1>0, <1>11, RunsClaim DEF PublishToken
  <2>2. [r EXCEPT !.pub = "ended"] \in Runs
    BY <1>0, RunsWritten
  <2>3. /\ [r EXCEPT !.pub = "ended"].up # "none"
        /\ [r EXCEPT !.pub = "ended"].video = v
    BY <1>0, <1>11, RunsClaim DEF PublishToken
  <2>4. \A w \in Videos : token'[w] = token[w] \/ (Claimed(r) /\ w = v /\ token'[w] = p)
    BY <1>5, <1>11, <2>1 DEF PublishToken, SetShareToken, TypeOK, VideosTyped
  <2>5. run[p] # IdleRun
    BY <2>1 DEF Claimed, IdleRun, RunStates
  <2>6. QED
    BY <1>0, <2>1, <2>2, <2>3, <2>4, <2>5, RunKeepsClaim
<1>12. CASE ProcessFinalize(p)
  <2>1. Claimed(r) /\ UNCHANGED claims /\ r.pc # "idle" /\ r # IdleRun /\ v \in Videos
    BY <1>0, <1>5, <1>12, RunsClaim, RunFields DEF ProcessFinalize, TypeOK
  <2>2. /\ \A w \in Videos : token'[w] = token[w] \/ (Claimed(r) /\ w = v /\ token'[w] = p)
        /\ \A w \in Videos : status'[w] = status[w] \/ status'[w] \in {Processed, Failed}
    <3>1. CASE MarkProcessed(v, p)
      BY <2>1, <3>1 DEF MarkProcessed, SetShareToken, UpdateStatusIf, TypeOK, VideosTyped
    <3>2. CASE UNCHANGED <<status, token>>
      BY <3>2
    <3>3. QED
      BY <1>12, <3>1, <3>2 DEF ProcessFinalize
  <2>3. ASSUME NEW l \in RunStates, RunGoes(p, l), UNCHANGED ptask PROVE VideoInv'
    BY <1>0, <2>1, <2>2, <2>3, RunsClaim, RunKeepsClaim DEF RunGoes
  <2>4. CASE RunEnds(p, "Success")
    BY <1>4, <1>5, <2>1, <2>2, <2>4 DEF TaskResult
  <2>5. QED
    BY <1>12, <2>3, <2>4 DEF ProcessFinalize, RunStates
<1>13. CASE ProcessFail(p) \/ ProcessCleanup(p)
  <2>1. /\ Claimed(r) /\ UNCHANGED <<token, claims>> /\ r.pc # "idle" /\ v \in Videos
        /\ RunEnds(p, "Success")
    BY <1>0, <1>5, <1>13, RunsClaim DEF ProcessFail, ProcessCleanup
  <2>2. \A w \in Videos : status'[w] = status[w] \/ status'[w] \in {Processed, Failed}
    BY <1>13, <2>1 DEF ProcessFail, ProcessCleanup, UpdateStatusIf, TypeOK, VideosTyped
  <2>3. QED
    BY <1>4, <1>5, <2>1, <2>2 DEF TaskResult
<1>14. CASE ProcessTimesOut(p)
  BY <1>4, <1>14 DEF ProcessTimesOut, TaskResult
<1>15. CASE ProcessLost(p)
  <2>1. /\ UNCHANGED <<status, token, ptask, claims, del>>
        /\ \A q \in Procs : run'[q] \in {run[q], IdleRun}
    BY <1>15 DEF ProcessLost, TypeOK, RunsTyped
  <2>2. QED
    BY <2>1, ClaimKept DEF VideoInv, UploadedIsQueued, DeletesFound
<1>16. QED
  BY <1>1, <1>2, <1>6, <1>7, <1>8, <1>9, <1>10, <1>11, <1>12, <1>13, <1>14, <1>15, ProcessStep(p)
  DEF ProcessStep, HandlerStep

LEMMA NextClaim == TypeOK /\ TypeOK' /\ VideoInv /\ [Next]_vars => VideoInv'
<1> SUFFICES ASSUME TypeOK, TypeOK', VideoInv, [Next]_vars PROVE VideoInv'
  OBVIOUS
<1>1. CASE UNCHANGED vars
  BY <1>1 DEF vars, VideoInv, ClaimsCounted, RunsClaimed, OneRunPerClaim, DeletesFound,
              UploadedIsQueued, Claimed
<1>2. QED
  BY <1>1, ClientClaim, CallClaim, ProcessResetClaim, ProcessClaimInv, DeleteClaim,
     DeleteResetClaim, SweepClaim
  DEF Next

\* In every reachable state the claim belongs to one run, a video past UPLOADED
\* has been claimed once, and an UPLOADED one is queued.
LEMMA VideoInvariant == Spec => []VideoInv
<1>1. Init => VideoInv
  BY InitClaim
<1>2. TypeOK /\ TypeOK' /\ VideoInv /\ [Next]_vars => VideoInv'
  BY NextClaim
<1>3. QED
  BY <1>1, <1>2, TypeCorrect, PTL DEF Spec

\* A video is claimed for processing at most once in its life (the conditional
\* update in claim_for_processing), and never do two runs of process_video have
\* uploaders for the same video: whatever is retried, reset early or restarted.
THEOREM VideosAreClaimedOnce == Spec => []ClaimedOnce
<1>1. VideoInv => ClaimedOnce
  BY DEF VideoInv, ClaimsCounted, OneRunPerClaim, ClaimedOnce, Claimed
<1>2. QED
  BY <1>1, VideoInvariant, PTL

\* An UPLOADED video always has its ProcessVideo row, pending, in progress or
\* dead-lettered (complete_upload writes both in one transaction, and no run
\* completes its row before the claim): it is never forgotten.
THEOREM UploadedVideosAreQueued == Spec => []UploadedIsQueued
<1>1. VideoInv => UploadedIsQueued
  BY DEF VideoInv
<1>2. QED
  BY <1>1, VideoInvariant, PTL

----------------------------------------------------------------------------
(* What a step does to a status and to a share link                         *)

\* Only the claimed run writes a token; the others leave it, or drop it with the row.
LEMMA TokenStep ==
  ASSUME TypeOK, VideoInv, [Next]_vars, NEW v \in Videos, token[v] # NoToken
  PROVE  token'[v] = token[v] \/ status'[v] = Deleted
<1>1. ASSUME NEW p \in Procs, token' = SetShareToken(run[p].video, p), Claimed(run[p])
      PROVE  token'[v] = token[v]
  <2>1. run[p].video = v => token[v] = p
    BY <1>1 DEF VideoInv, RunsClaimed
  <2>2. run[p].video \in Videos
    BY <1>1 DEF TypeOK, RunsTyped, Claimed, IdleRun, RunStates
  <2>3. QED
    BY <1>1, <2>1, <2>2 DEF SetShareToken, TypeOK, VideosTyped
<1>2. ASSUME NEW p \in Procs, ProcessStep(p) PROVE token'[v] = token[v]
  <2>1. CASE PublishToken(p)
    <3>1. Claimed(run[p])
      BY <2>1 DEF PublishToken, VideoInv, RunsClaimed, Claimed
    <3>2. QED
      BY <1>1, <2>1, <3>1 DEF PublishToken
  <2>2. CASE ProcessFinalize(p)
    <3>1. Claimed(run[p])
      BY <2>2 DEF ProcessFinalize, Claimed, RunStates
    <3>2. QED
      BY <1>1, <2>2, <3>1 DEF ProcessFinalize, MarkProcessed
  <2>3. QED
    BY <1>2, <2>1, <2>2
    DEF ProcessStep, HandlerStep, ProcessStart, ProcessLoad, ProcessClaim, ProcessProbe,
        TranscodeEnds, ProcessJoin, ProcessFail, ProcessCleanup, UploadNext, DetachedUploaderEnds,
        ProcessTimesOut, ProcessLost
<1>3. ASSUME NEW d \in Deleters, DeleteRow(d) PROVE token'[v] = token[v] \/ status'[v] = Deleted
  BY <1>3 DEF DeleteRow, TypeOK, VideosTyped, DeletesTyped
<1>4. CASE UNCHANGED token
  BY <1>4
<1>5. QED
  BY <1>2, <1>3, <1>4
  DEF Next, vars, Initiate, ClientUpload, Age, ProcessReset, ProcessRevive, CallStep, CompleteFind,
      CompleteHead, CompleteRange, CompleteReject, CompleteTx, DeleteStep, DeleteStart, DeleteFind,
      DeletePrefix, DeleteObject, DeleteLost, DeleteReset, DeleteRevive, SweepStep, SweepFindStale,
      SweepFindFailed, SweepMark, SweepCreate, SweepLost

\* A share link that has been handed out stays the video's link until the row
\* is deleted: publish_share_token and mark_processed write the same token.
THEOREM ShareLinksAreStable == Spec => ShareLinkIsStable
<1>1. TypeOK /\ VideoInv /\ [Next]_vars =>
        [\A v \in Videos : token[v] # NoToken /\ status'[v] # Deleted => token'[v] = token[v]]_vars
  BY TokenStep
<1>2. QED
  BY <1>1, TypeCorrect, VideoInvariant, PTL DEF Spec, ShareLinkIsStable

\* A status that changes moves on along the documented life of a video.
LEMMA StatusStep ==
  ASSUME TypeOK, VideoInv, [Next]_vars, NEW v \in Videos, status'[v] # status[v]
  PROVE  status'[v] \in Successors(status[v])
<1> USE VideoStatusNames DEF Successors
<1>1. ASSUME NEW w \in Videos, Initiate(w) PROVE status'[v] \in Successors(status[v])
  BY <1>1 DEF Initiate, TypeOK, VideosTyped
<1>2. ASSUME NEW c \in Callers, CompleteTx(c) PROVE status'[v] \in Successors(status[v])
  BY <1>2 DEF CompleteTx, UpdateStatusIf, TypeOK, VideosTyped
<1>3. ASSUME NEW p \in Procs, ProcessClaim(p) \/ ProcessFinalize(p) \/ ProcessFail(p)
      PROVE  status'[v] \in Successors(status[v])
  BY <1>3 DEF ProcessClaim, ProcessFinalize, ProcessFail, MarkProcessed, UpdateStatusIf, TypeOK,
              VideosTyped
<1>4. ASSUME NEW d \in Deleters, DeleteRow(d) PROVE status'[v] \in Successors(status[v])
  <2>1. status[del[d].video] # NotInitiated
    BY <1>4 DEF DeleteRow, VideoInv, DeletesFound
  <2>2. del[d].video = v /\ status'[v] = Deleted
    BY <1>4 DEF DeleteRow, TypeOK, VideosTyped
  <2>3. status[v] \in VideoStatus
    BY <2>1, <2>2 DEF TypeOK, VideosTyped
  <2>4. QED
    BY <2>2, <2>3 DEF VideoStatus
<1>5. ASSUME SweepMark PROVE status'[v] \in Successors(status[v])
  BY <1>5 DEF SweepMark, BulkMarkFailed, FromStatuses
<1>6. ~UNCHANGED status
  OBVIOUS
<1>7. QED
  BY <1>1, <1>2, <1>3, <1>4, <1>5, <1>6
  DEF Next, vars, ClientUpload, Age, ProcessReset, ProcessRevive, CallStep, CompleteFind,
      CompleteHead, CompleteRange, CompleteReject, ProcessStep, HandlerStep, ProcessStart,
      ProcessLoad, ProcessProbe, TranscodeEnds, ProcessJoin, ProcessCleanup, UploadNext,
      DetachedUploaderEnds, PublishToken, ProcessTimesOut, ProcessLost, DeleteStep, DeleteStart,
      DeleteFind, DeletePrefix, DeleteObject, DeleteLost, DeleteReset, DeleteRevive, SweepStep,
      SweepFindStale, SweepFindFailed, SweepCreate, SweepLost

\* No call, however late or repeated, takes a video back: PROCESSED and FAILED
\* are left only by deletion, and a deleted row does not come back.
THEOREM StatusesMoveOn == Spec => StatusMovesOn
<1>1. TypeOK /\ VideoInv /\ [Next]_vars =>
        [\A v \in Videos : status'[v] # status[v] => status'[v] \in Successors(status[v])]_vars
  BY StatusStep
<1>2. QED
  BY <1>1, TypeCorrect, VideoInvariant, PTL DEF Spec, StatusMovesOn

----------------------------------------------------------------------------
(* What a player finds                                                      *)

\* Every step but an upload and a deletion: what is stored stays, whoever
\* publishes the video has stored what a player needs, and a run written anew
\* has stored what its place says.
LEMMA StorageKept ==
  ASSUME TypeOK, StorageInv, UNCHANGED <<hls, purged>>,
         \A v \in Videos : \/ token'[v] \in {token[v], NoToken} \/ purged[v] \/ Playable(v),
         \A v \in Videos : \/ status'[v] = status[v] \/ status'[v] # Processed
                           \/ purged[v] \/ Playable(v),
         \A p \in Procs : \/ run'[p] = run[p]
                          \/ run'[p] = IdleRun
                          \/ purged[run'[p].video] \/ Stored(run'[p])
  PROVE  StorageInv'
<1>1. PublishedIsPlayable'
  BY DEF StorageInv, PublishedIsPlayable, Playable
<1>2. \A p \in Procs : run'[p] # IdleRun /\ ~purged[run'[p].video] => Stored(run'[p])
  BY DEF StorageInv
<1>3. \A p \in Procs : run'[p] # IdleRun /\ ~purged'[run'[p].video] => Stored(run[p])'
  BY <1>2 DEF Stored, Playable
<1>4. QED
  BY <1>1, <1>3 DEF StorageInv

LEMMA InitStorage == Init => StorageInv
  BY VideoStatusNames DEF Init, StorageInv, PublishedIsPlayable

\* What a run has stored, for the runs its steps write.
LEMMA RunsStored ==
  ASSUME NEW r \in Runs, Stored(r)
  PROVE  /\ \A l \in RunStates \ {"joinOk", "finalize", "cleanup"} : Stored([r EXCEPT !.pc = l])
         /\ r.pc = "joinOk" => Stored([r EXCEPT !.pc = "finalize"])
         /\ r.pc = "finalize" => Stored([r EXCEPT !.pc = "cleanup"])
         /\ Stored([r EXCEPT !.pc = "transcode", !.up = "segment", !.pub = "waiting"])
         /\ r.up = "more" => Stored([UploaderOver(r) EXCEPT !.pc = "joinOk"])
         /\ Stored([UploaderOver(r) EXCEPT !.pc = "joinFailed"])
         /\ Stored(UploaderOver(r))
         /\ Stored([r EXCEPT !.pub = "ended"])
<1>1. /\ \A l \in RunStates \ {"joinOk", "finalize", "cleanup"} : Stored([r EXCEPT !.pc = l])
      /\ r.pc = "joinOk" => Stored([r EXCEPT !.pc = "finalize"])
      /\ r.pc = "finalize" => Stored([r EXCEPT !.pc = "cleanup"])
  BY DEF Stored, Runs
<1>2. /\ Stored([r EXCEPT !.pc = "transcode", !.up = "segment", !.pub = "waiting"])
      /\ Stored([r EXCEPT !.pub = "ended"])
  BY DEF Stored, Runs
<1>3. /\ r.up = "more" => Stored([UploaderOver(r) EXCEPT !.pc = "joinOk"])
      /\ Stored([UploaderOver(r) EXCEPT !.pc = "joinFailed"])
      /\ Stored(UploaderOver(r))
  BY DEF Stored, Runs, UploaderOver
<1>4. QED
  BY <1>1, <1>2, <1>3

\* A step of a run but an upload: the run it writes has stored as much.
LEMMA RunKeepsStorage ==
  ASSUME TypeOK, StorageInv, NEW p \in Procs, UNCHANGED <<hls, purged>>,
         \A v \in Videos : \/ token'[v] \in {token[v], NoToken} \/ purged[v] \/ Playable(v),
         \A v \in Videos : \/ status'[v] = status[v] \/ status'[v] # Processed
                           \/ purged[v] \/ Playable(v),
         NEW r \in Runs, r.video = run[p].video, Stored(run[p]) => Stored(r),
         run[p] # IdleRun, SetRun(p, r)
  PROVE  StorageInv'
<1>1. /\ run'[p] \in {r, IdleRun}
      /\ \A q \in Procs : q # p => run'[q] = run[q]
  BY RunWritten DEF TypeOK, RunsTyped
<1>2. purged[r.video] \/ Stored(r)
  BY DEF StorageInv
<1>3. QED
  BY <1>1, <1>2, StorageKept

LEMMA UploadStorage ==
  ASSUME TypeOK, StorageInv, NEW p \in Procs, UploadNext(p)
  PROVE  StorageInv'
<1> DEFINE r == run[p]
           v == run[p].video
<1>0. r \in Runs /\ r # IdleRun /\ v \in Videos /\ r.up \in UploaderAt
  BY RunFields DEF UploadNext, TypeOK, UploaderAt
<1> SUFFICES ASSUME hls' = [hls EXCEPT ![v] = @ \cup {r.up}], SetRun(p, AfterUpload(r))
             PROVE  StorageInv'
  <2>1. CASE UNCHANGED run /\ hls' = [hls EXCEPT ![v] = @ \cup {"more"}]
    BY <1>0, <2>1 DEF UploadNext, StorageInv, PublishedIsPlayable, Stored, Playable, TypeOK, VideosTyped
  <2>2. QED
    BY <2>1 DEF UploadNext
<1>1. /\ UNCHANGED <<status, token, purged>>
      /\ hls' = [hls EXCEPT ![v] = @ \cup {r.up}]
      /\ SetRun(p, AfterUpload(r))
  BY DEF UploadNext
<1>2. hls'[v] = hls[v] \cup {r.up} /\ \A w \in Videos : hls[w] \subseteq hls'[w]
  BY <1>0, <1>1 DEF TypeOK, VideosTyped
<1>3. PublishedIsPlayable'
  BY <1>1, <1>2 DEF StorageInv, PublishedIsPlayable, Playable
<1>4. /\ run'[p] \in {AfterUpload(r), IdleRun}
      /\ \A q \in Procs : q # p => run'[q] = run[q]
      /\ AfterUpload(r).video = v
  BY <1>0, <1>1, RunsWritten, RunWritten DEF TypeOK
<1>5. ASSUME NEW q \in Procs, q # p, run'[q] # IdleRun, ~purged'[run'[q].video]
      PROVE  Stored(run[q])'
  <2>1. Stored(run[q]) /\ run[q].video \in Videos /\ run'[q] = run[q]
    BY <1>1, <1>4, <1>5 DEF StorageInv, TypeOK, RunsTyped
  <2>2. QED
    BY <1>2, <2>1 DEF Stored, Playable
<1>6. ASSUME run'[p] = AfterUpload(r), ~purged'[v]
      PROVE  Stored(run[p])'
  <2>1. Stored(r)
    BY <1>0, <1>1, <1>6 DEF StorageInv
  <2>2. /\ r.up = "segment" => "segment" \in hls'[v]
        /\ r.up = "playlist" => {"segment", "playlist"} \subseteq hls'[v]
        /\ r.up = "master" => {"segment", "playlist", "master"} \subseteq hls'[v]
        /\ r.up = "more" => {"segment", "playlist", "master"} \subseteq hls'[v]
        /\ r.pub = "notified" \/ r.pc \in {"joinOk", "finalize", "cleanup"} =>
             {"segment", "playlist", "master"} \subseteq hls'[v]
    BY <1>0, <1>2, <2>1 DEF Stored, Playable
  <2>3. /\ AfterUpload(r).pc = r.pc
        /\ r.up = "segment" => AfterUpload(r).up = "playlist" /\ AfterUpload(r).pub = r.pub
        /\ r.up = "playlist" => AfterUpload(r).up = "master" /\ AfterUpload(r).pub = r.pub
        /\ r.up \in {"master", "more"} => AfterUpload(r).up = "more"
    BY <1>0 DEF AfterUpload, Runs, UploaderAt
  <2> HIDE DEF r, v
  <2>4. QED
    <3>1. run'[p].video = v
      BY <1>4, <1>6
    <3>2. run'[p].pc = r.pc
      BY <1>6, <2>3
    <3>3. CASE r.up = "segment"
      BY <1>6, <2>2, <2>3, <3>1, <3>2, <3>3 DEF Stored, Playable
    <3>4. CASE r.up = "playlist"
      BY <1>6, <2>2, <2>3, <3>1, <3>2, <3>4 DEF Stored, Playable
    <3>5. CASE r.up \in {"master", "more"}
      BY <1>6, <2>2, <2>3, <3>1, <3>2, <3>5 DEF Stored, Playable
    <3>6. QED
      BY <1>0, <3>3, <3>4, <3>5 DEF UploaderAt
<1>7. QED
  BY <1>1, <1>3, <1>4, <1>5, <1>6 DEF StorageInv

LEMMA ProcessStorage ==
  ASSUME LowInLadder, TypeOK, StorageInv, NEW p \in Procs, ProcessStep(p)
  PROVE  StorageInv'
<1> DEFINE r == run[p]
           v == run[p].video
<1>0. r \in Runs
  BY DEF TypeOK, RunsTyped
<1>1. CASE UploadNext(p)
  BY <1>1, UploadStorage
<1>2. CASE ~UploadNext(p)
  <2>0. UNCHANGED <<hls, purged>>
    BY <1>2, ProcessStep(p)
    DEF ProcessStep, HandlerStep, ProcessStart, ProcessLoad, ProcessClaim, ProcessProbe,
        TranscodeEnds, ProcessJoin, ProcessFinalize, ProcessFail, ProcessCleanup,
        DetachedUploaderEnds, PublishToken, ProcessTimesOut, ProcessLost
  <2>1. /\ \A w \in Videos : token'[w] \in {token[w], NoToken} \/ purged[w] \/ Playable(w)
        /\ \A w \in Videos : status'[w] = status[w] \/ status'[w] # Processed \/ purged[w] \/ Playable(w)
    <3>1. CASE r.pc = "finalize" \/ r.pub = "notified"
      <4>1. v \in Videos /\ (purged[v] \/ Playable(v))
        BY <3>1, RunFields DEF TypeOK, StorageInv, Stored
      <4>2. \A w \in Videos : w # v => token'[w] = token[w] /\ status'[w] = status[w]
        BY <1>2, <4>1, ProcessStep(p)
        DEF ProcessStep, HandlerStep, ProcessStart, ProcessLoad, ProcessClaim, ProcessProbe,
            TranscodeEnds, ProcessJoin, ProcessFinalize, ProcessFail, ProcessCleanup,
            DetachedUploaderEnds, PublishToken, ProcessTimesOut, ProcessLost, MarkProcessed,
            SetShareToken, UpdateStatusIf, TypeOK, VideosTyped
      <4>3. QED
        BY <4>1, <4>2
    <3>2. CASE ~(r.pc = "finalize" \/ r.pub = "notified")
      <4>1. UNCHANGED token
        BY <1>2, <3>2, ProcessStep(p)
        DEF ProcessStep, HandlerStep, ProcessStart, ProcessLoad, ProcessClaim, ProcessProbe,
            TranscodeEnds, ProcessJoin, ProcessFinalize, ProcessFail, ProcessCleanup,
            DetachedUploaderEnds, PublishToken, ProcessTimesOut, ProcessLost
      <4>2. \A w \in Videos : status'[w] = status[w] \/ status'[w] \in {Processing, Failed}
        BY <1>2, <3>2, ProcessStep(p)
        DEF ProcessStep, HandlerStep, ProcessStart, ProcessLoad, ProcessClaim, ProcessProbe,
            TranscodeEnds, ProcessJoin, ProcessFinalize, ProcessFail, ProcessCleanup,
            DetachedUploaderEnds, PublishToken, ProcessTimesOut, ProcessLost,
            UpdateStatusIf, TypeOK, VideosTyped
      <4>3. QED
        BY <4>1, <4>2, VideoStatusNames
    <3>3. QED
      BY <3>1, <3>2
  <2>2. ASSUME NEW x \in Runs, SetRun(p, x), x.video = v, Stored(r) => Stored(x), r # IdleRun
        PROVE  StorageInv'
    BY <2>0, <2>1, <2>2, RunKeepsStorage
  <2>3. ASSUME NEW l \in RunStates, RunGoes(p, l), r # IdleRun,
               \/ l \notin {"joinOk", "finalize", "cleanup"}
               \/ r.pc = "joinOk" /\ l = "finalize"
               \/ r.pc = "finalize" /\ l = "cleanup"
        PROVE  StorageInv'
    <3>1. [r EXCEPT !.pc = l] \in Runs /\ [r EXCEPT !.pc = l].video = v
      BY <1>0, <2>3 DEF Runs
    <3>2. Stored(r) => Stored([r EXCEPT !.pc = l])
      BY <1>0, <2>3, RunsStored
    <3>3. QED
      BY <2>2, <2>3, <3>1, <3>2 DEF RunGoes
  <2>4. ASSUME NEW result \in TaskResult, RunEnds(p, result), r # IdleRun PROVE StorageInv'
    BY <2>3, <2>4 DEF RunEnds, RunStates
  <2>5. ASSUME NEW w \in Videos, ProcessStart(p, w) PROVE StorageInv'
    <3>1. /\ \A q \in Procs : q # p => run'[q] = run[q]
          /\ Stored(run'[p])
      BY <2>5 DEF ProcessStart, TypeOK, RunsTyped, IdleRun, Stored
    <3>2. QED
      BY <2>0, <2>1, <3>1, StorageKept
  <2>6. CASE ProcessProbe(p)
    <3>1. r # IdleRun
      BY <2>6, RunFields DEF ProcessProbe, TypeOK
    <3> DEFINE x == [r EXCEPT !.pc = "transcode", !.up = "segment", !.pub = "waiting"]
    <3>2. x \in Runs
      BY <1>0, RunsWritten DEF RunStates, UploaderAt, PublisherAt
    <3>3. x.video = v /\ (Stored(r) => Stored(x))
      BY <1>0, RunsStored DEF Runs
    <3>4. SetRun(p, x) \/ RunGoes(p, "fail")
      BY <1>0, <2>6, StreamBegun DEF ProcessProbe
    <3> HIDE DEF x
    <3>5. QED
      BY <2>2, <2>3, <3>1, <3>2, <3>3, <3>4 DEF RunStates
  <2>7. CASE TranscodeEnds(p)
    <3>1. r # IdleRun
      BY <2>7, RunFields DEF TranscodeEnds, TypeOK
    <3>2. \A l \in RunStates : /\ [UploaderOver(r) EXCEPT !.pc = l] \in Runs
                               /\ [UploaderOver(r) EXCEPT !.pc = l].video = v
      BY <1>0, RunsWritten
    <3>3. /\ r.up = "more" /\ Stored(r) => Stored([UploaderOver(r) EXCEPT !.pc = "joinOk"])
          /\ Stored(r) => Stored([UploaderOver(r) EXCEPT !.pc = "joinFailed"])
      BY <1>0, RunsStored
    <3>4. QED
      BY <2>2, <2>7, <3>1, <3>2, <3>3 DEF TranscodeEnds, RunStates
  <2>8. CASE DetachedUploaderEnds(p)
    <3>1. r # IdleRun
      BY <2>8, RunFields DEF DetachedUploaderEnds, TypeOK, UploaderAt
    <3>2. QED
      BY <1>0, <2>2, <2>8, <3>1, RunsWritten, RunsStored DEF DetachedUploaderEnds
  <2>9. CASE PublishToken(p)
    <3>1. r # IdleRun
      BY <2>9, RunFields DEF PublishToken, TypeOK
    <3>2. [r EXCEPT !.pub = "ended"] \in Runs
      BY <1>0, RunsWritten
    <3>3. [r EXCEPT !.pub = "ended"].video = v
      BY <1>0 DEF Runs
    <3>4. QED
      BY <1>0, <2>2, <2>9, <3>1, <3>2, <3>3, RunsStored DEF PublishToken
  <2>10. CASE ProcessLost(p)
    <3>1. \A q \in Procs : run'[q] \in {run[q], IdleRun}
      BY <2>10 DEF ProcessLost, TypeOK, RunsTyped
    <3>2. QED
      BY <2>0, <2>1, <3>1, StorageKept
  <2>11. CASE HandlerStep(p) \/ ProcessTimesOut(p)
    <3>1. r # IdleRun
      BY <2>11, RunFields
      DEF TypeOK, HandlerStep, ProcessLoad, ProcessClaim, ProcessProbe, TranscodeEnds, ProcessJoin,
          ProcessFinalize, ProcessFail, ProcessCleanup, ProcessTimesOut
    <3>2. CASE ProcessLoad(p) \/ ProcessClaim(p)
      BY <2>3, <2>4, <3>1, <3>2 DEF ProcessLoad, ProcessClaim, RunStates, TaskResult
    <3>3. CASE ProcessJoin(p)
      BY <2>3, <3>1, <3>3 DEF ProcessJoin, RunStates
    <3>4. CASE ProcessFinalize(p)
      BY <2>3, <2>4, <3>1, <3>4 DEF ProcessFinalize, RunStates, TaskResult
    <3>5. CASE ProcessFail(p) \/ ProcessCleanup(p) \/ ProcessTimesOut(p)
      BY <2>4, <3>1, <3>5 DEF ProcessFail, ProcessCleanup, ProcessTimesOut, TaskResult
    <3>6. QED
      BY <2>6, <2>7, <2>11, <3>2, <3>3, <3>4, <3>5 DEF HandlerStep
  <2>12. QED
    BY <1>2, <2>5, <2>8, <2>9, <2>10, <2>11, ProcessStep(p) DEF ProcessStep
<1>3. QED
  BY <1>1, <1>2

LEMMA DeletePrefixStorage ==
  ASSUME TypeOK, StorageInv, NEW d \in Deleters, DeletePrefix(d)
  PROVE  StorageInv'
<1> DEFINE v == del[d].video
<1>1. UNCHANGED <<status, token, run>>
  BY DEF DeletePrefix
<1>2. /\ v \in Videos /\ purged'[v]
      /\ \A w \in Videos : w # v => hls'[w] = hls[w] /\ purged'[w] = purged[w]
  BY DEF DeletePrefix, TypeOK, VideosTyped, DeletesTyped
<1> HIDE DEF v
<1>3. PublishedIsPlayable'
  BY <1>1, <1>2 DEF StorageInv, PublishedIsPlayable, Playable
<1>4. \A p \in Procs : run'[p] # IdleRun /\ ~purged'[run'[p].video] => Stored(run[p])'
  BY <1>1, <1>2 DEF StorageInv, Stored, Playable, TypeOK, RunsTyped
<1>5. QED
  BY <1>3, <1>4 DEF StorageInv

LEMMA NextStorage == LowInLadder /\ TypeOK /\ StorageInv /\ [Next]_vars => StorageInv'
<1> SUFFICES ASSUME LowInLadder, TypeOK, StorageInv, [Next]_vars PROVE StorageInv'
  OBVIOUS
<1>1. ASSUME NEW p \in Procs, ProcessStep(p) PROVE StorageInv'
  BY <1>1, ProcessStorage
<1>2. ASSUME NEW d \in Deleters, DeletePrefix(d) PROVE StorageInv'
  BY <1>2, DeletePrefixStorage
<1>3. ASSUME UNCHANGED <<hls, purged, run>>,
             \A v \in Videos : token'[v] \in {token[v], NoToken},
             \A v \in Videos : status'[v] \in {status[v], PendingUpload, Uploaded, Failed, Deleted}
      PROVE  StorageInv'
  BY <1>3, StorageKept, VideoStatusNames
<1>4. ASSUME NEW v \in Videos,
             Initiate(v) \/ ClientUpload(v) \/ Age(v) \/ ProcessReset(v) \/ ProcessRevive(v)
      PROVE  StorageInv'
  BY <1>3, <1>4 DEF Initiate, ClientUpload, Age, ProcessReset, ProcessRevive, TypeOK, VideosTyped
<1>5. ASSUME NEW c \in Callers, CallStep(c) PROVE StorageInv'
  BY <1>3, <1>5 DEF CallStep, CompleteFind, CompleteHead, CompleteRange, CompleteReject, CompleteTx,
                    UpdateStatusIf, TypeOK, VideosTyped
<1>6. ASSUME NEW d \in Deleters, \/ DeleteStep(d) /\ ~DeletePrefix(d)
                                 \/ DeleteLost(d)
                                 \/ \E i \in DeleteTasks : DeleteStart(d, i)
      PROVE  StorageInv'
  BY <1>3, <1>6 DEF DeleteStep, DeleteFind, DeleteObject, DeleteRow, DeleteLost, DeleteStart,
                    TypeOK, VideosTyped
<1>7. ASSUME NEW i \in DeleteTasks, DeleteReset(i) \/ DeleteRevive(i) PROVE StorageInv'
  BY <1>3, <1>7 DEF DeleteReset, DeleteRevive
<1>8. CASE SweepStep \/ SweepLost
  BY <1>3, <1>8 DEF SweepStep, SweepFindStale, SweepFindFailed, SweepMark, SweepCreate, SweepLost,
                    BulkMarkFailed
<1>9. CASE UNCHANGED vars
  BY <1>3, <1>9 DEF vars
<1>10. QED
  BY <1>1, <1>2, <1>4, <1>5, <1>6, <1>7, <1>8, <1>9 DEF Next

\* A streamable video - PROCESSED, or PROCESSING with a share link - has its
\* master playlist, its low variant and a first segment in storage until
\* somebody begins to delete it, provided the ladder has its low tier: the
\* order of the uploads in upload_one_segment, with the notifier last.
THEOREM StreamableVideosArePlayable ==
  ASSUME LowInLadder
  PROVE  Spec => []StreamableIsPlayable
<1>1. Init => StorageInv
  BY InitStorage
<1>2. TypeOK /\ StorageInv /\ [Next]_vars => StorageInv'
  BY NextStorage
<1>3. StorageInv => StreamableIsPlayable
  BY DEF StorageInv, PublishedIsPlayable, StreamableIsPlayable, Streamable
<1>4. QED
  BY <1>1, <1>2, <1>3, TypeCorrect, PTL DEF Spec

----------------------------------------------------------------------------
(* What a delete leaves                                                     *)

\* A step after which nothing is stored that was not, but behind a delete's
\* back, with every delete where it was.
LEMMA DeletionKept ==
  ASSUME DeletionInv, UNCHANGED <<del, purged>>, late \subseteq late',
         \A v \in Videos : status'[v] = Deleted => status[v] = Deleted,
         \A v \in Videos : \/ hls'[v] = hls[v] /\ original'[v] \in {original[v], "absent"}
                          \/ ~purged[v]
                          \/ v \in late',
         \A d \in Deleters : del[d].pc # "idle" => del[d].video \in Videos
  PROVE  DeletionInv'
  BY DEF DeletionInv, DeletedLeavesNothing

LEMMA ProcessDeletion ==
  ASSUME TypeOK, DeletionInv, NEW p \in Procs, ProcessStep(p)
  PROVE  DeletionInv'
<1> DEFINE v == run[p].video
<1>1. UNCHANGED <<del, purged>> /\ \A d \in Deleters : del[d].pc # "idle" => del[d].video \in Videos
  BY ProcessFrame DEF TypeOK, DeletesTyped
<1>2. \A w \in Videos : status'[w] = Deleted => status[w] = Deleted
  BY VideoStatusNames
  DEF TypeOK, VideosTyped, ProcessStep, HandlerStep, ProcessStart, ProcessLoad, ProcessClaim,
      ProcessProbe, TranscodeEnds, ProcessJoin, ProcessFinalize, ProcessFail, ProcessCleanup,
      UploadNext, DetachedUploaderEnds, PublishToken, ProcessTimesOut, ProcessLost,
      UpdateStatusIf, MarkProcessed
<1>3. CASE UploadNext(p)
  <2>1. v \in Videos
    BY <1>3, RunFields DEF UploadNext, TypeOK, UploaderAt
  <2>2. /\ late \subseteq late' /\ UNCHANGED original
        /\ \A w \in Videos : w # v => hls'[w] = hls[w]
        /\ purged[v] => v \in late'
    BY <1>3, <2>1 DEF UploadNext, BehindADelete, TypeOK, VideosTyped
  <2>3. QED
    BY <1>1, <1>2, <2>2, DeletionKept
<1>4. CASE ~UploadNext(p)
  <2>1. UNCHANGED <<hls, late>>
    BY <1>4
    DEF ProcessStep, HandlerStep, ProcessStart, ProcessLoad, ProcessClaim, ProcessProbe,
        TranscodeEnds, ProcessJoin, ProcessFinalize, ProcessFail, ProcessCleanup,
        DetachedUploaderEnds, PublishToken, ProcessTimesOut, ProcessLost
  <2>2. \A w \in Videos : original'[w] \in {original[w], "absent"}
    BY <1>4
    DEF TypeOK, VideosTyped, ProcessStep, HandlerStep, ProcessStart, ProcessLoad, ProcessClaim,
        ProcessProbe, TranscodeEnds, ProcessJoin, ProcessFinalize, ProcessFail, ProcessCleanup,
        DetachedUploaderEnds, PublishToken, ProcessTimesOut, ProcessLost
  <2>3. QED
    BY <1>1, <1>2, <2>1, <2>2, DeletionKept
<1>5. QED
  BY <1>3, <1>4

LEMMA DeleteDeletion ==
  ASSUME TypeOK, DeletionInv, NEW d \in Deleters,
         DeleteStep(d) \/ DeleteLost(d) \/ \E i \in DeleteTasks : DeleteStart(d, i)
  PROVE  DeletionInv'
<1> DEFINE v == del[d].video
<1>0. /\ \A e \in Deleters : del[e].pc # "idle" => del[e].video \in Videos
      /\ del \in [Deleters -> Deletes]
  BY DEF TypeOK, DeletesTyped
<1>1. \A e \in Deleters : e # d => del'[e] = del[e]
  BY <1>0
  DEF DeleteStep, DeleteFind, DeletePrefix, DeleteObject, DeleteRow, DeleteLost, DeleteStart,
      DeleteGoes, DeleteEnds
<1>2. CASE DeletePrefix(d)
  <2>1. /\ v \in Videos /\ UNCHANGED <<status, original>>
        /\ \A w \in Videos : w # v => hls'[w] = hls[w] /\ purged'[w] = purged[w]
        /\ purged'[v] /\ (hls[v] = {} => hls'[v] = {})
        /\ late \subseteq late' /\ \A w \in Videos : w # v /\ w \in late' => w \in late
    BY <1>0, <1>2 DEF DeletePrefix, TypeOK, VideosTyped
  <2>2. del'[d].pc \in {"object", "row"} =>
          del'[d].pc = "object" /\ del'[d].video = v /\ (v \in late' \/ hls'[v] = {})
    BY <1>0, <1>2, <2>1 DEF DeletePrefix, DeleteGoes, DeleteEnds, IdleDel, Deletes, TypeOK, VideosTyped
  <2> HIDE DEF v
  <2>3. QED
    BY <1>0, <1>1, <2>1, <2>2 DEF DeletionInv, DeletedLeavesNothing
<1>3. CASE DeleteObject(d)
  <2>1. /\ v \in Videos /\ UNCHANGED <<status, hls, purged, late>>
        /\ \A w \in Videos : original'[w] \in {original[w], "absent"}
    BY <1>0, <1>3 DEF DeleteObject, TypeOK, VideosTyped
  <2>2. del'[d].pc \in {"object", "row"} =>
          del[d].pc = "object" /\ del'[d].video = v /\ original'[v] = "absent"
    BY <1>0, <1>3, <2>1
    DEF DeleteObject, DeleteGoes, DeleteEnds, IdleDel, Deletes, TypeOK, VideosTyped
  <2> HIDE DEF v
  <2>3. QED
    BY <1>0, <1>1, <2>1, <2>2 DEF DeletionInv, DeletedLeavesNothing, v
<1>4. CASE DeleteRow(d)
  <2>1. /\ UNCHANGED <<hls, original, purged, late>>
        /\ del[d].pc = "row" /\ del'[d].pc = "idle"
        /\ \A w \in Videos : w # v => status'[w] = status[w]
    BY <1>0, <1>4 DEF DeleteRow, DeleteEnds, IdleDel, TypeOK, VideosTyped
  <2>2. QED
    BY <1>0, <1>1, <2>1 DEF DeletionInv, DeletedLeavesNothing
<1>5. CASE DeleteFind(d) \/ DeleteLost(d) \/ \E i \in DeleteTasks : DeleteStart(d, i)
  <2>1. UNCHANGED <<status, hls, original, purged, late>> /\ del'[d].pc \in {"idle", "find", "prefix"}
    BY <1>0, <1>5
    DEF DeleteFind, DeleteLost, DeleteStart, DeleteGoes, DeleteEnds, IdleDel, Deletes
  <2>2. QED
    BY <1>0, <1>1, <2>1 DEF DeletionInv, DeletedLeavesNothing
<1>6. QED
  BY <1>2, <1>3, <1>4, <1>5 DEF DeleteStep

LEMMA NextDeletion == TypeOK /\ DeletionInv /\ [Next]_vars => DeletionInv'
<1> SUFFICES ASSUME TypeOK, DeletionInv, [Next]_vars PROVE DeletionInv'
  OBVIOUS
<1>0. \A d \in Deleters : del[d].pc # "idle" => del[d].video \in Videos
  BY DEF TypeOK, DeletesTyped
<1>1. ASSUME UNCHANGED <<hls, original, late, del, purged>>,
             \A v \in Videos : status'[v] = Deleted => status[v] = Deleted
      PROVE  DeletionInv'
  BY <1>0, <1>1, DeletionKept
<1>2. ASSUME NEW v \in Videos, ClientUpload(v) PROVE DeletionInv'
  <2>1. /\ UNCHANGED <<status, hls, del, purged>> /\ late \subseteq late'
        /\ \A w \in Videos : w # v => original'[w] = original[w]
        /\ purged[v] => v \in late'
    BY <1>2 DEF ClientUpload, BehindADelete, TypeOK, VideosTyped
  <2>2. QED
    BY <1>0, <2>1, DeletionKept
<1>3. ASSUME NEW v \in Videos, Initiate(v) \/ Age(v) \/ ProcessReset(v) \/ ProcessRevive(v)
      PROVE  DeletionInv'
  BY <1>1, <1>3, VideoStatusNames DEF Initiate, Age, ProcessReset, ProcessRevive, TypeOK, VideosTyped
<1>4. ASSUME NEW c \in Callers, CallStep(c) PROVE DeletionInv'
  BY <1>1, <1>4, VideoStatusNames
  DEF CallStep, CompleteFind, CompleteHead, CompleteRange, CompleteReject, CompleteTx,
      UpdateStatusIf, TypeOK, VideosTyped
<1>5. ASSUME NEW p \in Procs, ProcessStep(p) PROVE DeletionInv'
  BY <1>5, ProcessDeletion
<1>6. ASSUME NEW d \in Deleters,
             DeleteStep(d) \/ DeleteLost(d) \/ \E i \in DeleteTasks : DeleteStart(d, i)
      PROVE  DeletionInv'
  BY <1>6, DeleteDeletion
<1>7. ASSUME NEW i \in DeleteTasks, DeleteReset(i) \/ DeleteRevive(i) PROVE DeletionInv'
  BY <1>1, <1>7 DEF DeleteReset, DeleteRevive
<1>8. CASE SweepStep \/ SweepLost
  BY <1>1, <1>8, VideoStatusNames
  DEF SweepStep, SweepFindStale, SweepFindFailed, SweepMark, SweepCreate, SweepLost, BulkMarkFailed,
      TypeOK, VideosTyped
<1>9. CASE UNCHANGED vars
  BY <1>1, <1>9 DEF vars
<1>10. QED
  BY <1>2, <1>3, <1>4, <1>5, <1>6, <1>7, <1>8, <1>9 DEF Next

\* Once a video's row is gone nothing of it is left in storage, however often
\* its deletes failed, timed out, crashed or overlapped, but what a client or an
\* uploader stored behind a delete's back or the storage refused to delete.
THEOREM DeletionsAreComplete == Spec => []DeletedLeavesNothing
<1>1. Init => DeletionInv
  BY VideoStatusNames DEF Init, IdleDel, DeletionInv, DeletedLeavesNothing
<1>2. DeletionInv => DeletedLeavesNothing
  BY DEF DeletionInv
<1>3. QED
  BY <1>1, <1>2, NextDeletion, TypeCorrect, PTL DEF Spec

----------------------------------------------------------------------------
(* Why a PROCESSED video is deleted                                         *)

\* A calm step follows a calm state, and is none that needs a fault.
LEMMA CalmBefore ==
  ASSUME TypeOK, [Next]_vars, Calm'
  PROVE  Calm /\ ~Fault
<1>1. ~Fault
  BY DEF Calm, Fault, TypeOK
<1>2. UNCHANGED faults
  BY <1>1
  DEF Next, vars, Initiate, ClientUpload, Age, ProcessReset, ProcessRevive, CallStep, CompleteFind,
      CompleteHead, CompleteRange, CompleteReject, CompleteTx, ProcessStep, HandlerStep,
      ProcessStart, ProcessLoad, ProcessClaim, ProcessProbe, TranscodeEnds, ProcessJoin,
      ProcessFinalize, ProcessFail, ProcessCleanup, UploadNext, DetachedUploaderEnds,
      PublishToken, ProcessTimesOut, ProcessLost, DeleteStep, DeleteStart, DeleteFind,
      DeletePrefix, DeleteObject, DeleteRow, DeleteLost, DeleteReset, DeleteRevive, SweepStep,
      SweepFindStale, SweepFindFailed, SweepMark, SweepCreate, SweepLost
<1>3. QED
  BY <1>1, <1>2 DEF Calm

\* Videos do not grow younger, nor come back.
LEMMA ReasonsLast ==
  ASSUME TypeOK, VideoInv, [Next]_vars, NEW v \in Videos
  PROVE  (Old(v) => Old(v)') /\ (v \in Reasoned => v \in Reasoned')
<1>1. Old(v) => Old(v)'
  <2>1. CASE UNCHANGED clock
    BY <2>1 DEF Old
  <2>2. ASSUME NEW w \in Videos, Age(w) PROVE Old(v) => Old(v)'
    BY <2>2, VideoAssumption DEF Age, Old, TypeOK, VideosTyped
  <2>3. QED
    BY <2>1, <2>2
    DEF Next, vars, Initiate, ClientUpload, ProcessReset, ProcessRevive, CallStep, CompleteFind,
        CompleteHead, CompleteRange, CompleteReject, CompleteTx, ProcessStep, HandlerStep,
        ProcessStart, ProcessLoad, ProcessClaim, ProcessProbe, TranscodeEnds, ProcessJoin,
        ProcessFinalize, ProcessFail, ProcessCleanup, UploadNext, DetachedUploaderEnds,
        PublishToken, ProcessTimesOut, ProcessLost, DeleteStep, DeleteStart, DeleteFind,
        DeletePrefix, DeleteObject, DeleteRow, DeleteLost, DeleteReset, DeleteRevive, SweepStep,
        SweepFindStale, SweepFindFailed, SweepMark, SweepCreate, SweepLost
<1>2. status[v] \in {Failed, Deleted} => status'[v] \in {Failed, Deleted}
  <2>1. Successors(Failed) = {Deleted} /\ Successors(Deleted) = {}
    BY VideoStatusNames DEF Successors, VideoStatus
  <2>2. QED
    BY <2>1, StatusStep
<1>3. QED
  BY <1>1, <1>2 DEF Reasoned

\* The DeleteVideo rows that one transaction creates, and those there were.
LEMMA CreatedReasons ==
  ASSUME DeleteRowsTyped, NEW requests, CreateDeletes(requests),
         \A x \in requests : x[1] \in Reasoned',
         \A i \in DeleteTasks : dtask[i].row.status # NoRow => dtask[i].video \in Reasoned'
  PROVE  \A i \in DeleteTasks : dtask'[i].row.status # NoRow => dtask'[i].video \in Reasoned'
<1>1. PICK ids :
        \E g \in [ids -> requests] :
          dtask' = [i \in DeleteTasks |->
                      IF i \in ids THEN [row |-> TaskRow(Pending, 0), video |-> g[i][1]]
                                   ELSE dtask[i]]
  BY DEF CreateDeletes
<1>2. PICK g \in [ids -> requests] :
        dtask' = [i \in DeleteTasks |->
                    IF i \in ids THEN [row |-> TaskRow(Pending, 0), video |-> g[i][1]]
                                 ELSE dtask[i]]
  BY <1>1
<1>3. ASSUME NEW i \in DeleteTasks, dtask'[i].row.status # NoRow
      PROVE  dtask'[i].video \in Reasoned'
  <2>1. CASE i \in ids
    <3>1. dtask'[i].video = g[i][1] /\ g[i] \in requests
      BY <1>2, <2>1
    <3>2. QED
      BY <3>1
  <2>2. CASE i \notin ids
    BY <1>2, <1>3, <2>2
  <2>3. QED
    BY <2>1, <2>2
<1>4. QED
  BY <1>3

\* What is deleted next has been scheduled with a reason, or is at work with one.
LEMMA DeletesReason ==
  ASSUME TypeOK, VideoInv, DeletionHasReason, [Next]_vars, Calm'
  PROVE  /\ \A i \in DeleteTasks : dtask'[i].row.status # NoRow => dtask'[i].video \in Reasoned'
         /\ \A d \in Deleters : del'[d].pc # "idle" => del'[d].video \in Reasoned'
<1> USE CalmBefore
<1>1. /\ \A i \in DeleteTasks : dtask[i].row.status # NoRow =>
            dtask[i].video \in Videos /\ dtask[i].video \in Reasoned'
      /\ \A d \in Deleters : del[d].pc # "idle" =>
            del[d].video \in Videos /\ del[d].task \in DeleteTasks /\ del[d].video \in Reasoned'
  BY ReasonsLast DEF DeletionHasReason, TypeOK, DeleteRowsTyped, DeletesTyped
<1>2. CASE UNCHANGED <<dtask, del>>
  BY <1>1, <1>2
<1>3. ASSUME NEW requests, CreateDeletes(requests), UNCHANGED del,
             \A x \in requests : x[1] \in Reasoned'
      PROVE  /\ \A i \in DeleteTasks : dtask'[i].row.status # NoRow => dtask'[i].video \in Reasoned'
             /\ \A d \in Deleters : del'[d].pc # "idle" => del'[d].video \in Reasoned'
  BY <1>1, <1>3, CreatedReasons DEF TypeOK
<1>4. ASSUME NEW c \in Callers, CallStep(c) PROVE UNCHANGED <<dtask, del>>
  BY <1>4 DEF CallStep, CompleteFind, CompleteHead, CompleteRange, CompleteReject, CompleteTx,
              DeletionHasReason
<1>5. ASSUME NEW p \in Procs, ProcessFail(p)
      PROVE  /\ \A i \in DeleteTasks : dtask'[i].row.status # NoRow => dtask'[i].video \in Reasoned'
             /\ \A d \in Deleters : del'[d].pc # "idle" => del'[d].video \in Reasoned'
  <2> DEFINE v == run[p].video
  <2>1. v \in Videos /\ run[p].pc = "fail"
    BY <1>5, RunFields DEF ProcessFail, TypeOK
  <2>2. status[v] \in {Processing, Failed, Deleted}
    <3>1. claims[v] = 1 /\ status[v] # Processed
      BY <2>1 DEF VideoInv, RunsClaimed, Claimed, RunStates, DeletionHasReason
    <3>2. QED
      BY <2>1, <3>1 DEF VideoInv, ClaimsCounted, TypeOK, VideosTyped, VideoStatus
  <2>3. status' = UpdateStatusIf(v, Processing, Failed) /\ CreateDeletes({<<v, "failed">>})
        /\ UNCHANGED del
    BY <1>5 DEF ProcessFail
  <2>4. status'[v] \in {Failed, Deleted}
    BY <2>1, <2>2, <2>3 DEF UpdateStatusIf, TypeOK, VideosTyped
  <2>5. \A x \in {<<v, "failed">>} : x[1] \in Reasoned'
    BY <2>1, <2>4 DEF Reasoned
  <2>6. QED
    BY <1>3, <2>3, <2>5
<1>6. ASSUME NEW p \in Procs, ProcessStep(p), ~ProcessFail(p) PROVE UNCHANGED <<dtask, del>>
  BY <1>6
  DEF ProcessStep, HandlerStep, ProcessStart, ProcessLoad, ProcessClaim, ProcessProbe,
      TranscodeEnds, ProcessJoin, ProcessFinalize, ProcessCleanup, UploadNext,
      DetachedUploaderEnds, PublishToken, ProcessTimesOut, ProcessLost
<1>7. ASSUME NEW d \in Deleters, NEW i \in DeleteTasks, DeleteStart(d, i)
      PROVE  /\ \A j \in DeleteTasks : dtask'[j].row.status # NoRow => dtask'[j].video \in Reasoned'
             /\ \A e \in Deleters : del'[e].pc # "idle" => del'[e].video \in Reasoned'
  <2>1. dtask[i].video \in Reasoned'
    BY <1>1, <1>7, StatusNames DEF DeleteStart
  <2>2. /\ dtask'[i].video = dtask[i].video /\ \A j \in DeleteTasks : j # i => dtask'[j] = dtask[j]
        /\ del'[d].video = dtask[i].video /\ \A e \in Deleters : e # d => del'[e] = del[e]
    BY <1>7 DEF DeleteStart, TypeOK, DeleteRowsTyped, DeletesTyped
  <2>3. QED
    BY <1>1, <2>1, <2>2
<1>8. ASSUME NEW d \in Deleters, DeleteStep(d)
      PROVE  /\ \A j \in DeleteTasks : dtask'[j].row.status # NoRow => dtask'[j].video \in Reasoned'
             /\ \A e \in Deleters : del'[e].pc # "idle" => del'[e].video \in Reasoned'
  <2>1. del[d].pc # "idle"
    BY <1>8 DEF DeleteStep, DeleteFind, DeletePrefix, DeleteObject, DeleteRow
  <2>2. del[d].video \in Reasoned'
    BY <1>1, <2>1
  <2>3. /\ \A e \in Deleters : e # d => del'[e] = del[e]
        /\ del'[d].pc # "idle" => del'[d].video = del[d].video
        /\ \A j \in DeleteTasks : dtask'[j] = dtask[j] \/ dtask'[j].video = del[d].video
    <3>1. CASE \E l \in {"prefix", "object", "row"} : DeleteGoes(d, l) /\ UNCHANGED dtask
      BY <3>1 DEF DeleteGoes, TypeOK, DeletesTyped, Deletes
    <3>2. CASE \E result \in TaskResult : DeleteEnds(d, result)
      BY <3>2 DEF DeleteEnds, TypeOK, DeletesTyped, DeleteRowsTyped, IdleDel
    <3>3. QED
      BY <1>8, <3>1, <3>2
      DEF DeleteStep, DeleteFind, DeletePrefix, DeleteObject, DeleteRow, TaskResult
  <2>4. QED
    BY <1>1, <2>2, <2>3
<1>9. ASSUME NEW i \in DeleteTasks, DeleteReset(i)
      PROVE  /\ \A j \in DeleteTasks : dtask'[j].row.status # NoRow => dtask'[j].video \in Reasoned'
             /\ \A e \in Deleters : del'[e].pc # "idle" => del'[e].video \in Reasoned'
  <2>1. /\ dtask'[i].video = dtask[i].video /\ \A j \in DeleteTasks : j # i => dtask'[j] = dtask[j]
        /\ dtask[i].row.status # NoRow /\ UNCHANGED del
    BY <1>9, StatusNames DEF DeleteReset, TypeOK, DeleteRowsTyped
  <2>2. QED
    BY <1>1, <2>1
<1>10. ASSUME SweepCreate
       PROVE  /\ \A j \in DeleteTasks : dtask'[j].row.status # NoRow => dtask'[j].video \in Reasoned'
              /\ \A e \in Deleters : del'[e].pc # "idle" => del'[e].video \in Reasoned'
  <2>1. \A x \in sweep.stale \cup sweep.failed : x[1] \in Videos /\ Old(x[1])
    BY DEF DeletionHasReason, TypeOK, Sweeps, Reads
  <2>2. \A x \in sweep.stale \cup sweep.failed : x[1] \in Reasoned'
    BY <2>1, ReasonsLast DEF Reasoned
  <2>3. QED
    BY <1>3, <1>10, <2>2 DEF SweepCreate
<1>11. \/ UNCHANGED <<dtask, del>>
       \/ \E c \in Callers : CallStep(c)
       \/ \E p \in Procs : ProcessStep(p)
       \/ \E d \in Deleters : DeleteStep(d) \/ \E i \in DeleteTasks : DeleteStart(d, i)
       \/ \E i \in DeleteTasks : DeleteReset(i)
       \/ SweepCreate
  BY DEF Next, vars, Initiate, ClientUpload, Age, ProcessReset, ProcessRevive, DeleteLost,
         DeleteRevive, SweepStep, SweepFindStale, SweepFindFailed, SweepMark, SweepLost
<1>12. QED
  BY <1>2, <1>4, <1>5, <1>6, <1>7, <1>8, <1>9, <1>10, <1>11

\* A run that has claimed its video and not finished it is the only one, and so
\* is the only one that could.
LEMMA RunsUnfinished ==
  ASSUME TypeOK, TypeOK', VideoInv, VideoInv', DeletionHasReason, [Next]_vars, Calm',
         NEW q \in Procs, run'[q].pc \in RunStates \ {"idle", "load", "claim", "cleanup"}
  PROVE  status'[run'[q].video] # Processed
<1> USE CalmBefore
<1> DEFINE w == run'[q].video
           Unfinished == RunStates \ {"idle", "load", "claim", "cleanup"}
<1>1. w \in Videos
  BY RunFields DEF TypeOK, RunsTyped, IdleRun
<1>2. CASE status[w] # Processed /\ status'[w] = Processed
  <2>1. PICK p \in Procs : ProcessFinalize(p)
    <3>1. ~UNCHANGED status
      BY <1>2
    <3>2. ASSUME NEW v \in Videos, Initiate(v) PROVE FALSE
      BY <1>1, <1>2, <3>2, VideoStatusNames DEF Initiate, TypeOK, VideosTyped
    <3>3. ASSUME NEW c \in Callers, CompleteTx(c) PROVE FALSE
      BY <1>1, <1>2, <3>3, VideoStatusNames DEF CompleteTx, UpdateStatusIf, TypeOK, VideosTyped
    <3>4. ASSUME NEW p \in Procs, ProcessClaim(p) \/ ProcessFail(p) PROVE FALSE
      BY <1>1, <1>2, <3>4, VideoStatusNames
      DEF ProcessClaim, ProcessFail, UpdateStatusIf, TypeOK, VideosTyped
    <3>5. ASSUME NEW d \in Deleters, DeleteRow(d) PROVE FALSE
      BY <1>1, <1>2, <3>5, VideoStatusNames DEF DeleteRow, TypeOK, VideosTyped
    <3>6. ASSUME SweepMark PROVE FALSE
      BY <1>1, <1>2, <3>6, VideoStatusNames DEF SweepMark, BulkMarkFailed
    <3>7. QED
      BY <3>1, <3>2, <3>3, <3>4, <3>5, <3>6
      DEF Next, vars, ClientUpload, Age, ProcessReset, ProcessRevive, CallStep, CompleteFind,
          CompleteHead, CompleteRange, CompleteReject, ProcessStep, HandlerStep, ProcessStart,
          ProcessLoad, ProcessProbe, TranscodeEnds, ProcessJoin, ProcessCleanup, UploadNext,
          DetachedUploaderEnds, PublishToken, ProcessTimesOut, ProcessLost, DeleteStep,
          DeleteStart, DeleteFind, DeletePrefix, DeleteObject, DeleteLost, DeleteReset,
          DeleteRevive, SweepStep, SweepFindStale, SweepFindFailed, SweepCreate, SweepLost
  <2>2. /\ run[p] \in Runs /\ run[p] # IdleRun /\ run[p].pc = "finalize"
        /\ run[p].video \in Videos /\ Claimed(run[p])
    BY <2>1, RunFields DEF ProcessFinalize, TypeOK, Claimed, RunStates
  <2>3. run[p].video = w
    BY <1>1, <1>2, <2>1, <2>2
    DEF ProcessFinalize, MarkProcessed, UpdateStatusIf, TypeOK, VideosTyped
  <2>4. status[w] = Processing /\ RunGoes(p, "cleanup")
    BY <1>1, <1>2, <2>1, <2>3
    DEF ProcessFinalize, MarkProcessed, UpdateStatusIf, TypeOK, VideosTyped
  <2>5. /\ run'[p].pc = "cleanup"
        /\ \A o \in Procs : o # p => run'[o] = run[o]
    <3>1. /\ run'[p] = Reap([run[p] EXCEPT !.pc = "cleanup"])
          /\ \A o \in Procs : o # p => run'[o] = run[o]
      BY <2>4 DEF RunGoes, SetRun, TypeOK, RunsTyped
    <3>2. [run[p] EXCEPT !.pc = "cleanup"].pc = "cleanup"
      BY <2>2 DEF Runs
    <3>3. QED
      BY <3>1, <3>2 DEF Reap
  <2>6. q # p /\ run'[q] = run[q]
    BY <2>5
  <2>7. Claimed(run[q]) /\ run[q].video = run[p].video
    BY <2>3, <2>6 DEF Claimed
  <2>8. QED
    BY <2>2, <2>6, <2>7 DEF VideoInv, OneRunPerClaim
<1>3. CASE status[w] = Processed /\ status'[w] = Processed
  <2>1. run[q].pc \notin Unfinished \/ run[q].video # w
    BY <1>3 DEF DeletionHasReason
  <2>2. ASSUME NEW p \in Procs, ProcessStep(p), run'[q] # run[q] PROVE FALSE
    <3>0. p = q
      BY <2>2, RunFields
      DEF ProcessStep, HandlerStep, ProcessStart, ProcessLoad, ProcessClaim, ProcessProbe,
          TranscodeEnds, ProcessJoin, ProcessFinalize, ProcessFail, ProcessCleanup, UploadNext,
          DetachedUploaderEnds, PublishToken, ProcessTimesOut, ProcessLost, RunEnds, RunGoes,
          SetRun, TypeOK, RunsTyped
    <3> DEFINE r == run[p]
    <3>1. r \in Runs
      BY RunFields DEF TypeOK
    <3>2. ASSUME NEW x, SetRun(p, x), x.pc \in Unfinished => r.pc \in Unfinished /\ x.video = r.video
          PROVE  FALSE
      <4>1. run'[p] = Reap(x)
        BY <3>2 DEF SetRun, TypeOK, RunsTyped
      <4>2. run'[p] = x
        BY <3>0, <4>1 DEF Reap, IdleRun
      <4>3. QED
        BY <2>1, <3>0, <3>2, <4>2
    <3>3. ASSUME NEW l \in RunStates, RunGoes(p, l), l \in Unfinished => r.pc \in Unfinished
          PROVE  FALSE
      <4>1. [r EXCEPT !.pc = l].pc = l /\ [r EXCEPT !.pc = l].video = r.video
        BY <3>1 DEF Runs
      <4>2. QED
        BY <3>2, <3>3, <4>1 DEF RunGoes
    <3>4. ASSUME NEW result, RunEnds(p, result) PROVE FALSE
      BY <3>3, <3>4 DEF RunEnds, RunStates
    <3>5. CASE ProcessClaim(p)
      <4>1. r.video = w /\ status' = UpdateStatusIf(r.video, Uploaded, Processing) /\ status' # status
        <5>1. r.video \in Videos /\ r.pc = "claim"
          BY <3>5, RunFields DEF ProcessClaim, TypeOK
        <5>2. CASE RunGoes(p, "probe") /\ status' # status
          <6>1. "probe" \in RunStates
            BY DEF RunStates
          <6>2. run'[p] \in {[r EXCEPT !.pc = "probe"], IdleRun}
            BY <5>1, <5>2, <6>1, RunAdvanced DEF TypeOK
          <6>3. run'[p].video = r.video
            BY <3>0, <3>1, <6>2 DEF Runs, IdleRun
          <6>4. QED
            BY <3>0, <3>5, <5>2, <6>3 DEF ProcessClaim
        <5>3. QED
          BY <3>4, <3>5, <5>2 DEF ProcessClaim
      <4>2. QED
        BY <1>1, <1>3, <4>1, VideoStatusNames DEF UpdateStatusIf, TypeOK, VideosTyped
    <3>6. CASE ProcessProbe(p)
      <4>1. PICK u \in UploaderAt :
              [StreamBegins(r, LowInLadder) EXCEPT !.pc = "transcode"]
                = [r EXCEPT !.pc = "transcode", !.up = u, !.pub = "waiting"]
        BY <3>1, StreamBegun
      <4>2. [r EXCEPT !.pc = "transcode", !.up = u, !.pub = "waiting"].video = r.video
        BY <3>1 DEF Runs
      <4>3. QED
        BY <3>2, <3>3, <3>6, <4>1, <4>2 DEF ProcessProbe, RunStates
    <3>7. CASE TranscodeEnds(p)
      <4>1. r.pc = "transcode"
        BY <3>7 DEF TranscodeEnds
      <4>2. \A l \in RunStates : [UploaderOver(r) EXCEPT !.pc = l].video = r.video
        BY <3>1, RunsWritten
      <4>3. QED
        BY <3>2, <3>7, <4>1, <4>2 DEF TranscodeEnds, RunStates
    <3>8. CASE UploadNext(p)
      <4>1. r.up \in UploaderAt => AfterUpload(r).pc = r.pc /\ AfterUpload(r).video = r.video
        BY <3>1 DEF AfterUpload, Runs, UploaderAt
      <4>2. QED
        BY <2>2, <3>2, <3>8, <4>1 DEF UploadNext
    <3>9. CASE DetachedUploaderEnds(p)
      <4>1. UploaderOver(r).pc = r.pc /\ UploaderOver(r).video = r.video
        BY <3>1 DEF UploaderOver, Runs
      <4>2. QED
        BY <3>2, <3>9, <4>1 DEF DetachedUploaderEnds
    <3>10. CASE PublishToken(p)
      <4>1. [r EXCEPT !.pub = "ended"].pc = r.pc /\ [r EXCEPT !.pub = "ended"].video = r.video
        BY <3>1 DEF Runs
      <4>2. QED
        BY <3>2, <3>10, <4>1 DEF PublishToken
    <3>11. CASE ProcessLost(p)
      BY <3>0, <3>11 DEF ProcessLost, TypeOK, RunsTyped, IdleRun
    <3>12. CASE \E v \in Videos : ProcessStart(p, v)
      BY <3>0, <3>12 DEF ProcessStart, TypeOK, RunsTyped, IdleRun
    <3>13. CASE ProcessLoad(p) \/ ProcessJoin(p) \/ ProcessFinalize(p) \/ ProcessFail(p)
                  \/ ProcessCleanup(p) \/ ProcessTimesOut(p)
      BY <3>3, <3>4, <3>13
      DEF ProcessLoad, ProcessJoin, ProcessFinalize, ProcessFail, ProcessCleanup, ProcessTimesOut,
          RunStates
    <3>14. QED
      BY <2>2, <3>5, <3>6, <3>7, <3>8, <3>9, <3>10, <3>11, <3>12, <3>13 DEF ProcessStep, HandlerStep
  <2>3. run'[q] # run[q]
    BY <2>1
  <2>4. QED
    BY <2>2, <2>3
    DEF Next, vars, Initiate, ClientUpload, Age, ProcessReset, ProcessRevive, CallStep,
        CompleteFind, CompleteHead, CompleteRange, CompleteReject, CompleteTx, DeleteStep,
        DeleteStart, DeleteFind, DeletePrefix, DeleteObject, DeleteRow, DeleteLost, DeleteReset,
        DeleteRevive, SweepStep, SweepFindStale, SweepFindFailed, SweepMark, SweepCreate, SweepLost
<1>4. QED
  BY <1>2, <1>3

LEMMA NextReasons ==
  ASSUME TypeOK, TypeOK', VideoInv, VideoInv', DeletionHasReason, [Next]_vars
  PROVE  DeletionHasReason'
<1> SUFFICES ASSUME Calm' PROVE DeletionHasReason'
  BY DEF DeletionHasReason
<1> USE CalmBefore
<1>1. \A v \in Videos : original'[v] \in {"absent", "good"}
  <2>1. \A v \in Videos : original'[v] \in {original[v], "absent", "good"}
    <3>1. CASE UNCHANGED original
      BY <3>1
    <3>2. ASSUME NEW v \in Videos, ClientUpload(v)
          PROVE  \A w \in Videos : original'[w] \in {original[w], "absent", "good"}
      BY <3>2 DEF ClientUpload, TypeOK, VideosTyped, Calm
    <3>3. ASSUME NEW p \in Procs, ProcessCleanup(p)
          PROVE  \A w \in Videos : original'[w] \in {original[w], "absent", "good"}
      BY <3>3 DEF ProcessCleanup, TypeOK, VideosTyped
    <3>4. ASSUME NEW d \in Deleters, DeleteObject(d)
          PROVE  \A w \in Videos : original'[w] \in {original[w], "absent", "good"}
      BY <3>4 DEF DeleteObject, TypeOK, VideosTyped
    <3>5. QED
      BY <3>1, <3>2, <3>3, <3>4
      DEF Next, vars, Initiate, Age, ProcessReset, ProcessRevive, CallStep, CompleteFind,
          CompleteHead, CompleteRange, CompleteReject, CompleteTx, ProcessStep, HandlerStep,
          ProcessStart, ProcessLoad, ProcessClaim, ProcessProbe, TranscodeEnds, ProcessJoin,
          ProcessFinalize, ProcessFail, UploadNext, DetachedUploaderEnds, PublishToken,
          ProcessTimesOut, ProcessLost, DeleteStep, DeleteStart, DeleteFind, DeletePrefix,
          DeleteRow, DeleteLost, DeleteReset, DeleteRevive, SweepStep, SweepFindStale,
          SweepFindFailed, SweepMark, SweepCreate, SweepLost
  <2>2. QED
    BY <2>1 DEF DeletionHasReason
<1>2. \A c \in Callers : api'[c].pc # "reject"
  <2>1. CASE UNCHANGED api
    BY <2>1 DEF DeletionHasReason
  <2>2. ASSUME NEW c \in Callers, CallStep(c) PROVE \A b \in Callers : api'[b].pc # "reject"
    <3>1. api[c].pc # "idle" => original[api[c].video] \in {"absent", "good"}
      BY DEF DeletionHasReason, TypeOK, CallsTyped
    <3>2. \/ CallEnds(c) \/ CallGoes(c, "range") \/ CallGoes(c, "tx")
          \/ \E v \in Videos : api' = [api EXCEPT ![c] = [pc |-> "head", video |-> v]]
      BY <2>2, <3>1 DEF CallStep, CompleteFind, CompleteHead, CompleteRange, CompleteReject, CompleteTx
    <3>3. QED
      BY <3>2 DEF CallEnds, CallGoes, IdleCall, DeletionHasReason, TypeOK, CallsTyped, Calls
  <2>3. QED
    BY <2>1, <2>2
    DEF Next, vars, Initiate, ClientUpload, Age, ProcessReset, ProcessRevive, ProcessStep,
        HandlerStep, ProcessStart, ProcessLoad, ProcessClaim, ProcessProbe, TranscodeEnds,
        ProcessJoin, ProcessFinalize, ProcessFail, ProcessCleanup, UploadNext,
        DetachedUploaderEnds, PublishToken, ProcessTimesOut, ProcessLost, DeleteStep, DeleteStart,
        DeleteFind, DeletePrefix, DeleteObject, DeleteRow, DeleteLost, DeleteReset, DeleteRevive,
        SweepStep, SweepFindStale, SweepFindFailed, SweepMark, SweepCreate, SweepLost
<1>3. \A x \in sweep'.stale \cup sweep'.failed : Old(x[1])'
  <2>1. \A x \in sweep'.stale \cup sweep'.failed : x[1] \in Videos /\ Old(x[1])
    <3>1. CASE sweep' \in {sweep, IdleSweep, [sweep EXCEPT !.pc = "create"]}
      BY <3>1 DEF IdleSweep, DeletionHasReason, TypeOK, Sweeps, Reads
    <3>2. CASE SweepFindStale
      BY <3>2 DEF SweepFindStale, FindStale
    <3>3. CASE SweepFindFailed
      <4>1. sweep'.stale = sweep.stale /\ sweep'.failed = FindFailedBefore
        BY <3>3 DEF SweepFindFailed, TypeOK, Sweeps
      <4>2. \A x \in FindFailedBefore : x[1] \in Videos /\ Old(x[1])
        BY DEF FindFailedBefore
      <4>3. \A x \in sweep.stale : x[1] \in Videos /\ Old(x[1])
        BY DEF DeletionHasReason, TypeOK, Sweeps, Reads
      <4>4. QED
        BY <4>1, <4>2, <4>3
    <3>4. QED
      BY <3>1, <3>2, <3>3
      DEF Next, vars, Initiate, ClientUpload, Age, ProcessReset, ProcessRevive, CallStep,
          CompleteFind, CompleteHead, CompleteRange, CompleteReject, CompleteTx, ProcessStep,
          HandlerStep, ProcessStart, ProcessLoad, ProcessClaim, ProcessProbe, TranscodeEnds,
          ProcessJoin, ProcessFinalize, ProcessFail, ProcessCleanup, UploadNext,
          DetachedUploaderEnds, PublishToken, ProcessTimesOut, ProcessLost, DeleteStep,
          DeleteStart, DeleteFind, DeletePrefix, DeleteObject, DeleteRow, DeleteLost, DeleteReset,
          DeleteRevive, SweepStep, SweepMark, SweepCreate, SweepLost
  <2>2. QED
    BY <2>1, ReasonsLast
<1>4. \A p \in Procs : run'[p].pc \in RunStates \ {"idle", "load", "claim", "cleanup"}
                         => status'[run'[p].video] # Processed
  BY RunsUnfinished
<1>5. QED
  BY <1>1, <1>2, <1>3, <1>4, DeletesReason DEF DeletionHasReason

\* A PROCESSED video that is deleted while nothing has failed is a day old.
LEMMA ProcessedStep ==
  ASSUME TypeOK, VideoInv, DeletionHasReason, [Next]_vars, Calm,
         NEW v \in Videos, status[v] = Processed, status'[v] # Processed
  PROVE  Old(v)
<1>1. status'[v] = Deleted
  BY StatusStep, VideoStatusNames DEF Successors
<1>2. PICK d \in Deleters : DeleteRow(d)
  <2>1. ~UNCHANGED status
    BY <1>1, VideoStatusNames
  <2>2. ASSUME NEW w \in Videos, Initiate(w) PROVE FALSE
    BY <1>1, <2>2, VideoStatusNames DEF Initiate, TypeOK, VideosTyped
  <2>3. ASSUME NEW c \in Callers, CompleteTx(c) PROVE FALSE
    BY <1>1, <2>3, VideoStatusNames DEF CompleteTx, UpdateStatusIf, TypeOK, VideosTyped
  <2>4. ASSUME NEW p \in Procs, ProcessClaim(p) \/ ProcessFail(p) \/ ProcessFinalize(p) PROVE FALSE
    BY <1>1, <2>4, VideoStatusNames
    DEF ProcessClaim, ProcessFail, ProcessFinalize, MarkProcessed, UpdateStatusIf, TypeOK, VideosTyped
  <2>5. ASSUME SweepMark PROVE FALSE
    BY <1>1, <2>5, VideoStatusNames DEF SweepMark, BulkMarkFailed
  <2>6. QED
    BY <2>1, <2>2, <2>3, <2>4, <2>5
    DEF Next, vars, ClientUpload, Age, ProcessReset, ProcessRevive, CallStep, CompleteFind,
        CompleteHead, CompleteRange, CompleteReject, ProcessStep, HandlerStep, ProcessStart,
        ProcessLoad, ProcessProbe, TranscodeEnds, ProcessJoin, ProcessCleanup, UploadNext,
        DetachedUploaderEnds, PublishToken, ProcessTimesOut, ProcessLost, DeleteStep,
        DeleteStart, DeleteFind, DeletePrefix, DeleteObject, DeleteLost, DeleteReset,
        DeleteRevive, SweepStep, SweepFindStale, SweepFindFailed, SweepCreate, SweepLost
<1>3. del[d].pc # "idle" /\ del[d].video = v
  BY <1>1, <1>2 DEF DeleteRow, TypeOK, VideosTyped, DeletesTyped
<1>4. QED
  BY <1>3, VideoStatusNames DEF DeletionHasReason, Reasoned

\* As long as nothing fails and clients store usable files only, a PROCESSED
\* video is not deleted before it is a day old: no rejection, failure or retry
\* has scheduled a delete for it, and the sweep takes what is old.
THEOREM ProcessedVideosLastADay == Spec => ProcessedIsKeptForADay
<1>1. Init => DeletionHasReason
  BY DEF Init, DeletionHasReason, IdleCall, IdleRun, IdleDel, IdleSweep, TaskRow
<1>2. TypeOK /\ TypeOK' /\ VideoInv /\ VideoInv' /\ DeletionHasReason /\ [Next]_vars
        => DeletionHasReason'
  BY NextReasons
<1>3. TypeOK /\ VideoInv /\ DeletionHasReason /\ [Next]_vars =>
        [\A v \in Videos :
           status[v] = Processed /\ status'[v] # Processed /\ Uploads = {"good"} /\ faults = 0
             => Old(v)]_vars
  BY ProcessedStep DEF Calm
<1>4. QED
  BY <1>1, <1>2, <1>3, TypeCorrect, VideoInvariant, PTL DEF Spec, ProcessedIsKeptForADay
=============================================================================
