----------------------- MODULE VideoRefinement_proofs -----------------------
(***************************************************************************)
(* What VideoLifecycle implements: the life of a video that its users are   *)
(* shown (VideoPromise), and the delivery at least once of the ProcessVideo  *)
(* rows it schedules (TaskDelivery), as TaskSystem promises it.             *)
(***************************************************************************)
EXTENDS VideoLifecycle_proofs

----------------------------------------------------------------------------
(* What its users see: VideoLifecycle implements VideoPromise               *)

\* VideoPromise's statuses are those of the code.
LEMMA SeenStatuses ==
  /\ Seen!NotInitiated = NotInitiated /\ Seen!PendingUpload = PendingUpload
  /\ Seen!Uploaded = Uploaded /\ Seen!Processing = Processing /\ Seen!Processed = Processed
  /\ Seen!Failed = Failed /\ Seen!Deleted = Deleted
  BY DEF Seen!NotInitiated, Seen!PendingUpload, Seen!Uploaded, Seen!Processing, Seen!Processed,
         Seen!Failed, Seen!Deleted, NotInitiated, PendingUpload, Uploaded, Processing, Processed,
         Failed, Deleted

LEMMA MediaKept == ASSUME UNCHANGED <<hls, purged>> PROVE Media' = Media
  BY DEF Media, Playable

\* One status moves, if at all.
LEMMA StatusMoves ==
  ASSUME TypeOK, NEW v \in Videos, NEW expected, NEW new,
         status' = UpdateStatusIf(v, expected, new)
  PROVE  \/ status' = status /\ status[v] # expected
         \/ status[v] = expected /\ Seen!MovesTo(v, new)
  BY DEF UpdateStatusIf, Seen!MovesTo

\* A step that fails videos, or none.
LEMMA GivesUp ==
  ASSUME TypeOK, UNCHANGED <<token, hls, purged>>, NEW vs \in SUBSET Videos,
         \A v \in vs : status[v] \in {Uploaded, Processing},
         status' = [v \in Videos |-> IF v \in vs THEN Failed ELSE status[v]]
  PROVE  Seen!Next
<1>1. Seen!GiveUp(vs)
  BY MediaKept, SeenStatuses DEF Seen!GiveUp
<1>2. QED
  BY <1>1 DEF Seen!Next

LEMMA RegisterSeen ==
  ASSUME TypeOK, NEW v \in Videos, Initiate(v)
  PROVE  Seen!Next
<1>1. Seen!Register(v)
  BY MediaKept, SeenStatuses DEF Initiate, Seen!Register, Seen!MovesTo
<1>2. QED
  BY <1>1 DEF Seen!Next

LEMMA AcceptSeen ==
  ASSUME TypeOK, NEW c \in Callers, CompleteTx(c)
  PROVE  [Seen!Next]_<<status, token, Media>>
<1> DEFINE v == api[c].video
<1>1. v \in Videos /\ UNCHANGED token /\ Media' = Media
  BY MediaKept DEF CompleteTx, TypeOK, CallsTyped
<1>2. CASE status' = UpdateStatusIf(v, PendingUpload, Uploaded)
  <2>1. status' = status \/ (status[v] = PendingUpload /\ Seen!MovesTo(v, Uploaded))
    BY <1>1, <1>2, StatusMoves
  <2> HIDE DEF v
  <2>2. CASE status[v] = PendingUpload /\ Seen!MovesTo(v, Uploaded)
    BY <1>1, <2>2, SeenStatuses DEF Seen!Accept, Seen!Next
  <2>3. QED
    BY <1>1, <2>1, <2>2
<1>3. QED
  BY <1>1, <1>2 DEF CompleteTx

LEMMA ClaimSeen ==
  ASSUME TypeOK, NEW p \in Procs, ProcessClaim(p)
  PROVE  [Seen!Next]_<<status, token, Media>>
<1> DEFINE v == run[p].video
<1>1. v \in Videos /\ UNCHANGED token /\ Media' = Media
  BY RunFields, MediaKept DEF ProcessClaim, TypeOK
<1>2. CASE status' = UpdateStatusIf(v, Uploaded, Processing)
  <2>1. status' = status \/ (status[v] = Uploaded /\ Seen!MovesTo(v, Processing))
    BY <1>1, <1>2, StatusMoves
  <2> HIDE DEF v
  <2>2. CASE status[v] = Uploaded /\ Seen!MovesTo(v, Processing)
    BY <1>1, <2>2, SeenStatuses DEF Seen!Claim, Seen!Next
  <2>3. QED
    BY <1>1, <2>1, <2>2
<1>3. QED
  BY <1>1, <1>2 DEF ProcessClaim

\* The upload that makes a video playable is of one that has been claimed.
LEMMA UploadSeen ==
  ASSUME TypeOK, VideoInv, NEW p \in Procs, UploadNext(p)
  PROVE  [Seen!Next]_<<status, token, Media>>
<1> DEFINE v == run[p].video
<1>1. v \in Videos /\ claims[v] = 1
  <2>1. run[p].up \in UploaderAt /\ run[p].up # "none"
    BY DEF UploadNext, UploaderAt
  <2>2. QED
    BY <2>1, RunFields DEF TypeOK, VideoInv, RunsClaimed, Claimed
<1>2. /\ UNCHANGED <<status, token, purged>>
      /\ hls[v] \subseteq hls'[v] /\ \A w \in Videos : w # v => hls'[w] = hls[w]
  BY <1>1 DEF UploadNext, TypeOK, VideosTyped
<1>3. status[v] \notin {NotInitiated, PendingUpload, Uploaded}
  BY <1>1 DEF VideoInv, ClaimsCounted
<1> HIDE DEF v
<1>4. \A w \in Videos : w # v => Media'[w] = Media[w]
  BY <1>2 DEF Media, Playable
<1>5. CASE Media'[v] = Media[v]
  <2>1. Media' = Media
    BY <1>4, <1>5 DEF Media
  <2>2. QED
    BY <1>2, <2>1
<1>6. CASE Media'[v] # Media[v]
  <2>1. Media[v] = "none" /\ Media'[v] = "playable"
    BY <1>1, <1>2, <1>6 DEF Media, Playable
  <2>2. Media' = [Media EXCEPT ![v] = "playable"]
    BY <1>4, <2>1 DEF Media
  <2>3. Seen!MakePlayable(v)
    BY <1>2, <1>3, <2>1, <2>2, SeenStatuses DEF Seen!MakePlayable
  <2>4. QED
    BY <1>1, <2>3 DEF Seen!Next
<1>7. QED
  BY <1>5, <1>6

\* Who publishes has stored what is played, and holds the only token there is.
LEMMA PublishSeen ==
  ASSUME TypeOK, VideoInv, StorageInv, NEW p \in Procs, PublishToken(p)
  PROVE  [Seen!Next]_<<status, token, Media>>
<1> DEFINE v == run[p].video
<1>1. /\ v \in Videos /\ run[p] # IdleRun /\ run[p].pub = "notified"
      /\ UNCHANGED status /\ Media' = Media
  BY RunFields, MediaKept DEF PublishToken, TypeOK
<1>2. Media[v] # "none"
  BY <1>1 DEF StorageInv, Stored, Media
<1>3. token[v] \in {NoToken, p}
  BY <1>1 DEF VideoInv, RunsClaimed, Claimed
<1>4. token' = token \/ (status[v] = Processing /\ token' = [token EXCEPT ![v] = p])
  BY DEF PublishToken, SetShareToken
<1> HIDE DEF v
<1>5. CASE token[v] = NoToken /\ status[v] = Processing /\ token' = [token EXCEPT ![v] = p]
  <2>1. Seen!Publish(v, p)
    BY <1>1, <1>2, <1>5, SeenStatuses DEF Seen!Publish
  <2>2. QED
    BY <1>1, <2>1 DEF Seen!Next
<1>6. CASE token[v] = p /\ token' = [token EXCEPT ![v] = p]
  <2>1. token' = token
    BY <1>6 DEF TypeOK, VideosTyped
  <2>2. QED
    BY <1>1, <2>1
<1>7. QED
  BY <1>1, <1>3, <1>4, <1>5, <1>6

LEMMA CompleteSeen ==
  ASSUME TypeOK, VideoInv, StorageInv, NEW p \in Procs, ProcessFinalize(p)
  PROVE  [Seen!Next]_<<status, token, Media>>
<1> DEFINE v == run[p].video
<1>1. /\ v \in Videos /\ run[p] # IdleRun /\ run[p].pc = "finalize"
      /\ Media' = Media
  BY RunFields, MediaKept DEF ProcessFinalize, TypeOK
<1>2. Media[v] # "none"
  BY <1>1 DEF StorageInv, Stored, Media
<1>3. token[v] \in {NoToken, p}
  BY <1>1 DEF VideoInv, RunsClaimed, Claimed, RunStates
<1>4. MarkProcessed(v, p) \/ UNCHANGED <<status, token>>
  BY DEF ProcessFinalize
<1> HIDE DEF v
<1>5. CASE MarkProcessed(v, p) /\ status[v] = Processing
  <2>1. status' = [status EXCEPT ![v] = Processed] /\ token' = [token EXCEPT ![v] = p]
    BY <1>5 DEF MarkProcessed, UpdateStatusIf, SetShareToken
  <2>2. Seen!Complete(v, p)
    BY <1>1, <1>2, <1>3, <1>5, <2>1, SeenStatuses DEF Seen!Complete, Seen!MovesTo
  <2>3. QED
    BY <1>1, <2>2 DEF Seen!Next
<1>6. CASE MarkProcessed(v, p) /\ status[v] # Processing
  BY <1>1, <1>6 DEF MarkProcessed, UpdateStatusIf, SetShareToken
<1>7. QED
  BY <1>1, <1>4, <1>5, <1>6

LEMMA FailSeen ==
  ASSUME TypeOK, NEW p \in Procs, ProcessFail(p)
  PROVE  [Seen!Next]_<<status, token, Media>>
<1> DEFINE v == run[p].video
<1>1. v \in Videos /\ UNCHANGED <<token, hls, purged>>
  BY RunFields DEF ProcessFail, TypeOK
<1>2. status' = status \/ (status[v] = Processing /\ status' = [status EXCEPT ![v] = Failed])
  BY DEF ProcessFail, UpdateStatusIf
<1> HIDE DEF v
<1>3. CASE status[v] = Processing /\ status' = [status EXCEPT ![v] = Failed]
  <2>1. status' = [w \in Videos |-> IF w \in {v} THEN Failed ELSE status[w]]
    BY <1>1, <1>3 DEF TypeOK, VideosTyped
  <2>2. QED
    BY <1>1, <1>3, <2>1, GivesUp
<1>4. QED
  BY <1>1, <1>2, <1>3, MediaKept

\* A delete withdraws what is played, whether or not the storage obeys ...
LEMMA WithdrawSeen ==
  ASSUME TypeOK, VideoInv, NEW d \in Deleters, DeletePrefix(d)
  PROVE  Seen!Next
<1> DEFINE v == del[d].video
<1>1. v \in Videos /\ status[v] # NotInitiated
  BY DEF DeletePrefix, TypeOK, DeletesTyped, VideoInv, DeletesFound
<1>2. /\ UNCHANGED <<status, token>> /\ purged'[v]
      /\ \A w \in Videos : w # v => hls'[w] = hls[w] /\ purged'[w] = purged[w]
  BY <1>1 DEF DeletePrefix, TypeOK, VideosTyped
<1> HIDE DEF v
<1>3. Media' = [Media EXCEPT ![v] = "withdrawn"]
  BY <1>1, <1>2 DEF Media, Playable
<1>4. Seen!Withdraw(v)
  BY <1>1, <1>2, <1>3, SeenStatuses DEF Seen!Withdraw
<1>5. QED
  BY <1>1, <1>4 DEF Seen!Next

\* ... and before the row goes.
LEMMA DeleteSeen ==
  ASSUME TypeOK, DeletionInv, NEW d \in Deleters, DeleteRow(d)
  PROVE  [Seen!Next]_<<status, token, Media>>
<1> DEFINE v == del[d].video
<1>1. v \in Videos /\ purged[v] /\ Media' = Media
  BY MediaKept DEF DeleteRow, TypeOK, DeletesTyped, DeletionInv
<1>2. \/ UNCHANGED <<status, token>>
      \/ status' = [status EXCEPT ![v] = Deleted] /\ token' = [token EXCEPT ![v] = NoToken]
  BY DEF DeleteRow
<1> HIDE DEF v
<1>3. Media[v] = "withdrawn"
  BY <1>1 DEF Media
<1>4. CASE status' = [status EXCEPT ![v] = Deleted] /\ token' = [token EXCEPT ![v] = NoToken]
  <2>1. Seen!Delete(v)
    BY <1>1, <1>3, <1>4, SeenStatuses DEF Seen!Delete, Seen!MovesTo
  <2>2. QED
    BY <1>1, <2>1 DEF Seen!Next
<1>5. QED
  BY <1>1, <1>2, <1>4

LEMMA MarkSeen ==
  ASSUME TypeOK, SweepMark
  PROVE  Seen!Next
<1> DEFINE vs == {v \in StuckIds : status[v] \in FromStatuses}
<1>1. /\ status' = [v \in Videos |-> IF v \in StuckIds /\ status[v] \in FromStatuses
                                       THEN Failed ELSE status[v]]
      /\ UNCHANGED <<token, hls, purged>>
  BY DEF SweepMark, BulkMarkFailed
<1>2. vs \in SUBSET Videos /\ \A v \in vs : status[v] \in {Uploaded, Processing}
  BY DEF StuckIds, FromStatuses
<1>3. status' = [v \in Videos |-> IF v \in vs THEN Failed ELSE status[v]]
  BY <1>1
<1>4. QED
  BY <1>1, <1>2, <1>3, GivesUp

LEMMA NextSeen ==
  ASSUME TypeOK, VideoInv, StorageInv, DeletionInv, [Next]_vars
  PROVE  [Seen!Next]_<<status, token, Media>>
<1>1. CASE UNCHANGED <<status, token, hls, purged>>
  BY <1>1, MediaKept
<1>2. ASSUME NEW p \in Procs,
             \/ ProcessClaim(p) \/ UploadNext(p) \/ PublishToken(p) \/ ProcessFinalize(p)
             \/ ProcessFail(p)
      PROVE  [Seen!Next]_<<status, token, Media>>
  BY <1>2, ClaimSeen, UploadSeen, PublishSeen, CompleteSeen, FailSeen
<1>3. ASSUME NEW p \in Procs, ProcessStep(p)
      PROVE  \/ ProcessClaim(p) \/ UploadNext(p) \/ PublishToken(p) \/ ProcessFinalize(p)
             \/ ProcessFail(p) \/ UNCHANGED <<status, token, hls, purged>>
  BY <1>3
  DEF ProcessStep, HandlerStep, ProcessStart, ProcessLoad, ProcessProbe, TranscodeEnds, ProcessJoin,
      ProcessCleanup, DetachedUploaderEnds, ProcessTimesOut, ProcessLost
<1>4. \/ UNCHANGED <<status, token, hls, purged>>
      \/ \E v \in Videos : Initiate(v)
      \/ \E c \in Callers : CompleteTx(c)
      \/ \E p \in Procs : ProcessStep(p)
      \/ \E d \in Deleters : DeletePrefix(d) \/ DeleteRow(d)
      \/ SweepMark
  BY DEF Next, vars, ClientUpload, Age, ProcessReset, ProcessRevive, CallStep, CompleteFind,
      CompleteHead, CompleteRange, CompleteReject, DeleteStep, DeleteStart, DeleteFind,
      DeleteObject, DeleteLost, DeleteReset, DeleteRevive, SweepStep, SweepFindStale,
      SweepFindFailed, SweepCreate, SweepLost
<1>5. QED
  BY <1>1, <1>2, <1>3, <1>4, RegisterSeen, AcceptSeen, WithdrawSeen, DeleteSeen, MarkSeen

\* In a ladder with its low tier, users see VideoPromise, whatever is retried,
\* reset, revived, lost, swept or deleted behind the API: one status after the
\* other, one link, playable when it appears, and the row last.
THEOREM UsersSeeThePromise ==
  ASSUME LowInLadder
  PROVE  Spec => LivesAsPromised
<1>1. Init => Seen!Init
  BY SeenStatuses DEF Init, Seen!Init, Media, Playable
<1>2. TypeOK /\ VideoInv /\ StorageInv /\ DeletionInv /\ [Next]_vars
        => [Seen!Next]_<<status, token, Media>>
  BY NextSeen
<1>3. Init => StorageInv /\ DeletionInv
  BY InitStorage, VideoStatusNames DEF Init, IdleDel, DeletionInv, DeletedLeavesNothing
<1>4. TypeOK /\ StorageInv /\ DeletionInv /\ [Next]_vars => StorageInv' /\ DeletionInv'
  BY NextStorage, NextDeletion
<1>5. QED
  BY <1>1, <1>2, <1>3, <1>4, TypeCorrect, VideoInvariant, PTL DEF Spec, LivesAsPromised, Seen!Spec

----------------------------------------------------------------------------
(* At least once: the ProcessVideo rows implement TaskDelivery              *)

LEMMA VideoRowsInv ==
  ASSUME TypeOK, RowsInv, [Next]_vars
  PROVE  RowsInv'
<1>1. CASE UNCHANGED ptask
  BY <1>1 DEF RowsInv
<1>2. ASSUME NEW v \in Videos, ptask'[v].status # NoRow,
             \A w \in Videos : w # v => ptask'[w] = ptask[w]
      PROVE  RowsInv'
  BY <1>2 DEF RowsInv
<1>3. ASSUME NEW c \in Callers, CompleteTx(c) PROVE RowsInv'
  <2>1. api[c].video \in Videos
    BY <1>3 DEF CompleteTx, TypeOK, CallsTyped
  <2>2. CASE ptask' = [ptask EXCEPT ![api[c].video] = TaskRow(Pending, 0)]
    BY <1>2, <2>1, <2>2, StatusNames DEF TypeOK, ProcessRowsTyped, TaskRow
  <2>3. QED
    BY <1>1, <1>3, <2>2 DEF CompleteTx
<1>4. ASSUME NEW v \in Videos, ProcessReset(v) \/ ProcessRevive(v) PROVE RowsInv'
  <2>1. ptask'[v].status # NoRow /\ \A w \in Videos : w # v => ptask'[w] = ptask[w]
    BY <1>4, StatusNames DEF ProcessReset, ProcessRevive, TypeOK, ProcessRowsTyped, TaskRows
  <2>2. QED
    BY <1>2, <2>1
<1>5. ASSUME NEW p \in Procs, NEW v \in Videos, ProcessStart(p, v) PROVE RowsInv'
  <2>1. ptask'[v].status # NoRow /\ \A w \in Videos : w # v => ptask'[w] = ptask[w]
    BY <1>5, StatusNames DEF ProcessStart, TypeOK, ProcessRowsTyped, TaskRows
  <2>2. QED
    BY <1>2, <2>1
<1>6. ASSUME NEW p \in Procs, NEW result \in TaskResult, run[p].pc # "idle", RunEnds(p, result)
      PROVE  RowsInv'
  <2>1. run[p].video \in Videos
    BY <1>6, RunFields DEF TypeOK
  <2>2. QED
    BY <1>2, <1>6, <2>1, RunEnded, StatusNames DEF TypeOK
<1>7. ASSUME NEW p \in Procs, ProcessStep(p) PROVE RowsInv'
  BY <1>1, <1>5, <1>6, <1>7
  DEF ProcessStep, HandlerStep, ProcessLoad, ProcessClaim, ProcessProbe, TranscodeEnds, ProcessJoin,
      ProcessFinalize, ProcessFail, ProcessCleanup, UploadNext, DetachedUploaderEnds, PublishToken,
      ProcessTimesOut, ProcessLost, TaskResult
<1>8. QED
  BY <1>1, <1>3, <1>4, <1>7
  DEF Next, vars, Initiate, ClientUpload, Age, CallStep, CompleteFind, CompleteHead, CompleteRange,
      CompleteReject, DeleteStep, DeleteStart, DeleteFind, DeletePrefix, DeleteObject, DeleteRow,
      DeleteLost, DeleteReset, DeleteRevive, SweepStep, SweepFindStale, SweepFindFailed, SweepMark,
      SweepCreate, SweepLost

\* TaskDelivery's compute_update is the same operator.
LEMMA SameDeliveryUpdate ==
  ASSUME NEW att \in Nat, NEW max \in Nat, NEW result \in TaskResult
  PROVE  Delivery!ComputeUpdate(att, max, NoInterval, 0, result)
           = ComputeUpdate(att, max, NoInterval, 0, result)
  BY DEF Delivery!ComputeUpdate, Delivery!OnSuccess, Delivery!OnRetryableFailure,
         Delivery!OnPermanentFailure, Delivery!OnSkip, Delivery!OnTerminate, Delivery!CanRetry,
         Delivery!Update, Delivery!Pending, Delivery!Completed, Delivery!DeadLetter,
         Delivery!NoRetries, Delivery!NoInterval, Delivery!KeepNextRun,
         ComputeUpdate, OnSuccess, OnRetryableFailure, OnPermanentFailure, OnSkip,
         OnTerminate, CanRetry, Update, Pending, Completed, DeadLetter, NoRetries,
         NoInterval, KeepNextRun, TaskResult

\* A video is held exactly while a runner of TaskDelivery has its row.
LEMMA HeldIsServed ==
  ASSUME NEW v \in Videos
  PROVE  /\ (\E p \in Procs : Jobs[p].task = v) <=> Held(v)
         /\ (\E p \in Procs : Jobs'[p].task = v) <=> Held(v)'
  BY VideoAssumption DEF Jobs, Held

\* A step that leaves every handler with its job.
LEMMA JobsKept ==
  ASSUME \A p \in Procs :
           \/ run[p].pc = "idle" /\ run'[p].pc = "idle"
           \/ /\ run[p].pc # "idle" /\ run'[p].pc # "idle"
              /\ run'[p].video = run[p].video /\ run'[p].attempt = run[p].attempt
  PROVE  Jobs' = Jobs /\ \A v \in Videos : Held(v)' <=> Held(v)
  BY DEF Jobs, Held

LEMMA RowsKept ==
  ASSUME UNCHANGED ptask, Jobs' = Jobs, \A v \in Videos : Held(v)' <=> Held(v)
  PROVE  UNCHANGED <<RowState, RowUsed, Jobs>>
  BY DEF RowState, RowUsed

\* The runs that a run's steps write, but its start and its end.
LEMMA SameJob ==
  ASSUME NEW r \in Runs
  PROVE  /\ \A l \in RunStates : /\ [r EXCEPT !.pc = l].pc = l
                                 /\ [r EXCEPT !.pc = l].attempt = r.attempt
                                 /\ [r EXCEPT !.pc = l].video = r.video
         /\ \A u \in UploaderAt :
              LET x == [r EXCEPT !.pc = "transcode", !.up = u, !.pub = "waiting"] IN
              x.pc = "transcode" /\ x.attempt = r.attempt /\ x.video = r.video
         /\ r.up \in UploaderAt => AfterUpload(r).pc = r.pc /\ AfterUpload(r).attempt = r.attempt
                                     /\ AfterUpload(r).video = r.video
         /\ UploaderOver(r).pc = r.pc /\ UploaderOver(r).attempt = r.attempt
         /\ UploaderOver(r).video = r.video
         /\ \A l \in RunStates : /\ [UploaderOver(r) EXCEPT !.pc = l].pc = l
                                 /\ [UploaderOver(r) EXCEPT !.pc = l].attempt = r.attempt
                                 /\ [UploaderOver(r) EXCEPT !.pc = l].video = r.video
         /\ [r EXCEPT !.pub = "ended"].pc = r.pc /\ [r EXCEPT !.pub = "ended"].attempt = r.attempt
         /\ [r EXCEPT !.pub = "ended"].video = r.video
<1>1. r.up \in UploaderAt => AfterUpload(r).pc = r.pc /\ AfterUpload(r).attempt = r.attempt
                               /\ AfterUpload(r).video = r.video
  BY DEF AfterUpload, Runs, UploaderAt
<1>2. UploaderOver(r).pc = r.pc /\ UploaderOver(r).attempt = r.attempt
        /\ UploaderOver(r).video = r.video
  BY DEF UploaderOver, Runs
<1>3. \A l \in RunStates : /\ [UploaderOver(r) EXCEPT !.pc = l].pc = l
                           /\ [UploaderOver(r) EXCEPT !.pc = l].attempt = r.attempt
                           /\ [UploaderOver(r) EXCEPT !.pc = l].video = r.video
  BY DEF UploaderOver, Runs
<1>4. QED
  BY <1>1, <1>2, <1>3 DEF Runs

LEMMA RunQuiet ==
  ASSUME TypeOK, NEW p \in Procs, NEW x, UNCHANGED ptask, SetRun(p, x),
         x.pc = "idle" <=> run[p].pc = "idle",
         x.video = run[p].video, x.attempt = run[p].attempt
  PROVE  UNCHANGED <<RowState, RowUsed, Jobs>>
<1>1. /\ run'[p] = Reap(x)
      /\ \A q \in Procs : q # p => run'[q] = run[q]
  BY DEF SetRun, TypeOK, RunsTyped
<1>2. IF run[p].pc = "idle" THEN run'[p].pc = "idle" ELSE run'[p] = x
  BY <1>1 DEF Reap, IdleRun
<1>3. QED
  BY <1>1, <1>2, JobsKept, RowsKept

LEMMA SubmitDelivers ==
  ASSUME TypeOK, VideoInv, RowsInv, NEW c \in Callers, CompleteTx(c)
  PROVE  [Delivery!Next]_<<RowState, RowUsed, Jobs>>
<1> DEFINE v == api[c].video
<1>1. v \in Videos /\ UNCHANGED run
  BY DEF CompleteTx, TypeOK, CallsTyped
<1>2. Jobs' = Jobs /\ \A w \in Videos : Held(w)' <=> Held(w)
  BY <1>1 DEF Jobs, Held
<1>3. CASE UNCHANGED ptask
  BY <1>2, <1>3, RowsKept
<1>4. CASE status[v] = PendingUpload /\ ptask' = [ptask EXCEPT ![v] = TaskRow(Pending, 0)]
  <2>1. ptask[v].status = NoRow /\ ptask[v].attempt = 0
    BY <1>1, <1>4 DEF VideoInv, ClaimsCounted, RowsInv
  <2>2. /\ ptask'[v].status = Pending /\ ptask'[v].attempt = 0
        /\ \A w \in Videos : w # v => ptask'[w] = ptask[w]
    BY <1>1, <1>4 DEF TypeOK, ProcessRowsTyped, TaskRow
  <2>3. RowState[v] = "NOT_CREATED" /\ RowUsed' = RowUsed
    BY <1>1, <2>1, <2>2 DEF RowState, RowUsed
  <2>4. RowState' = [RowState EXCEPT ![v] = Pending]
    BY <1>1, <1>2, <2>2, StatusNames DEF RowState
  <2>5. Delivery!Submit(v)
    BY <1>2, <2>3, <2>4 DEF Delivery!Submit, Delivery!NotCreated, Delivery!Pending, Pending
  <2>6. QED
    BY <1>1, <2>5 DEF Delivery!Next
<1>5. QED
  BY <1>3, <1>4 DEF CompleteTx

LEMMA StartDelivers ==
  ASSUME TypeOK, NEW p \in Procs, NEW v \in Videos, ProcessStart(p, v)
  PROVE  Delivery!Next
<1>1. run[p] = IdleRun /\ ptask[v].status = Pending
  BY DEF ProcessStart
<1>2. /\ ptask'[v].status = InProgress /\ ptask'[v].attempt = ptask[v].attempt
      /\ \A w \in Videos : w # v => ptask'[w] = ptask[w]
  BY DEF ProcessStart, TypeOK, ProcessRowsTyped, TaskRows
<1>3. /\ \A q \in Procs : q # p => run'[q] = run[q]
      /\ run'[p].pc = "load" /\ run'[p].video = v /\ run'[p].attempt = ptask[v].attempt
  BY DEF ProcessStart, TypeOK, RunsTyped, IdleRun
<1>4. Held(v)' /\ \A w \in Videos : w # v => (Held(w)' <=> Held(w))
  BY <1>1, <1>3 DEF Held, IdleRun
<1>5. RowState[v] = Pending
  BY <1>1, StatusNames DEF RowState
<1>6. RowState' = [RowState EXCEPT ![v] = InProgress] /\ RowUsed' = RowUsed
  BY <1>2, <1>4, StatusNames DEF RowState, RowUsed
<1>7. /\ Jobs[p] = Delivery!NoJob
      /\ Jobs' = [Jobs EXCEPT ![p] = Delivery!Job(v, RowUsed[v])]
  <2>1. Jobs[p] = [task |-> NoVideo, attempt |-> 0]
    BY <1>1 DEF Jobs, IdleRun
  <2>2. /\ Jobs'[p] = [task |-> v, attempt |-> RowUsed[v]]
        /\ \A q \in Procs : q # p => Jobs'[q] = Jobs[q]
    BY <1>3 DEF Jobs, RowUsed
  <2>3. Jobs' = [Jobs EXCEPT ![p] = [task |-> v, attempt |-> RowUsed[v]]]
    BY <2>2 DEF Jobs
  <2>4. QED
    BY <2>1, <2>3 DEF Delivery!NoJob, Delivery!Job
<1>8. Delivery!Start(p, v)
  BY <1>5, <1>6, <1>7 DEF Delivery!Start, Delivery!InProgress, Delivery!Pending, InProgress, Pending
<1>9. QED
  BY <1>8 DEF Delivery!Next

LEMMA EndDelivers ==
  ASSUME TypeOK, NEW p \in Procs, run[p].pc # "idle",
         NEW result \in {"Success", "PermanentFailure", "RetryableFailure"}, RunEnds(p, result)
  PROVE  Delivery!Next
<1> DEFINE v == run[p].video
           a == run[p].attempt
           u == ComputeUpdate(a, ProcessRetries, NoInterval, 0, result)
<1>1. v \in Videos /\ a \in Nat /\ a \in 0..ProcessRetries /\ ProcessRetries \in Nat
        /\ result \in TaskResult
  BY RunFields, VideoAssumption DEF TypeOK, TaskResult
<1>2. u.status \in {Pending, Completed, DeadLetter}
  BY <1>1, UpdateOfOneShot
<1>3. /\ ptask' = [ptask EXCEPT ![v] = TaskRow(u.status, u.attempt)]
      /\ RunGoes(p, "idle")
  BY DEF RunEnds
<1> HIDE DEF u
<1>4. /\ ptask'[v].status = u.status /\ ptask'[v].attempt = u.attempt
      /\ \A w \in Videos : w # v => ptask'[w] = ptask[w]
  BY <1>1, <1>3 DEF TypeOK, ProcessRowsTyped, TaskRow
<1>5. run'[p].pc = "idle" /\ \A q \in Procs : q # p => run'[q] = run[q]
  <2>1. "idle" \in RunStates /\ run[p] \in Runs
    BY RunFields DEF RunStates, TypeOK
  <2>2. /\ run'[p] \in {[run[p] EXCEPT !.pc = "idle"], IdleRun}
        /\ \A q \in Procs : q # p => run'[q] = run[q]
    BY <1>3, <2>1, RunAdvanced DEF TypeOK
  <2>3. [run[p] EXCEPT !.pc = "idle"].pc = "idle" /\ IdleRun.pc = "idle"
    BY <2>1 DEF Runs, IdleRun
  <2>4. QED
    BY <2>2, <2>3
<1>6. \A w \in Videos : w # v => (Held(w)' <=> Held(w))
  BY <1>5 DEF Held
<1>7. RowState' = [RowState EXCEPT ![v] = u.status] /\ RowUsed' = [RowUsed EXCEPT ![v] = u.attempt]
  BY <1>1, <1>2, <1>4, <1>6, StatusNames DEF RowState, RowUsed
<1>8. /\ Jobs[p].task = v /\ Jobs[p].attempt = a
      /\ Jobs[p] # Delivery!NoJob
      /\ Jobs' = [Jobs EXCEPT ![p] = Delivery!NoJob]
  <2>1. Jobs[p] = [task |-> v, attempt |-> a] /\ v # NoVideo
    BY <1>1, VideoAssumption DEF Jobs
  <2>2. Jobs' = [Jobs EXCEPT ![p] = [task |-> NoVideo, attempt |-> 0]]
    BY <1>5 DEF Jobs
  <2>3. QED
    BY <2>1, <2>2 DEF Delivery!NoJob, Delivery!Job
<1>9. u = Delivery!ComputeUpdate(a, ProcessRetries, NoInterval, 0, result)
  BY <1>1, SameDeliveryUpdate DEF u
<1> HIDE DEF v, a
<1>10. result \in Delivery!RunResults(v)
  BY <1>1 DEF Delivery!RunResults
<1>11. Delivery!Finish(p)
  <2>1. /\ [w \in Videos |-> ProcessRetries][v] = ProcessRetries
        /\ [w \in Videos |-> NoInterval][v] = NoInterval
    BY <1>1
  <2>2. QED
    BY <1>7, <1>8, <1>9, <1>10, <2>1 DEF Delivery!Finish
<1>12. QED
  BY <1>11 DEF Delivery!Next

LEMMA LossDelivers ==
  ASSUME TypeOK, NEW p \in Procs, ProcessLost(p)
  PROVE  Delivery!Next
<1>1. /\ run'[p] = IdleRun
      /\ \A q \in Procs : q # p => run'[q] = run[q]
      /\ UNCHANGED ptask
  BY DEF ProcessLost, TypeOK, RunsTyped
<1>2. Jobs' = [q \in Procs |-> IF q \in {p} THEN Delivery!NoJob ELSE Jobs[q]]
  BY <1>1 DEF Jobs, IdleRun, Delivery!NoJob, Delivery!Job
<1>3. \A v \in Videos : Held(v)' => Held(v)
  BY <1>1 DEF Held, IdleRun
<1>4. RowState' = [v \in Videos |->
                     IF RowState[v] = InProgress /\ ~Held(v)' THEN Pending ELSE RowState[v]]
  BY <1>1, <1>3, StatusNames DEF RowState, InProgress
<1>5. \A v \in Videos : (\E q \in Procs : Jobs'[q].task = v) <=> Held(v)'
  BY HeldIsServed
<1>6. RowUsed' = RowUsed
  BY <1>1 DEF RowUsed
<1>7. Delivery!Lose({p})
  BY <1>2, <1>4, <1>5, <1>6 DEF Delivery!Lose, Delivery!InProgress, Delivery!Pending, InProgress, Pending
<1>8. QED
  BY <1>7 DEF Delivery!Next

LEMMA ResetDelivers ==
  ASSUME TypeOK, NEW v \in Videos, ProcessReset(v)
  PROVE  [Delivery!Next]_<<RowState, RowUsed, Jobs>>
<1>1. /\ ptask[v].status = InProgress /\ UNCHANGED run
      /\ ptask'[v].status = Pending /\ ptask'[v].attempt = ptask[v].attempt
      /\ \A w \in Videos : w # v => ptask'[w] = ptask[w]
  BY DEF ProcessReset, TypeOK, ProcessRowsTyped, TaskRows
<1>2. Jobs' = Jobs /\ \A w \in Videos : Held(w)' <=> Held(w)
  BY <1>1 DEF Jobs, Held
<1>3. RowState' = [RowState EXCEPT ![v] = Pending] /\ RowUsed' = RowUsed
  BY <1>1, <1>2, StatusNames DEF RowState, RowUsed
<1>4. CASE Held(v)
  <2>1. RowState[v] = InProgress
    BY <1>1, <1>4, StatusNames DEF RowState
  <2>2. RowState' = [w \in Videos |-> IF w \in {v} THEN Pending ELSE RowState[w]]
    BY <1>3 DEF RowState
  <2>3. Delivery!Reset({v})
    BY <1>2, <1>3, <2>1, <2>2 DEF Delivery!Reset, Delivery!InProgress, Delivery!Pending, InProgress, Pending
  <2>4. QED
    BY <2>3 DEF Delivery!Next
<1>5. CASE ~Held(v)
  <2>1. RowState[v] = Pending
    BY <1>1, <1>5, StatusNames DEF RowState
  <2>2. RowState' = RowState
    BY <1>3, <2>1 DEF RowState
  <2>3. QED
    BY <1>2, <1>3, <2>2
<1>6. QED
  BY <1>4, <1>5

LEMMA ReviveDelivers ==
  ASSUME TypeOK, NEW v \in Videos, ProcessRevive(v)
  PROVE  Delivery!Next
<1>1. /\ ptask[v].status \in {Completed, DeadLetter} /\ UNCHANGED run
      /\ ptask'[v].status = InProgress /\ ptask'[v].attempt = ptask[v].attempt
      /\ \A w \in Videos : w # v => ptask'[w] = ptask[w]
  BY DEF ProcessRevive, Terminal, TypeOK, ProcessRowsTyped, TaskRows
<1>2. Jobs' = Jobs /\ \A w \in Videos : Held(w)' <=> Held(w)
  BY <1>1 DEF Jobs, Held
<1>3. RowState[v] # "NOT_CREATED" /\ RowUsed' = RowUsed
  BY <1>1, StatusNames DEF RowState, RowUsed, Completed, DeadLetter
<1>4. RowState' = [w \in Videos |->
                     IF w \notin {v} THEN RowState[w] ELSE IF Held(w) THEN InProgress ELSE Pending]
  BY <1>1, <1>2, StatusNames DEF RowState
<1>5. \A w \in Videos : (\E q \in Procs : Jobs[q].task = w) <=> Held(w)
  BY HeldIsServed
<1>6. Delivery!Claim({v})
  BY <1>2, <1>3, <1>4, <1>5
  DEF Delivery!Claim, Delivery!InProgress, Delivery!Pending, Delivery!NotCreated, InProgress, Pending
<1>7. QED
  BY <1>6 DEF Delivery!Next

LEMMA ProcessDelivers ==
  ASSUME TypeOK, NEW p \in Procs, ProcessStep(p)
  PROVE  [Delivery!Next]_<<RowState, RowUsed, Jobs>>
<1> SUFFICES ASSUME ~Delivery!Next
             PROVE  UNCHANGED <<RowState, RowUsed, Jobs>>
  OBVIOUS
<1> DEFINE r == run[p]
<1>0. r \in Runs
  BY RunFields DEF TypeOK
<1>1. ASSUME NEW result \in {"Success", "PermanentFailure", "RetryableFailure"},
             RunEnds(p, result), r.pc # "idle"
      PROVE  FALSE
  BY <1>1, EndDelivers
<1>2. ASSUME NEW x, SetRun(p, x), UNCHANGED ptask, x.pc = "idle" <=> r.pc = "idle",
             x.video = r.video, x.attempt = r.attempt
      PROVE  UNCHANGED <<RowState, RowUsed, Jobs>>
  BY <1>2, RunQuiet
<1>3. ASSUME NEW l \in RunStates \ {"idle"}, RunGoes(p, l), UNCHANGED ptask, r.pc # "idle"
      PROVE  UNCHANGED <<RowState, RowUsed, Jobs>>
  BY <1>0, <1>2, <1>3, SameJob DEF RunGoes
<1>4. CASE ProcessProbe(p)
  <2>1. PICK u \in UploaderAt :
          [StreamBegins(r, LowInLadder) EXCEPT !.pc = "transcode"]
            = [r EXCEPT !.pc = "transcode", !.up = u, !.pub = "waiting"]
    BY <1>0, StreamBegun
  <2>2. CASE SetRun(p, [r EXCEPT !.pc = "transcode", !.up = u, !.pub = "waiting"])
    BY <1>0, <1>2, <1>4, <2>2, SameJob DEF ProcessProbe
  <2>3. QED
    BY <1>3, <1>4, <2>1, <2>2 DEF ProcessProbe, RunStates
<1>5. CASE TranscodeEnds(p)
  <2>1. UNCHANGED ptask /\ r.pc = "transcode"
    BY <1>5 DEF TranscodeEnds
  <2>2. ASSUME NEW l \in {"joinOk", "joinFailed"}, SetRun(p, [UploaderOver(r) EXCEPT !.pc = l])
        PROVE  UNCHANGED <<RowState, RowUsed, Jobs>>
    <3>1. /\ [UploaderOver(r) EXCEPT !.pc = l].pc = l
          /\ [UploaderOver(r) EXCEPT !.pc = l].attempt = r.attempt
          /\ [UploaderOver(r) EXCEPT !.pc = l].video = r.video
      BY <1>0, SameJob DEF RunStates
    <3>2. QED
      BY <1>2, <2>1, <2>2, <3>1
  <2>3. QED
    BY <1>5, <2>2 DEF TranscodeEnds
<1>6. CASE UploadNext(p)
  <2>1. CASE SetRun(p, AfterUpload(r))
    BY <1>0, <1>2, <1>6, <2>1, SameJob DEF UploadNext
  <2>2. CASE UNCHANGED run
    BY <1>6, <2>2 DEF UploadNext, RowState, RowUsed, Jobs, Held
  <2>3. QED
    BY <1>6, <2>1, <2>2 DEF UploadNext
<1>7. CASE DetachedUploaderEnds(p)
  BY <1>0, <1>2, <1>7, SameJob DEF DetachedUploaderEnds
<1>8. CASE PublishToken(p)
  BY <1>0, <1>2, <1>8, SameJob DEF PublishToken
<1>9. CASE ProcessJoin(p)
  <2>1. r.pc # "idle" /\ (IF r.pc = "joinOk" THEN "finalize" ELSE "fail") \in RunStates \ {"idle"}
    BY <1>9 DEF ProcessJoin, RunStates
  <2>2. QED
    BY <1>3, <1>9, <2>1 DEF ProcessJoin
<1>10. CASE ProcessLoad(p) \/ ProcessClaim(p) \/ ProcessFinalize(p) \/ ProcessFail(p)
              \/ ProcessCleanup(p) \/ ProcessTimesOut(p)
  BY <1>1, <1>3, <1>10
  DEF ProcessLoad, ProcessClaim, ProcessFinalize, ProcessFail, ProcessCleanup, ProcessTimesOut, RunStates
<1>11. CASE ProcessLost(p)
  BY <1>11, LossDelivers
<1>12. ASSUME NEW v \in Videos, ProcessStart(p, v) PROVE UNCHANGED <<RowState, RowUsed, Jobs>>
  BY <1>12, StartDelivers
<1>13. QED
  BY <1>4, <1>5, <1>6, <1>7, <1>8, <1>9, <1>10, <1>11, <1>12 DEF ProcessStep, HandlerStep

LEMMA NextRows ==
  ASSUME TypeOK, VideoInv, RowsInv, [Next]_vars
  PROVE  [Delivery!Next]_<<RowState, RowUsed, Jobs>>
<1>1. CASE UNCHANGED <<ptask, run>>
  BY <1>1 DEF RowState, RowUsed, Jobs, Held
<1>2. ASSUME NEW c \in Callers, CallStep(c) PROVE [Delivery!Next]_<<RowState, RowUsed, Jobs>>
  BY <1>1, <1>2, SubmitDelivers
  DEF CallStep, CompleteFind, CompleteHead, CompleteRange, CompleteReject
<1>3. ASSUME NEW v \in Videos, ProcessReset(v) \/ ProcessRevive(v)
      PROVE  [Delivery!Next]_<<RowState, RowUsed, Jobs>>
  BY <1>3, ResetDelivers, ReviveDelivers
<1>4. ASSUME NEW p \in Procs, ProcessStep(p) PROVE [Delivery!Next]_<<RowState, RowUsed, Jobs>>
  BY <1>4, ProcessDelivers
<1>5. \/ UNCHANGED <<ptask, run>>
      \/ \E c \in Callers : CallStep(c)
      \/ \E v \in Videos : ProcessReset(v) \/ ProcessRevive(v)
      \/ \E p \in Procs : ProcessStep(p)
  BY DEF Next, vars, Initiate, ClientUpload, Age, DeleteStep, DeleteStart, DeleteFind, DeletePrefix,
      DeleteObject, DeleteRow, DeleteLost, DeleteReset, DeleteRevive, SweepStep, SweepFindStale,
      SweepFindFailed, SweepMark, SweepCreate, SweepLost
<1>6. QED
  BY <1>1, <1>2, <1>3, <1>4, <1>5

\* The ProcessVideo rows are run as TaskDelivery says, whatever is retried,
\* reset early, revived or lost: nothing happens to them here that is not within
\* the promise which TaskSystem keeps with no assumption on time.
THEOREM RowsLiveByDelivery == Spec => RowsAreDelivered
<1>1. Init => RowsInv /\ Delivery!Init
  BY DEF Init, RowsInv, TaskRow, Delivery!Init, RowState, RowUsed, Jobs, IdleRun, NoRow,
         Delivery!NotCreated, Delivery!NoJob, Delivery!Job
<1>2. TypeOK /\ RowsInv /\ [Next]_vars => RowsInv'
  BY VideoRowsInv
<1>3. TypeOK /\ VideoInv /\ RowsInv /\ [Next]_vars => [Delivery!Next]_<<RowState, RowUsed, Jobs>>
  BY NextRows
<1>4. QED
  BY <1>1, <1>2, <1>3, TypeCorrect, VideoInvariant, PTL DEF Spec, RowsAreDelivered, Delivery!Spec
=============================================================================
