---------------------------- MODULE HlsUploader ----------------------------
(***************************************************************************)
(* One transcode_to_hls (infrastructure/src/transcoder/gstreamer.rs): the   *)
(* pipeline thread that writes segments to a temp dir, the uploader task    *)
(* that scans the dir and uploads what is finished (hls_uploader.rs), and   *)
(* the coordinator that races the two.  VideoLifecycle sees of all this     *)
(* only HlsStream: the order of the first objects, and the outcome.         *)
(*                                                                          *)
(* A segment is its number (segment_%05d.ts sorts by it), a playlist the    *)
(* list of its segments and whether it ends in #EXT-X-ENDLIST.              *)
(***************************************************************************)
EXTENDS Integers, Sequences

CONSTANTS
  Ladder,       \* QUALITY_TIERS: the tiers in order, without repetition
  Low,          \* the low tier
  MaxSegments,  \* bound: segments per tier
  MaxFaults     \* environment: failed storage and file system calls

Tiers == {Ladder[i] : i \in DOMAIN Ladder}

ASSUME HlsAssumption ==
  /\ Ladder \in Seq(Tiers)
  /\ Ladder # <<>>
  /\ \A i, j \in DOMAIN Ladder : Ladder[i] = Ladder[j] => i = j
  /\ MaxSegments \in Nat \ {0}
  /\ MaxFaults \in Nat

VARIABLES
  \* the pipeline and its temp dir
  pipeline,   \* playing, eos, error
  written,    \* segments begun per tier
  closed,     \* segments hlssink2 has finished per tier
  disk,       \* segment files present per tier
  \* the uploader task
  up,         \* [pc, mode, tier, todo]: where it is in its tick
  uploaded,   \* uploaded_segments
  published,  \* last_published_playlist
  firstLow,   \* first_low_segment_uploaded
  notifier,   \* held, fired, dropped
  \* the coordinator
  coord,      \* racing, draining, unwinding, ok, failed, dropped
  stop,       \* the stop channel has fired or its sender is gone
  cancel,     \* the flag the pipeline thread polls
  \* the bucket
  segments,   \* segments stored per tier
  torn,       \* those that were stored while unfinished
  playlist,   \* the variant playlist of each tier
  masterList, \* master.m3u8 is stored (and master_uploaded set)
  faults

pipelineVars == <<pipeline, written, closed>>
stateVars    == <<uploaded, published, firstLow, notifier>>
coordVars    == <<coord, stop, cancel>>
bucketVars   == <<segments, torn, playlist, masterList>>
vars == <<pipeline, written, closed, disk, up, uploaded, published, firstLow,
          notifier, coord, stop, cancel, segments, torn, playlist, masterList, faults>>

Nothing   == [list |-> <<>>, final |-> FALSE]
Playlists == [list : Seq(1..MaxSegments), final : BOOLEAN]

Place(l, mode) == [pc |-> l, mode |-> mode, tier |-> 1, todo |-> {}]

Asleep == Place("sleep", "Running")
Over   == {"returned", "failed"}

Init ==
  /\ pipeline = "playing"
  /\ written    = [l \in Tiers |-> 0]
  /\ closed     = [l \in Tiers |-> 0]
  /\ disk       = [l \in Tiers |-> {}]
  /\ up = Asleep
  /\ uploaded   = [l \in Tiers |-> <<>>]
  /\ published  = [l \in Tiers |-> Nothing]
  /\ firstLow   = FALSE
  /\ notifier   = "held"
  /\ coord = "racing"
  /\ stop = FALSE
  /\ cancel = FALSE
  /\ segments   = [l \in Tiers |-> {}]
  /\ torn       = [l \in Tiers |-> {}]
  /\ playlist   = [l \in Tiers |-> Nothing]
  /\ masterList = FALSE
  /\ faults = 0

Fault == faults < MaxFaults /\ faults' = faults + 1

----------------------------------------------------------------------------
(* The pipeline thread                                                     *)

\* hlssink2 finishes a segment and begins the next.
WriteSegment(l) ==
  /\ pipeline = "playing"
  /\ coord # "dropped"
  /\ written[l] < MaxSegments
  /\ written' = [written EXCEPT ![l] = @ + 1]
  /\ closed'  = [closed EXCEPT ![l] = written[l]]
  /\ disk'    = [disk EXCEPT ![l] = @ \cup {written[l] + 1}]
  /\ UNCHANGED <<pipeline, up, stateVars, coordVars, bucketVars, faults>>

\* Environment: a stream that ends without error has given every tier a segment.
EndOfStream ==
  /\ pipeline = "playing"
  /\ \A l \in Tiers : written[l] > 0
  /\ pipeline' = "eos"
  /\ closed' = written
  /\ UNCHANGED <<written, disk, up, stateVars, coordVars, bucketVars, faults>>

\* An error on the bus: the open segments stay as they are.
PipelineFails ==
  /\ pipeline = "playing"
  /\ pipeline' = "error"
  /\ UNCHANGED <<written, closed, disk, up, stateVars, coordVars, bucketVars, faults>>

\* Mutant: the flag is not looked at.
PipelineCancelled_Never == FALSE /\ UNCHANGED vars

\* drive_pipeline_to_eos looks at the flag between two bus polls.
PipelineCancelled ==
  /\ pipeline = "playing"
  /\ cancel
  /\ pipeline' = "error"
  /\ UNCHANGED <<written, closed, disk, up, stateVars, coordVars, bucketVars, faults>>

----------------------------------------------------------------------------
(* The uploader task                                                       *)

Level == Ladder[up.tier]

UpGoes(l) == up' = [up EXCEPT !.pc = l]

\* Any error leaves run(): the uploader, and the notifier it holds, are gone.
UploaderFails ==
  /\ UpGoes("failed")
  /\ notifier' = IF notifier = "held" THEN "dropped" ELSE notifier

\* Mutant: a stop whose sender was dropped goes unnoticed.
StopSeen_Sent == stop /\ coord # "dropped"

\* The stop channel resolves when it is sent to and when its sender is gone.
StopSeen == stop

\* The select of run(): a tick after each sleep, or the final drain.  The sleep
\* starts anew in every round, so a stop that is there already always wins.
StartTick ==
  /\ up.pc = "sleep"
  /\ up' = Place("tier", IF StopSeen THEN "FinalDrain" ELSE "Running")
  /\ UNCHANGED <<pipelineVars, disk, stateVars, coordVars, bucketVars, faults>>

EndTick ==
  /\ up.pc = "tier"
  /\ up.tier > Len(Ladder)
  /\ \/ /\ up.mode = "Running"
        /\ up' = Asleep
        /\ UNCHANGED notifier
     \/ /\ up.mode = "FinalDrain"
        /\ UpGoes("returned")
        /\ notifier' = IF notifier = "held" THEN "dropped" ELSE notifier
  /\ UNCHANGED <<pipelineVars, disk, uploaded, published, firstLow, coordVars,
                 bucketVars, faults>>

\* Mutant: nothing is held back.
Uploadable_All(files, mode) == files

\* select_uploadable_segments: a running tick holds back the newest file.
Uploadable(files, mode) ==
  IF mode = "FinalDrain" THEN files ELSE {s \in files : \E t \in files : s < t}

\* upload_tier: scan_segments; a missing directory is skipped.
ScanTier ==
  /\ up.pc = "tier"
  /\ up.tier <= Len(Ladder)
  /\ \/ /\ coord # "dropped"
        /\ up' = [up EXCEPT !.pc = "segment", !.todo = Uploadable(disk[Level], up.mode)]
        /\ UNCHANGED <<notifier, faults>>
     \/ /\ coord = "dropped"
        /\ up' = [up EXCEPT !.tier = @ + 1]
        /\ UNCHANGED <<notifier, faults>>
     \/ Fault /\ UploaderFails
  /\ UNCHANGED <<pipelineVars, disk, uploaded, published, firstLow, coordVars, bucketVars>>

\* Mutant: nobody asks whether a segment has been uploaded.
Listed_Never(l) == {}

Listed(l) == {uploaded[l][i] : i \in DOMAIN uploaded[l]}

\* Mutant: readdir order.
NextSegment_Any(s) == s \in up.todo

\* The files are taken in the order of their names.
NextSegment(s) == s \in up.todo /\ \A t \in up.todo : s <= t

\* Already uploaded, but its file is still there: the local delete had failed.
SkipSegment ==
  /\ up.pc = "segment"
  /\ \E s \in up.todo : NextSegment(s) /\ s \in Listed(Level)
  /\ UpGoes("playlist")
  /\ UNCHANGED <<pipelineVars, disk, stateVars, coordVars, bucketVars, faults>>

\* Mutant: any tier's first segment publishes the master.
IsFirstLow_AnyTier == ~firstLow

IsFirstLow == Level = Low /\ ~firstLow

\* upload_one_segment: put, remove the file (which may fail), remember.  An
\* upload under way when the temp dir goes has its bytes in memory already.
UploadSegment ==
  /\ up.pc = "segment"
  /\ \E s \in up.todo :
       /\ NextSegment(s)
       /\ s \notin Listed(Level)
       /\ s \in disk[Level] \/ coord = "dropped"
       /\ segments' = [segments EXCEPT ![Level] = @ \cup {s}]
       /\ torn'     = [torn EXCEPT ![Level] = IF s > closed[Level] THEN @ \cup {s} ELSE @]
       /\ uploaded' = [uploaded EXCEPT ![Level] = Append(@, s)]
       /\ \/ disk' = [disk EXCEPT ![Level] = @ \ {s}] /\ UNCHANGED faults
          \/ Fault /\ UNCHANGED disk
  /\ firstLow' = (firstLow \/ IsFirstLow)
  /\ UpGoes(IF IsFirstLow THEN "lowPlaylist" ELSE "playlist")
  /\ UNCHANGED <<pipelineVars, published, notifier, coordVars, playlist, masterList>>

UploadSegmentFails ==
  /\ up.pc = "segment"
  /\ \E s \in up.todo :
       /\ NextSegment(s)
       /\ s \notin Listed(Level)
       /\ IF s \in disk[Level] THEN Fault ELSE UNCHANGED faults
  /\ UploaderFails
  /\ UNCHANGED <<pipelineVars, disk, uploaded, published, firstLow, coordVars, bucketVars>>

\* synthesize_variant_playlist
Body(l, mode) == [list |-> uploaded[l], final |-> mode = "FinalDrain"]

\* publish_variant_playlist_if_changed
Publish(l, mode) ==
  LET body == Body(l, mode) IN
  IF uploaded[l] = <<>> \/ published[l] = body
    THEN UNCHANGED <<playlist, published>>
    ELSE /\ playlist'  = [playlist EXCEPT ![l] = body]
         /\ published' = [published EXCEPT ![l] = body]

PublishFails == Fault /\ UploaderFails /\ UNCHANGED <<playlist, published>>

\* publish_master_and_notify, first half: the low variant playlist.
PublishLow ==
  /\ up.pc = "lowPlaylist"
  /\ \/ Publish(Low, "Running") /\ UpGoes("master") /\ UNCHANGED <<notifier, faults>>
     \/ PublishFails
  /\ UNCHANGED <<pipelineVars, disk, uploaded, firstLow, coordVars, segments, torn,
                 masterList>>

\* Second half: the master playlist, then fire_notifier_once.
PublishMaster ==
  /\ up.pc = "master"
  /\ \/ /\ masterList' = TRUE
        /\ notifier' = IF notifier = "held" THEN "fired" ELSE notifier
        /\ UpGoes("playlist")
        /\ UNCHANGED faults
     \/ Fault /\ UploaderFails /\ UNCHANGED masterList
  /\ UNCHANGED <<pipelineVars, disk, uploaded, published, firstLow, coordVars, segments, torn,
                 playlist>>

\* Mutant: the mode of the tick is used in mid-loop.
MidLoopMode_OfTick == up.mode

MidLoopMode == "Running"

\* The publish after each segment.
PublishVariant ==
  /\ up.pc = "playlist"
  /\ \/ /\ Publish(Level, MidLoopMode)
        /\ up' = [up EXCEPT !.pc = "segment",
                            !.todo = {s \in @ : \E t \in @ : t < s}]
        /\ UNCHANGED <<notifier, faults>>
     \/ PublishFails
  /\ UNCHANGED <<pipelineVars, disk, uploaded, firstLow, coordVars, segments, torn,
                 masterList>>

\* The publish after the loop, with the real mode.
CloseTier ==
  /\ up.pc = "segment"
  /\ up.todo = {}
  /\ \/ /\ Publish(Level, up.mode)
        /\ up' = [up EXCEPT !.pc = "tier", !.tier = @ + 1]
        /\ UNCHANGED <<notifier, faults>>
     \/ PublishFails
  /\ UNCHANGED <<pipelineVars, disk, uploaded, firstLow, coordVars, segments, torn,
                 masterList>>

UploaderStep ==
  \/ StartTick
  \/ EndTick
  \/ ScanTier
  \/ SkipSegment
  \/ UploadSegment
  \/ UploadSegmentFails
  \/ PublishLow
  \/ PublishMaster
  \/ PublishVariant
  \/ CloseTier

----------------------------------------------------------------------------
(* The coordinator: transcode_to_hls itself                                *)

\* The pipeline was first: ask for the drain, then wait for the uploader.
PipelineJoined ==
  /\ coord = "racing"
  /\ pipeline # "playing"
  /\ coord' = "draining"
  /\ stop' = TRUE
  /\ UNCHANGED <<pipelineVars, disk, up, stateVars, cancel, bucketVars, faults>>

\* The uploader was first, with an error: cancel the pipeline and wait for it.
UploaderJoined ==
  /\ coord = "racing"
  /\ up.pc \in Over
  /\ coord' = "unwinding"
  /\ cancel' = TRUE
  /\ UNCHANGED <<pipelineVars, disk, up, stateVars, stop, bucketVars, faults>>

\* Mutant: the uploader's result is dropped.
Outcome_OfPipeline == IF pipeline = "eos" THEN "ok" ELSE "failed"

\* pipeline_result.and(uploader_result), or the uploader's alone.
Outcome ==
  IF up.pc = "returned" /\ (coord = "draining" => pipeline = "eos") THEN "ok" ELSE "failed"

Return ==
  /\ \/ coord = "draining" /\ up.pc \in Over
     \/ coord = "unwinding" /\ pipeline # "playing"
  /\ coord' = Outcome
  /\ UNCHANGED <<pipelineVars, disk, up, stateVars, stop, cancel, bucketVars, faults>>

\* The handler's timeout (or a panic of the pipeline thread): this future is
\* dropped, and with it the temp dir and the stop sender, but neither the
\* thread nor the uploader task.
Dropped ==
  /\ coord \in {"racing", "draining", "unwinding"}
  /\ coord' = "dropped"
  /\ stop' = TRUE
  /\ disk' = [l \in Tiers |-> {}]
  /\ UNCHANGED <<pipelineVars, up, stateVars, cancel, bucketVars, faults>>

Next ==
  \/ \E l \in Tiers : WriteSegment(l)
  \/ EndOfStream
  \/ PipelineFails
  \/ PipelineCancelled
  \/ UploaderStep
  \/ PipelineJoined
  \/ UploaderJoined
  \/ Return
  \/ Dropped

\* The tasks run on; nothing makes a pipeline finish or fail.
Fairness ==
  /\ WF_vars(UploaderStep)
  /\ WF_vars(PipelineCancelled)
  /\ WF_vars(PipelineJoined)
  /\ WF_vars(UploaderJoined)
  /\ WF_vars(Return)

Spec     == Init /\ [][Next]_vars
FairSpec == Spec /\ Fairness

----------------------------------------------------------------------------
(* What the run of ProcessVideo sees of all this: HlsStream                *)

\* Elements of a playlist.
On(l) == {playlist[l].list[i] : i \in DOMAIN playlist[l].list}

LowInLadder == Low \in Tiers

\* Of what a player asks for first, what is stored.
StoredFirst ==
  {o \in {"segment", "playlist", "master"} :
     CASE o = "segment"  -> LowInLadder /\ 1 \in segments[Low]
       [] o = "playlist" -> LowInLadder /\ On(Low) # {}
       [] o = "master"   -> masterList}

\* What is put next: the first that is missing.
Stage ==
  IF ~LowInLadder \/ "master" \in StoredFirst THEN "more"
  ELSE IF "playlist" \in StoredFirst THEN "master"
  ELSE IF "segment" \in StoredFirst THEN "playlist"
  ELSE "segment"

\* transcode_to_hls has returned, or is gone and its uploader with it.
Ended == coord \in {"ok", "failed"} \/ (coord = "dropped" /\ up.pc \in Over)

Publisher == CASE notifier = "fired" -> "notified"
               [] notifier # "fired" -> IF Ended THEN "ended" ELSE "waiting"

Stream == INSTANCE HlsStream WITH
  stream <- [up |-> IF Ended THEN "ended" ELSE Stage, pub |-> Publisher],
  stored <- StoredFirst,
  result <- IF coord \in {"ok", "failed"} THEN coord ELSE "none"

----------------------------------------------------------------------------
(* Properties                                                              *)

PipelineTyped ==
  /\ pipeline \in {"playing", "eos", "error"}
  /\ written \in [Tiers -> 0..MaxSegments]
  /\ closed \in [Tiers -> 0..MaxSegments]
  /\ disk \in [Tiers -> SUBSET (1..MaxSegments)]

\* The places of the uploader in which it is about Level.
InTier == {"segment", "lowPlaylist", "master", "playlist"}

UploaderTyped ==
  /\ up \in [pc   : {"sleep", "tier"} \cup InTier \cup Over,
             mode : {"Running", "FinalDrain"},
             tier : 1..(Len(Ladder) + 1),
             todo : SUBSET (1..MaxSegments)]
  /\ up.pc \in InTier => up.tier \in DOMAIN Ladder
  /\ firstLow \in BOOLEAN
  /\ notifier \in {"held", "fired", "dropped"}

ListsTyped ==
  /\ uploaded \in [Tiers -> Seq(1..MaxSegments)]
  /\ \A l \in Tiers : Len(uploaded[l]) <= MaxSegments
  /\ published \in [Tiers -> Playlists]
  /\ playlist \in [Tiers -> Playlists]

CoordinatorTyped ==
  /\ coord \in {"racing", "draining", "unwinding", "ok", "failed", "dropped"}
  /\ stop \in BOOLEAN
  /\ cancel \in BOOLEAN

BucketTyped ==
  /\ segments \in [Tiers -> SUBSET (1..MaxSegments)]
  /\ torn \in [Tiers -> SUBSET (1..MaxSegments)]
  /\ masterList \in BOOLEAN
  /\ faults \in 0..MaxFaults

TypeOK ==
  /\ PipelineTyped
  /\ UploaderTyped
  /\ ListsTyped
  /\ CoordinatorTyped
  /\ BucketTyped

\* "the S3 state is always authoritative": a playlist never names a segment
\* that is not stored, and names them from the first, in order, without a gap.
PlaylistsAreSound ==
  \A l \in Tiers :
    /\ On(l) \subseteq segments[l]
    /\ \A i \in DOMAIN playlist[l].list : playlist[l].list[i] = i

\* The newest file is held back: as long as the transcode may still succeed,
\* no segment has been stored half written.
StoredSegmentsAreWhole ==
  pipeline # "error" /\ coord # "dropped" => \A l \in Tiers : torn[l] = {}

\* The notifier has fired only if what a player asks for first is stored: the
\* master playlist, the low variant, its first segment.
NotifiedIsPlayable ==
  notifier = "fired" => masterList /\ 1 \in On(Low) /\ 1 \in segments[Low]

\* A transcode that returns Ok has stored everything: every segment of every
\* tier, each tier's playlist closed over all of them, and - with a low tier in
\* the ladder - the master playlist, its notifier fired.
OkIsComplete ==
  coord = "ok" =>
    /\ \A l \in Tiers : playlist[l].final /\ On(l) = 1..written[l] /\ segments[l] = On(l)
    /\ Low \in Tiers => masterList /\ notifier = "fired"

\* EVENT playlists only grow, and a playlist closed by #EXT-X-ENDLIST never
\* changes again: "finalization happens exactly once".
PlaylistsOnlyGrow ==
  [][\A l \in Tiers :
       /\ Len(playlist[l].list) <= Len(playlist'[l].list)
       /\ playlist[l].final => playlist'[l] = playlist[l]]_vars

\* Uploader, pipeline and coordinator together implement HlsStream: whatever
\* order their steps come in, VideoLifecycle's picture of a transcode holds.
ImplementsStream == Stream!Spec

\* An uploader's failure unwinds the whole transcode, however long the
\* pipeline would have gone on.
FailureUnwinds == up.pc = "failed" ~> coord \in {"ok", "failed", "dropped"}

\* The uploader outlives a dropped handler only to wind down: it ends, and the
\* notifier with it, so that the publisher waiting for it ends as well.
DetachedUploaderEnds == coord = "dropped" ~> (up.pc \in Over /\ notifier # "held")

\* The port's documentation: "If the transcoder errors first, the notifier is
\* dropped unfired."  The drain after an error may fire it.
ErrorDropsTheNotifier ==
  [][pipeline = "error" /\ notifier = "held" => notifier' # "fired"]_vars

----------------------------------------------------------------------------
(* What makes the properties inductive (proved in HlsUploader_proofs)      *)

\* Segments are uploaded in their order, and listed as they are uploaded.
ListsInOrder ==
  \A l \in Tiers :
    /\ \A i \in DOMAIN uploaded[l] : uploaded[l][i] = i
    /\ segments[l] = 1..Len(uploaded[l])
    /\ Len(uploaded[l]) <= written[l]
    /\ published[l] = playlist[l]
    /\ \A i \in DOMAIN playlist[l].list : playlist[l].list[i] = i
    /\ Len(playlist[l].list) <= Len(uploaded[l])

\* Those that are not uploaded are numbers beyond those that are.
Missing(l) == (Len(uploaded[l]) + 1)..written[l]

\* A file is removed only when it is uploaded.
DiskKept ==
  \A l \in Tiers :
    /\ disk[l] \subseteq 1..written[l]
    /\ coord # "dropped" => Missing(l) \subseteq disk[l]

\* What is to be done in a tier has no gap, and no first segment left behind.
TodoInOrder ==
  up.pc \in InTier =>
    /\ up.todo \subseteq 1..written[Level]
    /\ \A s \in up.todo : (Len(uploaded[Level]) + 1)..s \subseteq up.todo
    /\ up.pc # "segment" =>
         \E m \in up.todo : m <= Len(uploaded[Level]) /\ \A t \in up.todo : m <= t

\* While the pipeline plays, the newest segment of each tier is open.
OneOpenSegment ==
  /\ pipeline = "playing" =>
       \A l \in Tiers : closed[l] = IF written[l] = 0 THEN 0 ELSE written[l] - 1
  /\ pipeline = "eos" => \A l \in Tiers : written[l] > 0 /\ closed[l] = written[l]

\* Nobody drains, and nobody is done, while the pipeline plays.
Coordinated ==
  /\ stop => coord \notin {"racing", "unwinding"}
  /\ stop \/ coord \in {"draining", "ok", "failed"} => pipeline # "playing" \/ coord = "dropped"
  /\ up.mode = "FinalDrain" => stop
  /\ up.pc = "returned" => up.mode = "FinalDrain" /\ up.tier > Len(Ladder)
  /\ coord \in {"unwinding", "ok", "failed"} => up.pc \in Over
  /\ coord = "ok" => up.pc = "returned" /\ pipeline = "eos"

TodoIsWhole ==
  pipeline # "error" /\ coord # "dropped" /\ up.pc \in InTier =>
    \A s \in up.todo : s <= closed[Level]

\* The first low segment, then the low playlist, then the master playlist and
\* the notifier: nothing comes in between but the end of the uploader.
LowComesFirst ==
  /\ firstLow <=> LowInLadder /\ uploaded[Low] # <<>>
  /\ firstLow => masterList \/ up.pc \in {"lowPlaylist", "master", "failed"}
  /\ LowInLadder /\ playlist[Low].list # <<>> => masterList \/ up.pc \in {"master", "failed"}
  /\ up.pc = "lowPlaylist" => firstLow /\ Level = Low
  /\ up.pc = "master" => firstLow /\ playlist[Low].list # <<>>
  /\ up.pc \in {"lowPlaylist", "master"} => ~masterList
  /\ masterList => firstLow /\ playlist[Low].list # <<>>
  /\ masterList <=> notifier = "fired"
  /\ notifier = "dropped" => up.pc \in Over

\* The drain leaves nothing behind in the tiers it has done.
Complete(l) ==
  /\ Len(uploaded[l]) = written[l]
  /\ written[l] > 0 => playlist[l] = Body(l, "FinalDrain")

DrainIsComplete ==
  up.mode = "FinalDrain" /\ coord # "dropped" =>
    /\ \A i \in DOMAIN Ladder : i < up.tier => Complete(Ladder[i])
    /\ up.pc \in InTier => Missing(Level) \subseteq up.todo

\* Only the one drain closes a playlist, and it does not come back to its tier.
ClosedBehind ==
  /\ up.pc = "sleep" => up.mode = "Running"
  /\ \A i \in DOMAIN Ladder :
       playlist[Ladder[i]].final => up.mode = "FinalDrain" /\ i < up.tier

HlsInv ==
  /\ ListsInOrder
  /\ DiskKept
  /\ TodoInOrder
  /\ OneOpenSegment
  /\ Coordinated
  /\ TodoIsWhole
  /\ StoredSegmentsAreWhole
  /\ LowComesFirst
  /\ DrainIsComplete
=============================================================================
