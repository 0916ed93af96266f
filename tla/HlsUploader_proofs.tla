------------------------- MODULE HlsUploader_proofs -------------------------
(***************************************************************************)
(* Theorems about HlsUploader, for every ladder, every number of segments   *)
(* and every budget of failed calls.                                        *)
(***************************************************************************)
EXTENDS HlsUploader, TLAPS

LEMMA LadderTiers ==
  /\ Len(Ladder) \in Nat \ {0}
  /\ DOMAIN Ladder = 1..Len(Ladder)
  /\ \A i \in 1..Len(Ladder) : Ladder[i] \in Tiers
  BY HlsAssumption DEF Tiers

LEMMA LevelIsATier ==
  ASSUME TypeOK, up.pc \in InTier
  PROVE  up.tier \in 1..Len(Ladder) /\ Level \in Tiers
  BY LadderTiers DEF TypeOK, UploaderTyped, Level

----------------------------------------------------------------------------
(* Types                                                                   *)

LEMMA AsleepType ==
  ASSUME NEW m \in {"Running", "FinalDrain"}, NEW l \in {"sleep", "tier"}
  PROVE  /\ Place(l, m) \in [pc   : {"sleep", "tier"} \cup InTier \cup Over,
                             mode : {"Running", "FinalDrain"},
                             tier : 1..(Len(Ladder) + 1),
                             todo : SUBSET (1..MaxSegments)]
         /\ Place(l, m).pc \notin InTier
<1>1. 1 \in 1..(Len(Ladder) + 1)
  BY LadderTiers
<1>2. QED
  BY <1>1 DEF Place, InTier

LEMMA InitType == Init => TypeOK
<1> SUFFICES ASSUME Init PROVE TypeOK
  OBVIOUS
<1>1. Nothing \in Playlists
  BY DEF Nothing, Playlists
<1>2. PipelineTyped /\ CoordinatorTyped /\ BucketTyped
  <2>1. 0 \in 0..MaxSegments /\ 0 \in 0..MaxFaults
    BY HlsAssumption
  <2>2. QED
    BY <2>1 DEF Init, PipelineTyped, CoordinatorTyped, BucketTyped
<1>3. UploaderTyped
  <2>1. Asleep \in [pc   : {"sleep", "tier"} \cup InTier \cup Over,
                    mode : {"Running", "FinalDrain"},
                    tier : 1..(Len(Ladder) + 1),
                    todo : SUBSET (1..MaxSegments)]
        /\ Asleep.pc \notin InTier
    BY AsleepType DEF Asleep
  <2>2. QED
    BY <2>1 DEF Init, UploaderTyped
<1>4. ListsTyped
  <2>1. <<>> \in Seq(1..MaxSegments) /\ Len(<<>>) = 0
    OBVIOUS
  <2>2. QED
    BY <1>1, <2>1, HlsAssumption DEF Init, ListsTyped
<1>5. QED
  BY <1>2, <1>3, <1>4 DEF TypeOK

\* The uploader moves on within its types.
LEMMA PlaceType ==
  ASSUME UploaderTyped, NEW l \in {"sleep", "tier"} \cup InTier \cup Over,
         UpGoes(l), l \in InTier => up.pc \in InTier,
         firstLow' \in BOOLEAN, notifier' \in {"held", "fired", "dropped"}
  PROVE  UploaderTyped'
  BY DEF UploaderTyped, UpGoes

LEMMA FailType ==
  ASSUME UploaderTyped, UploaderFails, UNCHANGED firstLow
  PROVE  UploaderTyped'
<1>1. notifier' \in {"held", "fired", "dropped"} /\ firstLow' \in BOOLEAN
  BY DEF UploaderFails, UploaderTyped
<1>2. QED
  BY <1>1, PlaceType DEF UploaderFails, InTier, Over

LEMMA FaultType ==
  ASSUME BucketTyped, Fault \/ UNCHANGED faults,
         segments' \in [Tiers -> SUBSET (1..MaxSegments)],
         torn' \in [Tiers -> SUBSET (1..MaxSegments)],
         masterList' \in BOOLEAN
  PROVE  BucketTyped'
  BY HlsAssumption DEF BucketTyped, Fault

LEMMA PublishType ==
  ASSUME ListsTyped, NEW l \in Tiers, NEW mode,
         Publish(l, mode) \/ PublishFails, UNCHANGED uploaded
  PROVE  ListsTyped'
<1>1. Body(l, mode) \in Playlists
  BY DEF ListsTyped, Body, Playlists
<1>2. playlist' \in [Tiers -> Playlists] /\ published' \in [Tiers -> Playlists]
  BY <1>1 DEF ListsTyped, Publish, PublishFails
<1>3. QED
  BY <1>2 DEF ListsTyped

LEMMA PipelineType ==
  ASSUME TypeOK,
         (\E l \in Tiers : WriteSegment(l)) \/ EndOfStream \/ PipelineFails \/ PipelineCancelled
  PROVE  TypeOK'
<1>1. UNCHANGED <<up, stateVars, coordVars, bucketVars, faults>>
  BY DEF WriteSegment, EndOfStream, PipelineFails, PipelineCancelled
<1>2. PipelineTyped'
  <2>1. ASSUME NEW l \in Tiers, WriteSegment(l) PROVE PipelineTyped'
    <3>1. written[l] \in 0..MaxSegments /\ written[l] + 1 \in 1..MaxSegments
      BY <2>1, HlsAssumption DEF TypeOK, PipelineTyped, WriteSegment
    <3>2. QED
      BY <2>1, <3>1, HlsAssumption DEF TypeOK, PipelineTyped, WriteSegment
  <2>2. QED
    BY <2>1 DEF TypeOK, PipelineTyped, EndOfStream, PipelineFails, PipelineCancelled
<1>3. QED
  BY <1>1, <1>2
  DEF TypeOK, UploaderTyped, ListsTyped, CoordinatorTyped, BucketTyped, stateVars, coordVars,
      bucketVars

LEMMA CoordinatorType ==
  ASSUME TypeOK, PipelineJoined \/ UploaderJoined \/ Return \/ Dropped
  PROVE  TypeOK'
<1>1. UNCHANGED <<pipelineVars, up, stateVars, bucketVars, faults>>
  BY DEF PipelineJoined, UploaderJoined, Return, Dropped
<1>2. CoordinatorTyped'
  BY DEF TypeOK, CoordinatorTyped, PipelineJoined, UploaderJoined, Return, Dropped, Outcome
<1>3. PipelineTyped'
  BY <1>1
  DEF TypeOK, PipelineTyped, pipelineVars, PipelineJoined, UploaderJoined, Return, Dropped
<1>4. QED
  BY <1>1, <1>2, <1>3 DEF TypeOK, UploaderTyped, ListsTyped, BucketTyped, stateVars, bucketVars

LEMMA TickType ==
  ASSUME TypeOK, StartTick \/ EndTick \/ ScanTier \/ SkipSegment
  PROVE  TypeOK'
<1>1. UNCHANGED <<pipelineVars, disk, uploaded, published, firstLow, coordVars, bucketVars>>
  BY DEF StartTick, EndTick, ScanTier, SkipSegment, stateVars
<1>2. BucketTyped'
  <2>1. Fault \/ UNCHANGED faults
    BY DEF StartTick, EndTick, ScanTier, SkipSegment
  <2>2. QED
    BY <1>1, <2>1, FaultType DEF TypeOK, BucketTyped, bucketVars
<1>3. UploaderTyped'
  <2>1. CASE StartTick
    BY <2>1, AsleepType DEF TypeOK, UploaderTyped, StartTick, StopSeen, stateVars
  <2>2. CASE EndTick
    <3>1. CASE up' = Asleep /\ UNCHANGED notifier
      BY <1>1, <3>1, AsleepType DEF TypeOK, UploaderTyped, Asleep
    <3>2. CASE UpGoes("returned") /\ notifier' = IF notifier = "held" THEN "dropped" ELSE notifier
      <4>1. notifier' \in {"held", "fired", "dropped"} /\ firstLow' \in BOOLEAN
        BY <1>1, <3>2 DEF TypeOK, UploaderTyped
      <4>2. QED
        BY <3>2, <4>1, PlaceType DEF TypeOK, InTier, Over
    <3>3. QED
      BY <2>2, <3>1, <3>2 DEF EndTick
  <2>3. CASE ScanTier
    <3>1. up.tier \in 1..Len(Ladder) /\ up.tier + 1 \in 1..(Len(Ladder) + 1)
      BY <2>3, LadderTiers DEF TypeOK, UploaderTyped, ScanTier
    <3>2. Uploadable(disk[Level], up.mode) \subseteq 1..MaxSegments
      BY <3>1, LadderTiers DEF TypeOK, PipelineTyped, Uploadable, Level
    <3>3. CASE up' = [up EXCEPT !.pc = "segment", !.todo = Uploadable(disk[Level], up.mode)]
               /\ UNCHANGED notifier
      BY <1>1, <3>1, <3>2, <3>3, LadderTiers DEF TypeOK, UploaderTyped, InTier
    <3>4. CASE up' = [up EXCEPT !.tier = @ + 1] /\ UNCHANGED notifier
      BY <1>1, <2>3, <3>1, <3>4 DEF TypeOK, UploaderTyped, InTier, ScanTier
    <3>5. CASE UploaderFails
      BY <1>1, <3>5, FailType DEF TypeOK
    <3>6. QED
      BY <2>3, <3>3, <3>4, <3>5 DEF ScanTier
  <2>4. CASE SkipSegment
    BY <2>4, PlaceType DEF TypeOK, UploaderTyped, SkipSegment, InTier, Over, stateVars
  <2>5. QED
    BY <2>1, <2>2, <2>3, <2>4
<1>4. QED
  BY <1>1, <1>2, <1>3
  DEF TypeOK, PipelineTyped, ListsTyped, CoordinatorTyped, pipelineVars, coordVars, bucketVars

LEMMA PublishesType ==
  ASSUME TypeOK, HlsInv, PublishLow \/ PublishMaster \/ PublishVariant \/ CloseTier
  PROVE  TypeOK'
<1>1. UNCHANGED <<pipelineVars, disk, uploaded, firstLow, coordVars, segments, torn>>
  BY DEF PublishLow, PublishMaster, PublishVariant, CloseTier
<1>2. Level \in Tiers /\ up.tier \in 1..Len(Ladder) /\ up.pc \in InTier
  BY LevelIsATier DEF PublishLow, PublishMaster, PublishVariant, CloseTier, InTier
<1>3. BucketTyped'
  <2>1. Fault \/ UNCHANGED faults
    BY DEF PublishLow, PublishMaster, PublishVariant, CloseTier, PublishFails
  <2>2. masterList' \in BOOLEAN
    BY DEF TypeOK, BucketTyped, PublishLow, PublishMaster, PublishVariant, CloseTier
  <2>3. QED
    BY <1>1, <2>1, <2>2, FaultType DEF TypeOK, BucketTyped
<1>4. ListsTyped'
  <2>1. CASE PublishLow
    BY <1>1, <1>2, <2>1, PublishType DEF TypeOK, PublishLow, HlsInv, LowComesFirst
  <2>2. CASE PublishMaster
    BY <1>1, <2>2 DEF TypeOK, ListsTyped, PublishMaster
  <2>3. CASE PublishVariant
    BY <1>1, <1>2, <2>3, PublishType DEF TypeOK, PublishVariant
  <2>4. CASE CloseTier
    BY <1>1, <1>2, <2>4, PublishType DEF TypeOK, CloseTier
  <2>5. QED
    BY <2>1, <2>2, <2>3, <2>4
<1>5. UploaderTyped'
  <2>1. CASE UploaderFails
    BY <1>1, <2>1, FailType DEF TypeOK
  <2>2. CASE PublishLow /\ ~UploaderFails
    <3>1. UpGoes("master") /\ UNCHANGED <<notifier, firstLow>>
      BY <1>1, <2>2 DEF PublishLow, PublishFails
    <3>2. QED
      BY <1>2, <3>1, PlaceType DEF TypeOK, UploaderTyped, InTier
  <2>3. CASE PublishMaster /\ ~UploaderFails
    <3>1. UpGoes("playlist") /\ notifier' \in {"held", "fired", "dropped"} /\ UNCHANGED firstLow
      BY <1>1, <2>3 DEF PublishMaster, TypeOK, UploaderTyped
    <3>2. QED
      BY <1>2, <3>1, PlaceType DEF TypeOK, UploaderTyped, InTier
  <2>4. CASE PublishVariant /\ ~UploaderFails
    <3>1. /\ up' = [up EXCEPT !.pc = "segment", !.todo = {s \in @ : \E t \in @ : t < s}]
          /\ UNCHANGED <<notifier, firstLow>>
      BY <1>1, <2>4 DEF PublishVariant, PublishFails
    <3>2. {s \in up.todo : \E t \in up.todo : t < s} \in SUBSET (1..MaxSegments)
      BY DEF TypeOK, UploaderTyped
    <3>3. QED
      BY <1>2, <3>1, <3>2, LadderTiers DEF TypeOK, UploaderTyped, InTier
  <2>5. CASE CloseTier /\ ~UploaderFails
    <3>1. /\ up' = [up EXCEPT !.pc = "tier", !.tier = @ + 1]
          /\ UNCHANGED <<notifier, firstLow>>
      BY <1>1, <2>5 DEF CloseTier, PublishFails
    <3>2. up.tier + 1 \in 1..(Len(Ladder) + 1)
      BY <1>2, LadderTiers
    <3>3. QED
      BY <3>1, <3>2 DEF TypeOK, UploaderTyped, InTier
  <2>6. QED
    BY <2>1, <2>2, <2>3, <2>4, <2>5
<1>6. QED
  BY <1>1, <1>3, <1>4, <1>5 DEF TypeOK, PipelineTyped, CoordinatorTyped, pipelineVars, coordVars

----------------------------------------------------------------------------
(* The pipeline                                                            *)

LEMMA InitInv == Init => HlsInv
<1> SUFFICES ASSUME Init PROVE HlsInv
  OBVIOUS
<1>1. \A l \in Tiers : /\ written[l] = 0 /\ closed[l] = 0 /\ disk[l] = {} /\ uploaded[l] = <<>>
                      /\ segments[l] = {} /\ torn[l] = {}
                      /\ published[l] = Nothing /\ playlist[l] = Nothing
  BY DEF Init
<1>2. up.pc = "sleep" /\ up.mode = "Running"
  BY DEF Init, Asleep, Place
<1>3. Nothing.list = <<>> /\ Len(<<>>) = 0 /\ DOMAIN <<>> = {}
  BY DEF Nothing
<1>4. ListsInOrder
  <2>1. 1..Len(<<>>) = {} /\ Len(<<>>) <= 0
    OBVIOUS
  <2>2. QED
    BY <1>1, <1>3, <2>1 DEF ListsInOrder
<1>5. DiskKept /\ OneOpenSegment
  BY <1>1, <1>3 DEF DiskKept, Missing, OneOpenSegment, Init
<1>6. TodoInOrder /\ TodoIsWhole /\ StoredSegmentsAreWhole /\ DrainIsComplete
  BY <1>1, <1>2 DEF TodoInOrder, TodoIsWhole, StoredSegmentsAreWhole, DrainIsComplete, InTier
<1>7. Coordinated
  BY <1>2 DEF Init, Coordinated, Over
<1>8. LowComesFirst
  BY <1>1, <1>2, <1>3 DEF Init, LowComesFirst, LowInLadder
<1>9. QED
  BY <1>4, <1>5, <1>6, <1>7, <1>8 DEF HlsInv

LEMMA WriteSegmentInv ==
  ASSUME TypeOK, HlsInv, NEW l \in Tiers, WriteSegment(l)
  PROVE  HlsInv'
<1>1. /\ UNCHANGED <<pipeline, up, uploaded, published, firstLow, notifier, coord, stop, cancel,
                      segments, torn, playlist, masterList>>
      /\ pipeline = "playing" /\ coord # "dropped"
      /\ written' = [written EXCEPT ![l] = written[l] + 1]
      /\ closed' = [closed EXCEPT ![l] = written[l]]
      /\ disk' = [disk EXCEPT ![l] = disk[l] \cup {written[l] + 1}]
  BY DEF WriteSegment, stateVars, coordVars, bucketVars
<1>t. \A k \in Tiers : written[k] \in Nat /\ closed[k] \in Nat /\ Len(uploaded[k]) \in Nat
  BY DEF TypeOK, PipelineTyped, ListsTyped
<1>2. \A k \in Tiers : /\ written'[k] = IF k = l THEN written[k] + 1 ELSE written[k]
                       /\ closed'[k] = IF k = l THEN written[k] ELSE closed[k]
                       /\ disk'[k] = IF k = l THEN disk[k] \cup {written[k] + 1} ELSE disk[k]
  <2> SUFFICES ASSUME NEW k \in Tiers
               PROVE  /\ written'[k] = IF k = l THEN written[k] + 1 ELSE written[k]
                      /\ closed'[k] = IF k = l THEN written[k] ELSE closed[k]
                      /\ disk'[k] = IF k = l THEN disk[k] \cup {written[k] + 1} ELSE disk[k]
    OBVIOUS
  <2>1. written \in [Tiers -> 0..MaxSegments] /\ closed \in [Tiers -> 0..MaxSegments]
        /\ disk \in [Tiers -> SUBSET (1..MaxSegments)]
    BY DEF TypeOK, PipelineTyped
  <2>2. written' = [written EXCEPT ![l] = written[l] + 1]
    BY <1>1
  <2>3. closed' = [closed EXCEPT ![l] = written[l]]
    BY <1>1
  <2>4. disk' = [disk EXCEPT ![l] = disk[l] \cup {written[l] + 1}]
    BY <1>1
  <2>5. written'[k] = IF k = l THEN written[k] + 1 ELSE written[k]
    BY <2>1, <2>2
  <2>6. closed'[k] = IF k = l THEN written[k] ELSE closed[k]
    BY <2>1, <2>3
  <2>7. disk'[k] = IF k = l THEN disk[k] \cup {written[k] + 1} ELSE disk[k]
    BY <2>1, <2>4
  <2>8. QED
    BY <2>5, <2>6, <2>7
<1>3. ListsInOrder'
  BY <1>1, <1>t, <1>2 DEF HlsInv, ListsInOrder
<1>4. DiskKept'
  <2> SUFFICES ASSUME NEW k \in Tiers
               PROVE  /\ disk'[k] \subseteq 1..written'[k]
                      /\ Missing(k)' \subseteq disk'[k]
    BY DEF DiskKept
  <2>1. disk[k] \subseteq 1..written[k] /\ Missing(k) \subseteq disk[k]
    BY <1>1 DEF HlsInv, DiskKept
  <2>2. CASE k = l
    <3>1. written[l] \in Nat /\ Len(uploaded[l]) \in Nat
      BY <1>t
    <3>2. written'[l] = written[l] + 1 /\ disk'[l] = disk[l] \cup {written[l] + 1}
      BY <1>2
    <3>3. disk[l] \subseteq 1..written[l] /\ (Len(uploaded[l]) + 1)..written[l] \subseteq disk[l]
      BY <2>1, <2>2 DEF Missing
    <3>4. disk[l] \cup {written[l] + 1} \subseteq 1..(written[l] + 1)
      BY <3>1, <3>3
    <3>5. (Len(uploaded[l]) + 1)..(written[l] + 1) \subseteq disk[l] \cup {written[l] + 1}
      BY <3>1, <3>3
    <3>6. QED
      BY <1>1, <2>2, <3>2, <3>4, <3>5 DEF Missing
  <2>3. CASE k # l
    BY <1>1, <1>t, <1>2, <2>1, <2>3 DEF Missing
  <2>4. QED
    BY <2>2, <2>3
<1>5. TodoInOrder'
  BY <1>1, <1>t, <1>2, LevelIsATier DEF HlsInv, TodoInOrder, Level
<1>6. OneOpenSegment'
  <2>1. \A k \in Tiers : closed[k] = IF written[k] = 0 THEN 0 ELSE written[k] - 1
    BY <1>1 DEF HlsInv, OneOpenSegment
  <2>2. \A k \in Tiers : closed'[k] = IF written'[k] = 0 THEN 0 ELSE written'[k] - 1
    <3> SUFFICES ASSUME NEW k \in Tiers
                 PROVE  closed'[k] = IF written'[k] = 0 THEN 0 ELSE written'[k] - 1
      OBVIOUS
    <3>1. written[k] \in Nat
      BY <1>t
    <3>2. CASE k = l
      <4>1. written'[k] = written[k] + 1 /\ closed'[k] = written[k]
        BY <1>2, <3>2
      <4>2. QED
        BY <3>1, <4>1
    <3>3. CASE k # l
      BY <1>2, <2>1, <3>3
    <3>4. QED
      BY <3>2, <3>3
  <2>3. QED
    BY <1>1, <2>2 DEF OneOpenSegment
<1>7. TodoIsWhole'
  <2>1. \A k \in Tiers : closed[k] \in Nat /\ closed[k] <= closed'[k]
    BY <1>1, <1>t, <1>2 DEF HlsInv, OneOpenSegment
  <2>2. up.pc \in InTier => up.todo \subseteq Nat
    BY DEF TypeOK, UploaderTyped
  <2>3. QED
    <3> SUFFICES ASSUME up.pc \in InTier, NEW s \in up.todo
                 PROVE  s <= closed'[Level]
      BY <1>1 DEF TodoIsWhole, Level
    <3>1. s <= closed[Level] /\ s \in Nat /\ closed[Level] \in Nat
          /\ closed[Level] <= closed'[Level]
      BY <1>1, <2>1, <2>2, LevelIsATier DEF HlsInv, TodoIsWhole
    <3>2. closed'[Level] \in Nat
      BY <1>t, <1>2, LevelIsATier
    <3>3. QED
      BY <3>1, <3>2
<1>8. Coordinated' /\ LowComesFirst' /\ StoredSegmentsAreWhole'
  BY <1>1 DEF HlsInv, Coordinated, LowComesFirst, StoredSegmentsAreWhole, Level
<1>9. DrainIsComplete'
  BY <1>1 DEF HlsInv, Coordinated, DrainIsComplete
<1>10. QED
  BY <1>3, <1>4, <1>5, <1>6, <1>7, <1>8, <1>9 DEF HlsInv

\* The pipeline ends, one way or another.
LEMMA PipelineEndsInv ==
  ASSUME TypeOK, HlsInv, EndOfStream \/ PipelineFails \/ PipelineCancelled
  PROVE  HlsInv'
<1>1. /\ UNCHANGED <<written, disk, up, uploaded, published, firstLow, notifier, coord, stop,
                      cancel, segments, torn, playlist, masterList>>
      /\ pipeline = "playing" /\ pipeline' # "playing"
  BY DEF EndOfStream, PipelineFails, PipelineCancelled, stateVars, coordVars, bucketVars
<1>2. pipeline' = "eos" => (\A l \in Tiers : written[l] > 0) /\ closed' = written
  BY DEF EndOfStream, PipelineFails, PipelineCancelled
<1>3. ListsInOrder' /\ DiskKept' /\ TodoInOrder'
  BY <1>1 DEF HlsInv, ListsInOrder, DiskKept, Missing, TodoInOrder, Level
<1>4. OneOpenSegment'
  BY <1>1, <1>2 DEF OneOpenSegment
<1>5. Coordinated' /\ LowComesFirst'
  BY <1>1 DEF HlsInv, Coordinated, LowComesFirst, Level
<1>6. StoredSegmentsAreWhole'
  BY <1>1 DEF HlsInv, StoredSegmentsAreWhole
<1>7. TodoIsWhole'
  <2>1. up.pc \in InTier => up.todo \subseteq Nat /\ written[Level] \in Nat
    BY LevelIsATier DEF TypeOK, UploaderTyped, PipelineTyped
  <2>2. up.pc \in InTier => \A s \in up.todo : s <= written[Level]
    BY <2>1 DEF HlsInv, TodoInOrder
  <2>3. pipeline' # "error" => pipeline' = "eos"
    BY DEF EndOfStream, PipelineFails, PipelineCancelled
  <2>4. QED
    BY <1>1, <1>2, <2>2, <2>3 DEF TodoIsWhole, Level
<1>8. DrainIsComplete'
  BY <1>1 DEF HlsInv, Coordinated, DrainIsComplete
<1>9. QED
  BY <1>3, <1>4, <1>5, <1>6, <1>7, <1>8 DEF HlsInv

----------------------------------------------------------------------------
(* The coordinator                                                         *)

LEMMA CoordinatorInv ==
  ASSUME TypeOK, HlsInv, PipelineJoined \/ UploaderJoined \/ Return \/ Dropped
  PROVE  HlsInv'
<1>1. UNCHANGED <<pipeline, written, closed, up, uploaded, published, firstLow, notifier,
                  segments, torn, playlist, masterList>>
  BY DEF PipelineJoined, UploaderJoined, Return, Dropped, pipelineVars, stateVars, bucketVars
<1>2. coord' # "dropped" => coord # "dropped" /\ UNCHANGED disk
  BY DEF PipelineJoined, UploaderJoined, Return, Dropped, Outcome
<1>3. ListsInOrder' /\ TodoInOrder' /\ OneOpenSegment' /\ LowComesFirst'
  BY <1>1 DEF HlsInv, ListsInOrder, TodoInOrder, OneOpenSegment, LowComesFirst, Level
<1>4. DiskKept'
  <2>1. CASE UNCHANGED disk
    BY <1>1, <1>2, <2>1 DEF HlsInv, DiskKept, Missing
  <2>2. CASE Dropped
    BY <1>1, <2>2 DEF DiskKept, Dropped
  <2>3. QED
    BY <2>1, <2>2 DEF PipelineJoined, UploaderJoined, Return
<1>5. TodoIsWhole' /\ StoredSegmentsAreWhole' /\ DrainIsComplete'
  BY <1>1, <1>2
  DEF HlsInv, TodoIsWhole, StoredSegmentsAreWhole, DrainIsComplete, Complete, Body, Missing, Level
<1>6. Coordinated'
  <2>1. CASE PipelineJoined
    BY <1>1, <2>1 DEF HlsInv, Coordinated, PipelineJoined
  <2>2. CASE UploaderJoined
    BY <1>1, <2>2 DEF HlsInv, Coordinated, UploaderJoined
  <2>3. CASE Return
    BY <1>1, <2>3 DEF HlsInv, Coordinated, Return, Outcome, Over
  <2>4. CASE Dropped
    BY <1>1, <2>4 DEF HlsInv, Coordinated, Dropped
  <2>5. QED
    BY <2>1, <2>2, <2>3, <2>4
<1>7. QED
  BY <1>3, <1>4, <1>5, <1>6 DEF HlsInv

----------------------------------------------------------------------------
(* The uploader's ticks                                                    *)

LEMMA UpGoesTo ==
  ASSUME TypeOK, NEW l, UpGoes(l)
  PROVE  /\ up'.pc = l /\ up'.mode = up.mode /\ up'.tier = up.tier /\ up'.todo = up.todo
         /\ Level' = Level
  BY DEF TypeOK, UploaderTyped, UpGoes, Level

\* What neither the pipeline nor the bucket has to do with.
Elsewhere ==
  <<pipeline, written, closed, disk, uploaded, published, firstLow, coord, stop, cancel,
    segments, torn, playlist, masterList>>

LEMMA ElsewhereInv ==
  ASSUME HlsInv, UNCHANGED Elsewhere
  PROVE  /\ ListsInOrder' /\ DiskKept' /\ OneOpenSegment' /\ StoredSegmentsAreWhole'
         /\ \A l \in Tiers : Complete(l) => Complete(l)'
  BY DEF HlsInv, Elsewhere, ListsInOrder, DiskKept, Missing, OneOpenSegment,
         StoredSegmentsAreWhole, Complete, Body

LEMMA FailsInv ==
  ASSUME TypeOK, HlsInv, UploaderFails, up.pc \notin Over, UNCHANGED Elsewhere
  PROVE  HlsInv'
<1>1. /\ up'.pc = "failed" /\ up'.mode = up.mode /\ up'.tier = up.tier
      /\ notifier' = IF notifier = "held" THEN "dropped" ELSE notifier
  BY UpGoesTo DEF UploaderFails
<1>2. "failed" \notin InTier /\ "failed" \in Over
  BY DEF InTier, Over
<1>3. TodoInOrder' /\ TodoIsWhole'
  BY <1>1, <1>2 DEF TodoInOrder, TodoIsWhole
<1>4. Coordinated'
  BY <1>1, <1>2 DEF HlsInv, Coordinated, Elsewhere, Over
<1>5. LowComesFirst'
  BY <1>1, <1>2 DEF HlsInv, LowComesFirst, Elsewhere, LowInLadder
<1>6. DrainIsComplete'
  BY <1>1, <1>2, ElsewhereInv, LadderTiers DEF HlsInv, DrainIsComplete, Elsewhere
<1>7. QED
  BY <1>3, <1>4, <1>5, <1>6, ElsewhereInv DEF HlsInv

LEMMA StartTickInv ==
  ASSUME TypeOK, HlsInv, StartTick
  PROVE  HlsInv'
<1>1. /\ up.pc = "sleep" /\ up'.pc = "tier" /\ up'.tier = 1
      /\ up'.mode = "FinalDrain" => stop
      /\ UNCHANGED Elsewhere /\ UNCHANGED notifier
  BY DEF StartTick, Place, StopSeen, pipelineVars, stateVars, coordVars, bucketVars, Elsewhere
<1>2. "tier" \notin InTier
  BY DEF InTier
<1>3. TodoInOrder' /\ TodoIsWhole'
  BY <1>1, <1>2 DEF TodoInOrder, TodoIsWhole
<1>4. Coordinated'
  BY <1>1 DEF HlsInv, Coordinated, Elsewhere, Over
<1>5. LowComesFirst'
  BY <1>1 DEF HlsInv, LowComesFirst, Elsewhere, LowInLadder, Over
<1>6. DrainIsComplete'
  BY <1>1, <1>2, LadderTiers DEF DrainIsComplete
<1>7. QED
  BY <1>1, <1>3, <1>4, <1>5, <1>6, ElsewhereInv DEF HlsInv

LEMMA EndTickInv ==
  ASSUME TypeOK, HlsInv, EndTick
  PROVE  HlsInv'
<1>1. UNCHANGED Elsewhere /\ up.pc = "tier" /\ up.tier > Len(Ladder)
  BY DEF EndTick, pipelineVars, coordVars, bucketVars, Elsewhere
<1>2. CASE up' = Asleep /\ UNCHANGED notifier
  <2>1. up'.pc = "sleep" /\ up'.mode = "Running" /\ "sleep" \notin InTier
    BY <1>2 DEF Asleep, Place, InTier
  <2>2. TodoInOrder' /\ TodoIsWhole' /\ DrainIsComplete'
    BY <2>1 DEF TodoInOrder, TodoIsWhole, DrainIsComplete
  <2>3. Coordinated'
    BY <1>1, <2>1 DEF HlsInv, Coordinated, Elsewhere, Over
  <2>4. LowComesFirst'
    BY <1>1, <1>2, <2>1 DEF HlsInv, LowComesFirst, Elsewhere, LowInLadder, Over
  <2>5. QED
    BY <1>1, <2>2, <2>3, <2>4, ElsewhereInv DEF HlsInv
<1>3. CASE /\ up.mode = "FinalDrain" /\ UpGoes("returned")
           /\ notifier' = IF notifier = "held" THEN "dropped" ELSE notifier
  <2>1. /\ up'.pc = "returned" /\ up'.mode = up.mode /\ up'.tier = up.tier
        /\ "returned" \notin InTier /\ "returned" \in Over
    BY <1>3, UpGoesTo DEF InTier, Over
  <2>2. TodoInOrder' /\ TodoIsWhole'
    BY <2>1 DEF TodoInOrder, TodoIsWhole
  <2>3. DrainIsComplete'
    BY <1>1, <2>1, ElsewhereInv, LadderTiers DEF HlsInv, DrainIsComplete, Elsewhere
  <2>4. Coordinated'
    BY <1>1, <1>3, <2>1 DEF HlsInv, Coordinated, Elsewhere, Over
  <2>5. LowComesFirst'
    BY <1>1, <1>3, <2>1 DEF HlsInv, LowComesFirst, Elsewhere, LowInLadder
  <2>6. QED
    BY <1>1, <2>2, <2>3, <2>4, <2>5, ElsewhereInv DEF HlsInv
<1>4. QED
  BY <1>2, <1>3 DEF EndTick

LEMMA ScanTierInv ==
  ASSUME TypeOK, HlsInv, ScanTier
  PROVE  HlsInv'
<1>1. UNCHANGED Elsewhere /\ up.pc = "tier" /\ up.tier \in 1..Len(Ladder)
  BY LadderTiers
  DEF ScanTier, TypeOK, UploaderTyped, pipelineVars, coordVars, bucketVars, Elsewhere
<1>2. CASE /\ coord # "dropped" /\ UNCHANGED notifier
           /\ up' = [up EXCEPT !.pc = "segment", !.todo = Uploadable(disk[Level], up.mode)]
  <2>1. /\ up'.pc = "segment" /\ up'.mode = up.mode /\ up'.tier = up.tier /\ Level' = Level
        /\ up'.todo = Uploadable(disk[Level], up.mode)
    BY <1>2 DEF TypeOK, UploaderTyped, Level
  <2> DEFINE n == Len(uploaded[Level])
             w == written[Level]
  <2>2. /\ Level \in Tiers /\ n \in Nat /\ w \in Nat /\ closed[Level] \in Nat
        /\ disk[Level] \subseteq 1..w /\ (n + 1)..w \subseteq disk[Level]
    BY <1>1, <1>2, LadderTiers
    DEF TypeOK, PipelineTyped, ListsTyped, HlsInv, DiskKept, Missing, Level
  <2>3. up'.todo \subseteq disk[Level]
    BY <2>1 DEF Uploadable
  <2>4. \A s \in up'.todo : (n + 1)..s \subseteq up'.todo
    <3> SUFFICES ASSUME NEW s \in up'.todo, NEW t \in (n + 1)..s
                 PROVE  t \in up'.todo
      OBVIOUS
    <3>1. s \in 1..w /\ t \in (n + 1)..w /\ t <= s
      BY <2>2, <2>3
    <3>2. t \in disk[Level]
      BY <2>2, <3>1
    <3>3. CASE up.mode = "FinalDrain"
      BY <2>1, <3>2, <3>3 DEF Uploadable
    <3>4. CASE up.mode # "FinalDrain"
      <4>1. PICK u \in disk[Level] : s < u
        BY <2>1, <3>4 DEF Uploadable
      <4>2. t < u
        BY <2>2, <3>1, <4>1
      <4>3. QED
        BY <2>1, <3>2, <3>4, <4>1, <4>2 DEF Uploadable
    <3>5. QED
      BY <3>3, <3>4
  <2>5. TodoInOrder'
    BY <1>1, <2>1, <2>2, <2>3, <2>4 DEF TodoInOrder, Elsewhere
  <2>6. TodoIsWhole'
    <3> SUFFICES ASSUME pipeline # "error", NEW s \in up'.todo
                 PROVE  s <= closed[Level]
      BY <1>1, <2>1 DEF TodoIsWhole, Elsewhere
    <3>1. s \in 1..w
      BY <2>2, <2>3
    <3>2. CASE pipeline = "eos"
      BY <2>2, <3>1, <3>2 DEF HlsInv, OneOpenSegment
    <3>3. CASE pipeline = "playing"
      <4>1. up.mode # "FinalDrain"
        BY <1>2, <3>3 DEF HlsInv, Coordinated
      <4>2. PICK u \in disk[Level] : s < u
        BY <2>1, <4>1 DEF Uploadable
      <4>3. s <= w - 1
        BY <2>2, <3>1, <4>2
      <4>4. w # 0 /\ closed[Level] = w - 1
        BY <2>2, <3>1, <3>3 DEF HlsInv, OneOpenSegment
      <4>5. QED
        BY <4>3, <4>4
    <3>4. QED
      BY <3>2, <3>3 DEF TypeOK, PipelineTyped
  <2>7. Coordinated'
    BY <1>1, <2>1 DEF HlsInv, Coordinated, Elsewhere, Over
  <2>8. LowComesFirst'
    BY <1>1, <1>2, <2>1 DEF HlsInv, LowComesFirst, Elsewhere, LowInLadder, Over
  <2>9. DrainIsComplete'
    <3> SUFFICES ASSUME up.mode = "FinalDrain"
                 PROVE  /\ \A i \in DOMAIN Ladder : i < up.tier => Complete(Ladder[i])'
                        /\ Missing(Level)' \subseteq up'.todo
      BY <2>1 DEF DrainIsComplete
    <3>1. \A i \in DOMAIN Ladder : i < up.tier => Complete(Ladder[i])'
      BY <1>1, <1>2, ElsewhereInv, LadderTiers DEF HlsInv, DrainIsComplete
    <3>2. Missing(Level)' = (n + 1)..w /\ up'.todo = disk[Level]
      BY <1>1, <2>1 DEF Missing, Uploadable, Elsewhere
    <3>3. QED
      BY <2>2, <3>1, <3>2
  <2>10. QED
    BY <1>1, <2>5, <2>6, <2>7, <2>8, <2>9, ElsewhereInv DEF HlsInv
<1>3. CASE coord = "dropped" /\ up' = [up EXCEPT !.tier = @ + 1] /\ UNCHANGED notifier
  <2>1. up'.pc = "tier" /\ up'.mode = up.mode /\ "tier" \notin InTier
    BY <1>1, <1>3 DEF TypeOK, UploaderTyped, InTier
  <2>2. TodoInOrder' /\ TodoIsWhole' /\ DrainIsComplete'
    BY <1>1, <1>3, <2>1 DEF TodoInOrder, TodoIsWhole, DrainIsComplete, Elsewhere
  <2>3. Coordinated'
    BY <1>1, <2>1 DEF HlsInv, Coordinated, Elsewhere, Over
  <2>4. LowComesFirst'
    BY <1>1, <1>3, <2>1 DEF HlsInv, LowComesFirst, Elsewhere, LowInLadder, Over
  <2>5. QED
    BY <1>1, <2>2, <2>3, <2>4, ElsewhereInv DEF HlsInv
<1>4. CASE UploaderFails
  BY <1>1, <1>4, FailsInv DEF Over
<1>5. QED
  BY <1>2, <1>3, <1>4 DEF ScanTier

----------------------------------------------------------------------------
(* One segment                                                             *)

LEMMA ListedIs ==
  ASSUME TypeOK, ListsInOrder, NEW l \in Tiers
  PROVE  Listed(l) = 1..Len(uploaded[l])
<1>1. DOMAIN uploaded[l] = 1..Len(uploaded[l])
  BY DEF TypeOK, ListsTyped
<1>2. \A i \in DOMAIN uploaded[l] : uploaded[l][i] = i
  BY DEF ListsInOrder
<1>3. QED
  BY <1>1, <1>2 DEF Listed

\* The next segment to upload is the one after the last that was.
LEMMA NextIsNext ==
  ASSUME TypeOK, HlsInv, up.pc = "segment",
         NEW s \in up.todo, NextSegment(s), s \notin Listed(Level)
  PROVE  s = Len(uploaded[Level]) + 1 /\ s \in 1..written[Level]
<1>1. up.pc \in InTier
  BY DEF InTier
<1>2. Level \in Tiers /\ Len(uploaded[Level]) \in Nat /\ written[Level] \in Nat
  BY <1>1, LevelIsATier DEF TypeOK, ListsTyped, PipelineTyped
<1>3. s \in 1..written[Level] /\ s \notin 1..Len(uploaded[Level])
  BY <1>1, <1>2, ListedIs DEF HlsInv, TodoInOrder
<1>4. Len(uploaded[Level]) + 1 \in (Len(uploaded[Level]) + 1)..s
  BY <1>2, <1>3
<1>5. Len(uploaded[Level]) + 1 \in up.todo
  BY <1>1, <1>4 DEF HlsInv, TodoInOrder
<1>6. s <= Len(uploaded[Level]) + 1
  BY <1>5 DEF NextSegment
<1>7. QED
  BY <1>2, <1>3, <1>6

LEMMA SkipSegmentInv ==
  ASSUME TypeOK, HlsInv, SkipSegment
  PROVE  HlsInv'
<1>1. UNCHANGED Elsewhere /\ up.pc = "segment" /\ UNCHANGED notifier
  BY DEF SkipSegment, pipelineVars, stateVars, coordVars, bucketVars, Elsewhere
<1>2. /\ up'.pc = "playlist" /\ up'.mode = up.mode /\ up'.tier = up.tier
      /\ up'.todo = up.todo /\ Level' = Level
  BY UpGoesTo DEF SkipSegment
<1>3. "playlist" \in InTier /\ "segment" \in InTier
  BY DEF InTier
<1>4. TodoInOrder'
  <2>1. PICK s \in up.todo : NextSegment(s) /\ s \in Listed(Level)
    BY DEF SkipSegment
  <2>2. s <= Len(uploaded[Level])
    BY <1>1, <1>3, <2>1, ListedIs, LevelIsATier DEF HlsInv, TypeOK, ListsTyped
  <2>3. QED
    BY <1>1, <1>2, <1>3, <2>1, <2>2 DEF HlsInv, TodoInOrder, NextSegment, Elsewhere
<1>5. TodoIsWhole'
  BY <1>1, <1>2, <1>3 DEF HlsInv, TodoIsWhole, Elsewhere
<1>6. Coordinated'
  BY <1>1, <1>2 DEF HlsInv, Coordinated, Elsewhere, Over
<1>7. LowComesFirst'
  BY <1>1, <1>2 DEF HlsInv, LowComesFirst, Elsewhere, LowInLadder, Over
<1>8. DrainIsComplete'
  BY <1>1, <1>2, <1>3, ElsewhereInv, LadderTiers
  DEF HlsInv, DrainIsComplete, Elsewhere, Missing
<1>9. QED
  BY <1>1, <1>4, <1>5, <1>6, <1>7, <1>8, ElsewhereInv DEF HlsInv

\* What upload_one_segment does, segment n + 1 being the next.
LEMMA UploadEffect ==
  ASSUME TypeOK, HlsInv, UploadSegment
  PROVE  /\ Level \in Tiers /\ up.tier \in 1..Len(Ladder) /\ up.pc = "segment"
         /\ Len(uploaded[Level]) + 1 \in up.todo
         /\ \A t \in up.todo : Len(uploaded[Level]) + 1 <= t
         /\ Len(uploaded[Level]) + 1 \in 1..written[Level]
         /\ uploaded' = [uploaded EXCEPT ![Level] = Append(@, Len(uploaded[Level]) + 1)]
         /\ segments' = [segments EXCEPT ![Level] = @ \cup {Len(uploaded[Level]) + 1}]
         /\ torn' = [torn EXCEPT ![Level] =
                       IF Len(uploaded[Level]) + 1 > closed[Level]
                         THEN @ \cup {Len(uploaded[Level]) + 1} ELSE @]
         /\ \/ disk' = disk
            \/ disk' = [disk EXCEPT ![Level] = @ \ {Len(uploaded[Level]) + 1}]
         /\ firstLow' = (firstLow \/ IsFirstLow)
         /\ UpGoes(IF IsFirstLow THEN "lowPlaylist" ELSE "playlist")
         /\ UNCHANGED <<pipeline, written, closed, published, notifier, coord, stop, cancel,
                        playlist, masterList>>
<1>1. PICK s \in up.todo :
        /\ NextSegment(s)
        /\ s \notin Listed(Level)
        /\ segments' = [segments EXCEPT ![Level] = @ \cup {s}]
        /\ torn' = [torn EXCEPT ![Level] = IF s > closed[Level] THEN @ \cup {s} ELSE @]
        /\ uploaded' = [uploaded EXCEPT ![Level] = Append(@, s)]
        /\ disk' = disk \/ disk' = [disk EXCEPT ![Level] = @ \ {s}]
  BY DEF UploadSegment
<1>2. up.pc = "segment" /\ up.pc \in InTier
  BY DEF UploadSegment, InTier
<1>3. s = Len(uploaded[Level]) + 1 /\ s \in 1..written[Level]
  BY <1>1, <1>2, NextIsNext
<1>4. /\ firstLow' = (firstLow \/ IsFirstLow)
      /\ UpGoes(IF IsFirstLow THEN "lowPlaylist" ELSE "playlist")
      /\ UNCHANGED <<pipeline, written, closed, published, notifier, coord, stop, cancel,
                     playlist, masterList>>
  BY DEF UploadSegment, pipelineVars, coordVars
<1>5. QED
  BY <1>1, <1>2, <1>3, <1>4, LevelIsATier DEF NextSegment

LEMMA AppendNext ==
  ASSUME NEW m \in Nat, NEW q \in Seq(1..m), \A i \in 1..Len(q) : q[i] = i,
         Len(q) + 1 \in 1..m
  PROVE  LET r == Append(q, Len(q) + 1) IN
         /\ r \in Seq(1..m) /\ r # <<>> /\ Len(r) = Len(q) + 1
         /\ \A i \in DOMAIN r : r[i] = i
  OBVIOUS

\* ... and what it makes of the lists.
LEMMA UploadLists ==
  ASSUME TypeOK, HlsInv, UploadSegment
  PROVE  \A l \in Tiers :
           /\ Len(uploaded[l]) \in Nat /\ written[l] \in Nat /\ Len(uploaded[l]) <= written[l]
           /\ l # Level => /\ uploaded'[l] = uploaded[l] /\ segments'[l] = segments[l]
                           /\ torn'[l] = torn[l] /\ disk'[l] = disk[l]
           /\ l = Level =>
                /\ Len(uploaded'[l]) = Len(uploaded[l]) + 1
                /\ uploaded'[l] # <<>>
                /\ uploaded'[l] \in Seq(1..MaxSegments)
                /\ \A i \in DOMAIN uploaded'[l] : uploaded'[l][i] = i
                /\ segments'[l] = 1..Len(uploaded'[l])
                /\ disk'[l] \in {disk[l], disk[l] \ {Len(uploaded[l]) + 1}}
<1> SUFFICES ASSUME NEW l \in Tiers
             PROVE  /\ Len(uploaded[l]) \in Nat /\ written[l] \in Nat
                    /\ Len(uploaded[l]) <= written[l]
                    /\ l # Level => /\ uploaded'[l] = uploaded[l] /\ segments'[l] = segments[l]
                                    /\ torn'[l] = torn[l] /\ disk'[l] = disk[l]
                    /\ l = Level =>
                         /\ Len(uploaded'[l]) = Len(uploaded[l]) + 1
                         /\ uploaded'[l] # <<>>
                         /\ uploaded'[l] \in Seq(1..MaxSegments)
                         /\ \A i \in DOMAIN uploaded'[l] : uploaded'[l][i] = i
                         /\ segments'[l] = 1..Len(uploaded'[l])
                         /\ disk'[l] \in {disk[l], disk[l] \ {Len(uploaded[l]) + 1}}
  OBVIOUS
<1>1. /\ uploaded \in [Tiers -> Seq(1..MaxSegments)]
      /\ segments \in [Tiers -> SUBSET (1..MaxSegments)]
      /\ torn \in [Tiers -> SUBSET (1..MaxSegments)]
      /\ disk \in [Tiers -> SUBSET (1..MaxSegments)]
      /\ written \in [Tiers -> 0..MaxSegments] /\ MaxSegments \in Nat
  BY HlsAssumption DEF TypeOK, ListsTyped, BucketTyped, PipelineTyped
<1>2. /\ uploaded[l] \in Seq(1..MaxSegments) /\ Len(uploaded[l]) \in Nat
      /\ written[l] \in Nat /\ written[l] <= MaxSegments /\ Len(uploaded[l]) <= written[l]
      /\ MaxSegments \in Nat
  BY <1>1 DEF HlsInv, ListsInOrder
<1>3. ASSUME l # Level
      PROVE  /\ uploaded'[l] = uploaded[l] /\ segments'[l] = segments[l]
             /\ torn'[l] = torn[l] /\ disk'[l] = disk[l]
  BY <1>1, <1>3, UploadEffect
<1>4. ASSUME l = Level
      PROVE  /\ uploaded'[l] = Append(uploaded[l], Len(uploaded[l]) + 1)
             /\ segments'[l] = segments[l] \cup {Len(uploaded[l]) + 1}
             /\ disk'[l] \in {disk[l], disk[l] \ {Len(uploaded[l]) + 1}}
             /\ Len(uploaded[l]) + 1 \in 1..MaxSegments
  <2>1. Len(uploaded[l]) + 1 \in 1..written[l]
    BY <1>4, UploadEffect
  <2>2. uploaded'[l] = Append(uploaded[l], Len(uploaded[l]) + 1)
    BY <1>1, <1>4, UploadEffect
  <2>3. segments'[l] = segments[l] \cup {Len(uploaded[l]) + 1}
    BY <1>1, <1>4, UploadEffect
  <2>4. disk'[l] \in {disk[l], disk[l] \ {Len(uploaded[l]) + 1}}
    BY <1>1, <1>4, UploadEffect
  <2>5. QED
    BY <1>2, <2>1, <2>2, <2>3, <2>4
<1>5. ASSUME l = Level
      PROVE  /\ Len(uploaded'[l]) = Len(uploaded[l]) + 1
             /\ uploaded'[l] # <<>>
             /\ uploaded'[l] \in Seq(1..MaxSegments)
             /\ \A i \in DOMAIN uploaded'[l] : uploaded'[l][i] = i
  <2>1. \A i \in 1..Len(uploaded[l]) : uploaded[l][i] = i
    BY <1>2 DEF HlsInv, ListsInOrder
  <2>2. QED
    <3> DEFINE r == Append(uploaded[l], Len(uploaded[l]) + 1)
    <3>1. uploaded'[l] = r /\ Len(uploaded[l]) + 1 \in 1..MaxSegments
      BY <1>4, <1>5
    <3>2. /\ r \in Seq(1..MaxSegments) /\ r # <<>> /\ Len(r) = Len(uploaded[l]) + 1
          /\ \A i \in DOMAIN r : r[i] = i
      BY <1>2, <2>1, <3>1, AppendNext
    <3>3. QED
      BY <3>1, <3>2
<1>6. ASSUME l = Level PROVE segments'[l] = 1..Len(uploaded'[l])
  <2>1. segments[l] = 1..Len(uploaded[l])
    BY DEF HlsInv, ListsInOrder
  <2>2. segments'[l] = 1..Len(uploaded[l]) \cup {Len(uploaded[l]) + 1}
    BY <1>4, <1>6, <2>1
  <2>3. Len(uploaded'[l]) = Len(uploaded[l]) + 1
    BY <1>5, <1>6
  <2>4. QED
    BY <1>2, <2>2, <2>3
<1>7. QED
  BY <1>2, <1>3, <1>4, <1>5, <1>6

LEMMA UploadSegmentInv ==
  ASSUME TypeOK, HlsInv, UploadSegment
  PROVE  HlsInv'
<1> DEFINE n == Len(uploaded[Level])
<1>1. /\ Level \in Tiers /\ up.tier \in 1..Len(Ladder) /\ up.pc = "segment"
      /\ n + 1 \in up.todo /\ (\A t \in up.todo : n + 1 <= t) /\ n + 1 \in 1..written[Level]
      /\ UNCHANGED <<pipeline, written, closed, published, notifier, coord, stop, cancel,
                     playlist, masterList>>
  BY UploadEffect
<1>2. /\ up'.pc = IF IsFirstLow THEN "lowPlaylist" ELSE "playlist"
      /\ up'.mode = up.mode /\ up'.tier = up.tier /\ up'.todo = up.todo /\ Level' = Level
      /\ up'.pc \in InTier /\ up.pc \in InTier /\ up'.pc \notin Over
  <2>1. UpGoes(IF IsFirstLow THEN "lowPlaylist" ELSE "playlist")
    BY UploadEffect
  <2>2. QED
    BY <1>1, <2>1, UpGoesTo DEF InTier, Over
<1>3. n \in Nat /\ written[Level] \in Nat /\ Len(uploaded'[Level]) = n + 1
  BY <1>1, UploadLists
<1>4. ListsInOrder'
  <2> SUFFICES ASSUME NEW l \in Tiers
               PROVE  /\ \A i \in DOMAIN uploaded'[l] : uploaded'[l][i] = i
                      /\ segments'[l] = 1..Len(uploaded'[l])
                      /\ Len(uploaded'[l]) <= written[l]
                      /\ published[l] = playlist[l]
                      /\ \A i \in DOMAIN playlist[l].list : playlist[l].list[i] = i
                      /\ Len(playlist[l].list) <= Len(uploaded'[l])
    BY <1>1 DEF ListsInOrder
  <2>1. /\ \A i \in DOMAIN uploaded[l] : uploaded[l][i] = i
        /\ segments[l] = 1..Len(uploaded[l])
        /\ Len(uploaded[l]) <= written[l]
        /\ published[l] = playlist[l]
        /\ \A i \in DOMAIN playlist[l].list : playlist[l].list[i] = i
        /\ Len(playlist[l].list) <= Len(uploaded[l])
        /\ Len(playlist[l].list) \in Nat
    BY DEF HlsInv, ListsInOrder, TypeOK, ListsTyped, Playlists
  <2>2. CASE l = Level
    <3>1. /\ Len(uploaded'[l]) = n + 1 /\ n + 1 <= written[l] /\ Len(uploaded[l]) = n
          /\ \A i \in DOMAIN uploaded'[l] : uploaded'[l][i] = i
          /\ segments'[l] = 1..Len(uploaded'[l])
      BY <1>1, <1>3, <2>2, UploadLists
    <3>2. Len(playlist[l].list) <= n + 1
      BY <1>3, <2>1, <3>1
    <3>3. QED
      BY <2>1, <3>1, <3>2
  <2>3. CASE l # Level
    BY <2>1, <2>3, UploadLists
  <2>4. QED
    BY <2>2, <2>3
<1>5. DiskKept'
  <2> SUFFICES ASSUME NEW l \in Tiers
               PROVE  /\ disk'[l] \subseteq 1..written[l]
                      /\ coord # "dropped" =>
                           (Len(uploaded'[l]) + 1)..written[l] \subseteq disk'[l]
    BY <1>1 DEF DiskKept, Missing
  <2>1. /\ disk[l] \subseteq 1..written[l]
        /\ coord # "dropped" => (Len(uploaded[l]) + 1)..written[l] \subseteq disk[l]
    BY DEF HlsInv, DiskKept, Missing
  <2>2. CASE l = Level
    <3>1. disk'[l] \in {disk[l], disk[l] \ {n + 1}} /\ Len(uploaded[l]) = n
      BY <2>2, UploadLists
    <3>2. ((n + 1) + 1)..written[l] \subseteq ((n + 1)..written[l]) \ {n + 1}
      BY <1>3, <2>2
    <3>3. QED
      BY <1>3, <2>1, <2>2, <3>1, <3>2
  <2>3. CASE l # Level
    BY <2>1, <2>3, UploadLists
  <2>4. QED
    BY <2>2, <2>3
<1>6. TodoInOrder'
  <2>1. up.todo \subseteq 1..written[Level]
        /\ \A s \in up.todo : (n + 1)..s \subseteq up.todo
    BY <1>2 DEF HlsInv, TodoInOrder
  <2>2. \A s \in up.todo : ((n + 1) + 1)..s \subseteq up.todo
    <3> SUFFICES ASSUME NEW s \in up.todo, NEW t \in ((n + 1) + 1)..s PROVE t \in up.todo
      OBVIOUS
    <3>1. t \in (n + 1)..s
      BY <1>3, <2>1
    <3>2. QED
      BY <2>1, <3>1
  <2>3. \E m \in up.todo : m <= n + 1 /\ \A t \in up.todo : m <= t
    BY <1>1, <1>3
  <2>4. QED
    BY <1>1, <1>2, <1>3, <2>1, <2>2, <2>3 DEF TodoInOrder
<1>7. TodoIsWhole'
  BY <1>1, <1>2 DEF HlsInv, TodoIsWhole
<1>8. StoredSegmentsAreWhole'
  <2> SUFFICES ASSUME pipeline # "error", coord # "dropped", NEW l \in Tiers
               PROVE  torn'[l] = {}
    BY <1>1 DEF StoredSegmentsAreWhole
  <2>1. torn[l] = {}
    BY DEF HlsInv, StoredSegmentsAreWhole
  <2>2. CASE l = Level
    <3>1. n + 1 <= closed[Level]
      BY <1>1, <1>2 DEF HlsInv, TodoIsWhole
    <3>2. closed[Level] \in Nat /\ torn \in [Tiers -> SUBSET (1..MaxSegments)]
      BY <1>1 DEF TypeOK, PipelineTyped, BucketTyped
    <3>3. ~(n + 1 > closed[Level])
      BY <1>3, <3>1, <3>2
    <3>4. torn' = [torn EXCEPT ![Level] = IF n + 1 > closed[Level] THEN @ \cup {n + 1} ELSE @]
      BY UploadEffect
    <3>5. torn'[Level] = torn[Level]
      BY <1>1, <3>2, <3>3, <3>4
    <3>6. QED
      BY <2>1, <2>2, <3>5
  <2>3. CASE l # Level
    BY <2>1, <2>3, UploadLists
  <2>4. QED
    BY <2>2, <2>3
<1>9. OneOpenSegment' /\ Coordinated'
  BY <1>1, <1>2 DEF HlsInv, OneOpenSegment, Coordinated, Over
<1>10. LowComesFirst'
  <2>1. firstLow' = (firstLow \/ IsFirstLow)
    BY UploadEffect
  <2>2. firstLow' <=> LowInLadder /\ uploaded'[Low] # <<>>
    BY <1>1, <2>1, UploadLists DEF HlsInv, LowComesFirst, IsFirstLow, LowInLadder
  <2>3. QED
    BY <1>1, <1>2, <2>1, <2>2 DEF HlsInv, LowComesFirst, IsFirstLow, LowInLadder, Over
<1>11. DrainIsComplete'
  <2> SUFFICES ASSUME up.mode = "FinalDrain", coord # "dropped"
               PROVE  /\ \A i \in DOMAIN Ladder : i < up.tier => Complete(Ladder[i])'
                      /\ Missing(Level)' \subseteq up.todo
    BY <1>1, <1>2 DEF DrainIsComplete
  <2>1. ASSUME NEW i \in DOMAIN Ladder, i < up.tier PROVE Complete(Ladder[i])'
    <3>1. i \in Nat /\ up.tier \in Nat /\ Ladder[i] \in Tiers
      BY <1>1, LadderTiers
    <3>2. Ladder[i] # Level
      BY <1>1, <2>1, <3>1, HlsAssumption, LadderTiers DEF Level
    <3>3. Complete(Ladder[i])
      BY <2>1 DEF HlsInv, DrainIsComplete
    <3>4. QED
      BY <1>1, <3>1, <3>2, <3>3, UploadLists DEF Complete, Body
  <2>2. Missing(Level) \subseteq up.todo
    BY <1>2 DEF HlsInv, DrainIsComplete
  <2>3. QED
    BY <1>1, <1>2, <1>3, <2>1, <2>2 DEF Missing
<1>12. QED
  BY <1>4, <1>5, <1>6, <1>7, <1>8, <1>9, <1>10, <1>11 DEF HlsInv

LEMMA UploadSegmentType ==
  ASSUME TypeOK, HlsInv, UploadSegment
  PROVE  TypeOK'
<1>1. /\ Level \in Tiers /\ up.pc = "segment"
      /\ Len(uploaded[Level]) + 1 \in 1..written[Level]
      /\ UNCHANGED <<pipeline, written, closed, published, notifier, coord, stop, cancel,
                     playlist, masterList>>
  BY UploadEffect
<1>2. MaxSegments \in Nat /\ written[Level] \in 0..MaxSegments
  BY <1>1, HlsAssumption DEF TypeOK, PipelineTyped
<1>3. PipelineTyped' /\ CoordinatorTyped'
  <2>1. disk' \in [Tiers -> SUBSET (1..MaxSegments)]
    <3>1. \/ disk' = disk
          \/ disk' = [disk EXCEPT ![Level] = @ \ {Len(uploaded[Level]) + 1}]
      BY UploadEffect
    <3>2. QED
      BY <1>1, <3>1 DEF TypeOK, PipelineTyped
  <2>2. QED
    BY <1>1, <2>1 DEF TypeOK, PipelineTyped, CoordinatorTyped
<1>4. UploaderTyped'
  <2>1. UpGoes(IF IsFirstLow THEN "lowPlaylist" ELSE "playlist")
        /\ firstLow' = (firstLow \/ IsFirstLow)
    BY UploadEffect
  <2>2. QED
    BY <1>1, <2>1, PlaceType DEF TypeOK, UploaderTyped, InTier
<1>5. ListsTyped'
  <2>1. \A l \in Tiers : uploaded'[l] \in Seq(1..MaxSegments)
    BY UploadLists DEF TypeOK, ListsTyped
  <2>2. \A l \in Tiers : Len(uploaded'[l]) <= MaxSegments
    <3> SUFFICES ASSUME NEW l \in Tiers PROVE Len(uploaded'[l]) <= MaxSegments
      OBVIOUS
    <3>1. CASE l = Level
      BY <1>1, <1>2, <3>1, UploadLists
    <3>2. CASE l # Level
      BY <3>2, UploadLists DEF TypeOK, ListsTyped
    <3>3. QED
      BY <3>1, <3>2
  <2>3. uploaded' = [uploaded EXCEPT ![Level] = Append(@, Len(uploaded[Level]) + 1)]
    BY UploadEffect
  <2>4. uploaded' \in [Tiers -> Seq(1..MaxSegments)]
    BY <2>1, <2>3 DEF TypeOK, ListsTyped
  <2>5. QED
    BY <1>1, <2>2, <2>4 DEF TypeOK, ListsTyped
<1>6. BucketTyped'
  <2>1. Fault \/ UNCHANGED faults
    BY DEF UploadSegment
  <2>2. Len(uploaded[Level]) + 1 \in 1..MaxSegments
    BY <1>1, <1>2
  <2>3. segments' \in [Tiers -> SUBSET (1..MaxSegments)]
    <3>1. segments' = [segments EXCEPT ![Level] = @ \cup {Len(uploaded[Level]) + 1}]
      BY UploadEffect
    <3>2. QED
      BY <1>1, <2>2, <3>1 DEF TypeOK, BucketTyped
  <2>4. torn' \in [Tiers -> SUBSET (1..MaxSegments)]
    <3>1. torn' = [torn EXCEPT ![Level] =
                     IF Len(uploaded[Level]) + 1 > closed[Level]
                       THEN @ \cup {Len(uploaded[Level]) + 1} ELSE @]
      BY UploadEffect
    <3>2. QED
      BY <1>1, <2>2, <3>1 DEF TypeOK, BucketTyped
  <2>5. QED
    BY <1>1, <2>1, <2>3, <2>4, FaultType DEF TypeOK, BucketTyped
<1>7. QED
  BY <1>3, <1>4, <1>5, <1>6 DEF TypeOK

LEMMA UploadSegmentFailsInv ==
  ASSUME TypeOK, HlsInv, UploadSegmentFails
  PROVE  TypeOK' /\ HlsInv'
<1>1. /\ UploaderFails /\ up.pc = "segment" /\ UNCHANGED Elsewhere
      /\ UNCHANGED <<pipelineVars, disk, uploaded, published, firstLow, coordVars, bucketVars>>
      /\ Fault \/ UNCHANGED faults
  BY DEF UploadSegmentFails, pipelineVars, coordVars, bucketVars, Elsewhere
<1>2. HlsInv'
  BY <1>1, FailsInv DEF Over
<1>3. UploaderTyped'
  BY <1>1, FailType DEF TypeOK
<1>4. BucketTyped'
  BY <1>1, FaultType DEF TypeOK, BucketTyped, bucketVars
<1>5. QED
  BY <1>1, <1>2, <1>3, <1>4
  DEF TypeOK, PipelineTyped, ListsTyped, CoordinatorTyped, pipelineVars, coordVars, bucketVars

----------------------------------------------------------------------------
(* The playlists                                                           *)

\* What publish_variant_playlist_if_changed leaves behind.
LEMMA PublishEffect ==
  ASSUME TypeOK, HlsInv, NEW l \in Tiers, NEW mode, Publish(l, mode)
  PROVE  /\ \A k \in Tiers : k # l => playlist'[k] = playlist[k] /\ published'[k] = published[k]
         /\ published'[l] = playlist'[l]
         /\ uploaded[l] = <<>> => playlist'[l] = playlist[l]
         /\ uploaded[l] # <<>> => playlist'[l] = Body(l, mode)
<1>1. /\ playlist \in [Tiers -> Playlists] /\ published \in [Tiers -> Playlists]
      /\ published[l] = playlist[l]
  BY DEF TypeOK, ListsTyped, HlsInv, ListsInOrder
<1>2. CASE UNCHANGED <<playlist, published>> /\ (uploaded[l] = <<>> \/ published[l] = Body(l, mode))
  BY <1>1, <1>2
<1>3. CASE /\ playlist' = [playlist EXCEPT ![l] = Body(l, mode)]
           /\ published' = [published EXCEPT ![l] = Body(l, mode)]
           /\ uploaded[l] # <<>>
  BY <1>1, <1>3
<1>4. QED
  BY <1>2, <1>3 DEF Publish

LEMMA BodyInOrder ==
  ASSUME TypeOK, HlsInv, NEW l \in Tiers, NEW mode
  PROVE  /\ \A i \in DOMAIN Body(l, mode).list : Body(l, mode).list[i] = i
         /\ Len(Body(l, mode).list) <= Len(uploaded[l])
         /\ Body(l, mode).list = uploaded[l]
<1>1. Body(l, mode).list = uploaded[l] /\ Len(uploaded[l]) \in Nat
  BY DEF Body, TypeOK, ListsTyped
<1>2. QED
  BY <1>1 DEF HlsInv, ListsInOrder

\* A publish disturbs neither the lists nor what has nothing to do with them.
LEMMA PublishInv ==
  ASSUME TypeOK, HlsInv, NEW l \in Tiers, NEW mode, Publish(l, mode),
         UNCHANGED <<pipelineVars, disk, uploaded, coordVars, segments, torn>>
  PROVE  ListsInOrder' /\ DiskKept' /\ OneOpenSegment' /\ StoredSegmentsAreWhole'
<1>1. ListsInOrder'
  <2> SUFFICES ASSUME NEW k \in Tiers
               PROVE  /\ \A i \in DOMAIN uploaded[k] : uploaded[k][i] = i
                      /\ segments[k] = 1..Len(uploaded[k])
                      /\ Len(uploaded[k]) <= written[k]
                      /\ published'[k] = playlist'[k]
                      /\ \A i \in DOMAIN playlist'[k].list : playlist'[k].list[i] = i
                      /\ Len(playlist'[k].list) <= Len(uploaded[k])
    BY DEF ListsInOrder, pipelineVars
  <2>1. \/ playlist'[k] = playlist[k] /\ published'[k] = published[k]
        \/ playlist'[k] = Body(k, mode) /\ published'[k] = playlist'[k]
        \/ playlist'[k] = playlist[k] /\ published'[k] = playlist'[k]
    BY PublishEffect
  <2>2. QED
    BY <2>1, BodyInOrder DEF HlsInv, ListsInOrder
<1>2. DiskKept' /\ OneOpenSegment' /\ StoredSegmentsAreWhole'
  BY DEF HlsInv, DiskKept, OneOpenSegment, StoredSegmentsAreWhole, Missing, pipelineVars, coordVars
<1>3. QED
  BY <1>1, <1>2

\* The tiers that the drain has done are other than the one it is at.
LEMMA DoneIsKept ==
  ASSUME TypeOK, HlsInv, NEW l \in Tiers, NEW mode, Publish(l, mode), l = Level, up.pc \in InTier,
         UNCHANGED <<written, uploaded>>
  PROVE  \A i \in DOMAIN Ladder : i < up.tier /\ Complete(Ladder[i]) => Complete(Ladder[i])'
<1> SUFFICES ASSUME NEW i \in DOMAIN Ladder, i < up.tier, Complete(Ladder[i])
             PROVE  Complete(Ladder[i])'
  OBVIOUS
<1>1. i \in Nat /\ up.tier \in 1..Len(Ladder) /\ Ladder[i] \in Tiers /\ up.tier \in DOMAIN Ladder
  BY LadderTiers, LevelIsATier
<1>2. Ladder[i] # l
  BY <1>1, HlsAssumption DEF Level
<1>3. playlist'[Ladder[i]] = playlist[Ladder[i]]
  BY <1>1, <1>2, PublishEffect
<1>4. QED
  BY <1>3 DEF Complete, Body

LEMMA PublishFailsInv ==
  ASSUME TypeOK, HlsInv, UploaderFails, up.pc \in InTier,
         UNCHANGED <<pipelineVars, disk, uploaded, published, firstLow, coordVars, segments, torn,
                     playlist, masterList>>
  PROVE  HlsInv'
<1>1. UNCHANGED Elsewhere
  BY DEF pipelineVars, coordVars, Elsewhere
<1>2. up.pc \notin Over
  BY DEF InTier, Over
<1>3. QED
  BY <1>1, <1>2, FailsInv

\* The order of the first objects is kept by a step that publishes a variant playlist.
LEMMA LowKept ==
  ASSUME TypeOK, HlsInv,
         uploaded' = uploaded, firstLow' = firstLow, notifier' = notifier,
         masterList' = masterList, up.pc \in InTier, up'.pc # "lowPlaylist",
         up'.pc = "master" => firstLow /\ playlist'[Low].list # <<>> /\ ~masterList,
         firstLow => masterList \/ up'.pc = "master",
         LowInLadder /\ playlist'[Low].list # <<>> => firstLow,
         masterList => playlist'[Low].list # <<>>
  PROVE  LowComesFirst'
<1>1. firstLow' <=> LowInLadder' /\ uploaded'[Low] # <<>>
  BY DEF HlsInv, LowComesFirst, LowInLadder
<1>2. masterList' <=> notifier' = "fired"
  BY DEF HlsInv, LowComesFirst
<1>3. masterList' => firstLow' /\ playlist'[Low].list # <<>>
  BY DEF HlsInv, LowComesFirst
<1>4. notifier' = "dropped" => up'.pc \in Over
  BY DEF HlsInv, LowComesFirst, InTier, Over
<1>5. firstLow' => masterList' \/ up'.pc \in {"lowPlaylist", "master", "failed"}
  OBVIOUS
<1>6. LowInLadder' /\ playlist'[Low].list # <<>> => masterList' \/ up'.pc \in {"master", "failed"}
  BY DEF LowInLadder
<1>7. /\ up'.pc = "master" => firstLow' /\ playlist'[Low].list # <<>>
      /\ up'.pc \in {"lowPlaylist", "master"} => ~masterList'
  OBVIOUS
<1>8. QED
  BY <1>1, <1>2, <1>3, <1>4, <1>5, <1>6, <1>7 DEF LowComesFirst

LEMMA PublishLowInv ==
  ASSUME TypeOK, HlsInv, PublishLow
  PROVE  HlsInv'
<1>1. /\ up.pc = "lowPlaylist" /\ up.pc \in InTier
      /\ UNCHANGED <<pipelineVars, disk, uploaded, firstLow, coordVars, segments, torn, masterList>>
  BY DEF PublishLow, InTier
<1>2. Low = Level /\ Low \in Tiers /\ uploaded[Low] # <<>> /\ ~masterList /\ firstLow
  BY <1>1, LevelIsATier DEF HlsInv, LowComesFirst
<1>3. CASE Publish(Low, "Running") /\ UpGoes("master") /\ UNCHANGED notifier
  <2>1. /\ up'.pc = "master" /\ up'.mode = up.mode /\ up'.tier = up.tier /\ up'.todo = up.todo
        /\ Level' = Level /\ "master" \in InTier /\ "master" \notin Over
    BY <1>3, UpGoesTo DEF InTier, Over
  <2>2. TodoInOrder' /\ TodoIsWhole'
    BY <1>1, <2>1 DEF HlsInv, TodoInOrder, TodoIsWhole, pipelineVars, coordVars
  <2>3. Coordinated'
    BY <1>1, <2>1 DEF HlsInv, Coordinated, pipelineVars, coordVars, Over
  <2>4. LowComesFirst'
    <3>1. playlist'[Low] = Body(Low, "Running")
      BY <1>2, <1>3, PublishEffect
    <3>2. playlist'[Low].list # <<>>
      BY <1>2, <3>1, BodyInOrder
    <3>3. QED
      <4>1. /\ uploaded' = uploaded /\ firstLow' = firstLow /\ notifier' = notifier
            /\ masterList' = masterList
        BY <1>1, <1>3
      <4>2. QED
        BY <1>1, <1>2, <2>1, <3>2, <4>1, LowKept
  <2>5. DrainIsComplete'
    BY <1>1, <1>2, <1>3, <2>1, DoneIsKept
    DEF HlsInv, DrainIsComplete, Missing, pipelineVars, coordVars
  <2>6. QED
    BY <1>1, <1>2, <1>3, <2>2, <2>3, <2>4, <2>5, PublishInv DEF HlsInv
<1>4. CASE PublishFails
  BY <1>1, <1>4, PublishFailsInv DEF PublishFails
<1>5. QED
  BY <1>3, <1>4 DEF PublishLow

LEMMA PublishMasterInv ==
  ASSUME TypeOK, HlsInv, PublishMaster
  PROVE  HlsInv'
<1>1. /\ up.pc = "master" /\ up.pc \in InTier
      /\ UNCHANGED <<pipelineVars, disk, uploaded, published, firstLow, coordVars, segments, torn,
                     playlist>>
  BY DEF PublishMaster, InTier
<1>2. firstLow /\ playlist[Low].list # <<>> /\ ~masterList /\ LowInLadder
  BY <1>1 DEF HlsInv, LowComesFirst
<1>3. CASE /\ masterList' = TRUE /\ UpGoes("playlist")
           /\ notifier' = IF notifier = "held" THEN "fired" ELSE notifier
  <2>1. /\ up'.pc = "playlist" /\ up'.mode = up.mode /\ up'.tier = up.tier /\ up'.todo = up.todo
        /\ Level' = Level /\ "playlist" \in InTier /\ "playlist" \notin Over
    BY <1>3, UpGoesTo DEF InTier, Over
  <2>2. ListsInOrder' /\ DiskKept' /\ OneOpenSegment' /\ StoredSegmentsAreWhole'
    BY <1>1 DEF HlsInv, ListsInOrder, DiskKept, Missing, OneOpenSegment, StoredSegmentsAreWhole,
                pipelineVars, coordVars
  <2>3. TodoInOrder' /\ TodoIsWhole'
    BY <1>1, <2>1 DEF HlsInv, TodoInOrder, TodoIsWhole, pipelineVars, coordVars
  <2>4. Coordinated'
    BY <1>1, <2>1 DEF HlsInv, Coordinated, pipelineVars, coordVars, Over
  <2>5. LowComesFirst'
    <3>1. notifier' = "fired"
      BY <1>1, <1>2, <1>3 DEF HlsInv, LowComesFirst, TypeOK, UploaderTyped, Over
    <3>2. QED
      BY <1>1, <1>2, <1>3, <2>1, <3>1 DEF HlsInv, LowComesFirst, LowInLadder
  <2>6. DrainIsComplete'
    BY <1>1, <2>1 DEF HlsInv, DrainIsComplete, Complete, Body, Missing, pipelineVars, coordVars
  <2>7. QED
    BY <2>2, <2>3, <2>4, <2>5, <2>6 DEF HlsInv
<1>4. CASE UploaderFails /\ UNCHANGED masterList
  BY <1>1, <1>4, PublishFailsInv
<1>5. QED
  BY <1>3, <1>4 DEF PublishMaster

LEMMA PublishVariantInv ==
  ASSUME TypeOK, HlsInv, PublishVariant
  PROVE  HlsInv'
<1>1. /\ up.pc = "playlist" /\ up.pc \in InTier /\ Level \in Tiers
      /\ UNCHANGED <<pipelineVars, disk, uploaded, firstLow, coordVars, segments, torn, masterList>>
  BY LevelIsATier DEF PublishVariant, InTier
<1>2. CASE /\ Publish(Level, MidLoopMode) /\ UNCHANGED notifier
           /\ up' = [up EXCEPT !.pc = "segment", !.todo = {s \in @ : \E t \in @ : t < s}]
  <2>1. /\ up'.pc = "segment" /\ up'.mode = up.mode /\ up'.tier = up.tier /\ Level' = Level
        /\ up'.todo = {s \in up.todo : \E t \in up.todo : t < s}
        /\ "segment" \in InTier /\ "segment" \notin Over
    BY <1>2 DEF TypeOK, UploaderTyped, Level, InTier, Over
  <2> DEFINE n == Len(uploaded[Level])
  <2>2. /\ n \in Nat /\ written[Level] \in Nat /\ up.todo \subseteq Nat
    BY <1>1 DEF TypeOK, ListsTyped, PipelineTyped, UploaderTyped
  <2>3. PICK m \in up.todo : m <= n /\ \A t \in up.todo : m <= t
    BY <1>1 DEF HlsInv, TodoInOrder
  <2>4. \A s \in up.todo : s > n => s \in up'.todo
    BY <2>1, <2>2, <2>3
  <2>5. TodoInOrder'
    <3>1. up'.todo \subseteq up.todo /\ up.todo \subseteq 1..written[Level]
      BY <1>1, <2>1 DEF HlsInv, TodoInOrder
    <3>2. \A s \in up'.todo : (n + 1)..s \subseteq up'.todo
      <4> SUFFICES ASSUME NEW s \in up'.todo, NEW t \in (n + 1)..s PROVE t \in up'.todo
        OBVIOUS
      <4>1. t \in up.todo
        BY <1>1, <3>1 DEF HlsInv, TodoInOrder
      <4>2. t > n
        BY <2>2, <3>1
      <4>3. QED
        BY <2>4, <4>1, <4>2
    <3>3. QED
      BY <1>1, <2>1, <3>1, <3>2 DEF TodoInOrder, pipelineVars
  <2>6. TodoIsWhole'
    BY <1>1, <2>1 DEF HlsInv, TodoIsWhole, pipelineVars, coordVars
  <2>7. Coordinated'
    BY <1>1, <2>1 DEF HlsInv, Coordinated, pipelineVars, coordVars, Over
  <2>8. LowComesFirst'
    <3>1. firstLow => masterList
      BY <1>1 DEF HlsInv, LowComesFirst
    <3>2. LowInLadder /\ playlist'[Low].list # <<>> => firstLow
      BY <1>1, <1>2, PublishEffect DEF HlsInv, LowComesFirst, LowInLadder
    <3>3. masterList => playlist'[Low].list # <<>>
      <4> SUFFICES ASSUME masterList PROVE playlist'[Low].list # <<>>
        OBVIOUS
      <4>1. playlist[Low].list # <<>> /\ uploaded[Low] # <<>> /\ Low \in Tiers
        BY DEF HlsInv, LowComesFirst, LowInLadder
      <4>2. playlist'[Low] = playlist[Low] \/ playlist'[Low] = Body(Low, MidLoopMode)
        BY <1>1, <1>2, <4>1, PublishEffect
      <4>3. QED
        BY <4>1, <4>2, BodyInOrder
    <3>4. QED
      <4>1. /\ uploaded' = uploaded /\ firstLow' = firstLow /\ notifier' = notifier
            /\ masterList' = masterList
        BY <1>1, <1>2
      <4>2. QED
        BY <1>1, <2>1, <3>1, <3>2, <3>3, <4>1, LowKept
  <2>9. DrainIsComplete'
    <3> SUFFICES ASSUME up.mode = "FinalDrain", coord # "dropped"
                 PROVE  /\ \A i \in DOMAIN Ladder : i < up.tier => Complete(Ladder[i])'
                        /\ (n + 1)..written[Level] \subseteq up'.todo
      BY <1>1, <2>1 DEF DrainIsComplete, Missing, pipelineVars, coordVars
    <3>1. \A i \in DOMAIN Ladder : i < up.tier => Complete(Ladder[i])'
      BY <1>1, <1>2, DoneIsKept DEF HlsInv, DrainIsComplete, pipelineVars
    <3>2. (n + 1)..written[Level] \subseteq up.todo
      BY <1>1 DEF HlsInv, DrainIsComplete, Missing
    <3>3. QED
      BY <2>2, <2>4, <3>1, <3>2
  <2>10. QED
    BY <1>1, <1>2, <2>5, <2>6, <2>7, <2>8, <2>9, PublishInv DEF HlsInv
<1>3. CASE PublishFails
  BY <1>1, <1>3, PublishFailsInv DEF PublishFails
<1>4. QED
  BY <1>2, <1>3 DEF PublishVariant

LEMMA CloseTierInv ==
  ASSUME TypeOK, HlsInv, CloseTier
  PROVE  HlsInv'
<1>1. /\ up.pc = "segment" /\ up.pc \in InTier /\ Level \in Tiers /\ up.todo = {}
      /\ up.tier \in 1..Len(Ladder)
      /\ UNCHANGED <<pipelineVars, disk, uploaded, firstLow, coordVars, segments, torn, masterList>>
  BY LevelIsATier DEF CloseTier, InTier
<1>2. CASE /\ Publish(Level, up.mode) /\ UNCHANGED notifier
           /\ up' = [up EXCEPT !.pc = "tier", !.tier = @ + 1]
  <2>1. /\ up'.pc = "tier" /\ up'.mode = up.mode /\ up'.tier = up.tier + 1
        /\ "tier" \notin InTier /\ "tier" \notin Over
    BY <1>2 DEF TypeOK, UploaderTyped, InTier, Over
  <2>2. TodoInOrder' /\ TodoIsWhole'
    BY <2>1 DEF TodoInOrder, TodoIsWhole
  <2>3. Coordinated'
    BY <1>1, <2>1 DEF HlsInv, Coordinated, pipelineVars, coordVars, Over
  <2>4. LowComesFirst'
    <3>1. firstLow => masterList
      BY <1>1 DEF HlsInv, LowComesFirst
    <3>2. LowInLadder /\ playlist'[Low].list # <<>> => firstLow
      BY <1>1, <1>2, PublishEffect DEF HlsInv, LowComesFirst, LowInLadder
    <3>3. masterList => playlist'[Low].list # <<>>
      <4> SUFFICES ASSUME masterList PROVE playlist'[Low].list # <<>>
        OBVIOUS
      <4>1. playlist[Low].list # <<>> /\ uploaded[Low] # <<>> /\ Low \in Tiers
        BY DEF HlsInv, LowComesFirst, LowInLadder
      <4>2. playlist'[Low] = playlist[Low] \/ playlist'[Low] = Body(Low, up.mode)
        BY <1>1, <1>2, <4>1, PublishEffect
      <4>3. QED
        BY <4>1, <4>2, BodyInOrder
    <3>4. QED
      <4>1. /\ uploaded' = uploaded /\ firstLow' = firstLow /\ notifier' = notifier
            /\ masterList' = masterList
        BY <1>1, <1>2
      <4>2. QED
        BY <1>1, <2>1, <3>1, <3>2, <3>3, <4>1, LowKept
  <2>5. DrainIsComplete'
    <3> SUFFICES ASSUME up.mode = "FinalDrain", coord # "dropped",
                        NEW i \in DOMAIN Ladder, i < up.tier + 1
                 PROVE  Complete(Ladder[i])'
      BY <1>1, <2>1 DEF DrainIsComplete, coordVars
    <3>1. CASE i < up.tier
      BY <1>1, <1>2, <3>1, DoneIsKept DEF HlsInv, DrainIsComplete, pipelineVars
    <3>2. CASE i = up.tier
      <4>1. /\ Ladder[i] = Level /\ Len(uploaded[Level]) \in Nat /\ written[Level] \in Nat
            /\ Len(uploaded[Level]) <= written[Level]
        BY <1>1, <3>2 DEF TypeOK, ListsTyped, PipelineTyped, HlsInv, ListsInOrder, Level
      <4>2. (Len(uploaded[Level]) + 1)..written[Level] = {}
        BY <1>1 DEF HlsInv, DrainIsComplete, Missing
      <4>3. Len(uploaded[Level]) = written[Level]
        BY <4>1, <4>2
      <4>4. written[Level] > 0 => playlist'[Level] = Body(Level, "FinalDrain")
        BY <1>1, <1>2, <4>3, PublishEffect
      <4>5. UNCHANGED <<uploaded, written>>
        BY <1>1 DEF pipelineVars
      <4>6. QED
        BY <4>1, <4>3, <4>4, <4>5 DEF Complete, Body
    <3>3. QED
      BY <1>1, <3>1, <3>2, LadderTiers
  <2>6. QED
    BY <1>1, <1>2, <2>2, <2>3, <2>4, <2>5, PublishInv DEF HlsInv
<1>3. CASE PublishFails
  BY <1>1, <1>3, PublishFailsInv DEF PublishFails
<1>4. QED
  BY <1>2, <1>3 DEF CloseTier

----------------------------------------------------------------------------
(* The theorems                                                            *)

LEMMA NextInv ==
  ASSUME TypeOK, HlsInv, [Next]_vars
  PROVE  TypeOK' /\ HlsInv'
<1>1. CASE \E l \in Tiers : WriteSegment(l)
  BY <1>1, PipelineType, WriteSegmentInv
<1>2. CASE EndOfStream \/ PipelineFails \/ PipelineCancelled
  BY <1>2, PipelineType, PipelineEndsInv
<1>3. CASE UploaderStep
  <2>1. CASE StartTick \/ EndTick \/ ScanTier \/ SkipSegment
    BY <2>1, TickType, StartTickInv, EndTickInv, ScanTierInv, SkipSegmentInv
  <2>2. CASE UploadSegment
    BY <2>2, UploadSegmentType, UploadSegmentInv
  <2>3. CASE UploadSegmentFails
    BY <2>3, UploadSegmentFailsInv
  <2>4. CASE PublishLow \/ PublishMaster \/ PublishVariant \/ CloseTier
    BY <2>4, PublishesType, PublishLowInv, PublishMasterInv, PublishVariantInv, CloseTierInv
  <2>5. QED
    BY <1>3, <2>1, <2>2, <2>3, <2>4 DEF UploaderStep
<1>4. CASE PipelineJoined \/ UploaderJoined \/ Return \/ Dropped
  BY <1>4, CoordinatorType, CoordinatorInv
<1>5. CASE UNCHANGED vars
  <2>1. TypeOK'
    BY <1>5 DEF vars, TypeOK, PipelineTyped, UploaderTyped, ListsTyped, CoordinatorTyped,
                BucketTyped
  <2>2. UNCHANGED Level
    BY <1>5 DEF vars, Level
  <2>3. ListsInOrder' /\ DiskKept' /\ TodoInOrder' /\ OneOpenSegment'
    BY <1>5, <2>2 DEF vars, HlsInv, ListsInOrder, DiskKept, Missing, TodoInOrder, OneOpenSegment
  <2>4. Coordinated' /\ TodoIsWhole' /\ StoredSegmentsAreWhole' /\ LowComesFirst'
    BY <1>5, <2>2 DEF vars, HlsInv, Coordinated, TodoIsWhole, StoredSegmentsAreWhole,
                      LowComesFirst
  <2>5. DrainIsComplete'
    BY <1>5, <2>2 DEF vars, HlsInv, DrainIsComplete, Complete, Body, Missing
  <2>6. QED
    BY <2>1, <2>3, <2>4, <2>5 DEF HlsInv
<1>6. QED
  BY <1>1, <1>2, <1>3, <1>4, <1>5 DEF Next

\* Types, and the inductive invariant that all the properties follow from.
THEOREM HlsInvariant == Spec => [](TypeOK /\ HlsInv)
  BY InitType, InitInv, NextInv, PTL DEF Spec

\* The variables keep their types whatever ladder and however many segments.
THEOREM TypeCorrect == Spec => []TypeOK
  BY HlsInvariant, PTL

\* No playlist ever names a segment that is not stored, or skips one.
THEOREM PlaylistsSound == Spec => []PlaylistsAreSound
<1>1. TypeOK /\ HlsInv => PlaylistsAreSound
  <2> SUFFICES ASSUME TypeOK, HlsInv, NEW l \in Tiers
               PROVE  /\ On(l) \subseteq segments[l]
                      /\ \A i \in DOMAIN playlist[l].list : playlist[l].list[i] = i
    BY DEF PlaylistsAreSound
  <2>1. /\ \A i \in DOMAIN playlist[l].list : playlist[l].list[i] = i
        /\ segments[l] = 1..Len(uploaded[l])
        /\ Len(playlist[l].list) <= Len(uploaded[l])
    BY DEF HlsInv, ListsInOrder
  <2>2. /\ DOMAIN playlist[l].list = 1..Len(playlist[l].list)
        /\ Len(playlist[l].list) \in Nat /\ Len(uploaded[l]) \in Nat
    BY DEF TypeOK, ListsTyped, Playlists
  <2>3. QED
    BY <2>1, <2>2 DEF On
<1>2. QED
  BY <1>1, HlsInvariant, PTL

\* Nothing half written is stored while the transcode may still succeed.
THEOREM SegmentsAreWhole == Spec => []StoredSegmentsAreWhole
<1>1. HlsInv => StoredSegmentsAreWhole
  BY DEF HlsInv
<1>2. QED
  BY <1>1, HlsInvariant, PTL

\* Once the low tier's playlist is not empty, its first segment is in it.
LEMMA FirstOnList ==
  ASSUME TypeOK, HlsInv, NEW l \in Tiers, playlist[l].list # <<>>
  PROVE  1 \in On(l) /\ 1 \in segments[l]
<1>1. Len(playlist[l].list) \in Nat \ {0} /\ DOMAIN playlist[l].list = 1..Len(playlist[l].list)
      /\ Len(uploaded[l]) \in Nat
  BY DEF TypeOK, ListsTyped, Playlists
<1>2. 1 \in DOMAIN playlist[l].list
  BY <1>1
<1>3. playlist[l].list[1] = 1 /\ segments[l] = 1..Len(uploaded[l])
      /\ Len(playlist[l].list) <= Len(uploaded[l])
  BY <1>2 DEF HlsInv, ListsInOrder
<1>4. QED
  BY <1>1, <1>2, <1>3 DEF On

\* Whoever is notified finds the master playlist, the low variant and its
\* first segment in the bucket, whatever the ladder and whatever fails.
THEOREM NotifiedPlays == Spec => []NotifiedIsPlayable
<1>1. TypeOK /\ HlsInv => NotifiedIsPlayable
  <2> SUFFICES ASSUME TypeOK, HlsInv, notifier = "fired"
               PROVE  masterList /\ 1 \in On(Low) /\ 1 \in segments[Low]
    BY DEF NotifiedIsPlayable
  <2>1. masterList /\ Low \in Tiers /\ playlist[Low].list # <<>>
    BY DEF HlsInv, LowComesFirst, LowInLadder
  <2>2. QED
    BY <2>1, FirstOnList
<1>2. QED
  BY <1>1, HlsInvariant, PTL

LEMMA OkIsCompleteHere == TypeOK /\ HlsInv => OkIsComplete
<1> SUFFICES ASSUME TypeOK, HlsInv, coord = "ok" PROVE OkIsComplete
  BY DEF OkIsComplete
<1>1. up.pc = "returned" /\ up.mode = "FinalDrain" /\ up.tier > Len(Ladder) /\ pipeline = "eos"
  BY DEF HlsInv, Coordinated
<1>2. \A l \in Tiers : Complete(l)
  <2> SUFFICES ASSUME NEW i \in DOMAIN Ladder PROVE Complete(Ladder[i])
    BY DEF Tiers
  <2>1. i < up.tier
    BY <1>1, LadderTiers DEF TypeOK, UploaderTyped
  <2>2. QED
    BY <1>1, <2>1 DEF HlsInv, DrainIsComplete
<1>3. ASSUME NEW l \in Tiers
      PROVE  playlist[l].final /\ On(l) = 1..written[l] /\ segments[l] = On(l)
  <2>1. written[l] > 0 /\ written[l] \in Nat
    BY <1>1 DEF HlsInv, OneOpenSegment, TypeOK, PipelineTyped
  <2>2. Len(uploaded[l]) = written[l] /\ playlist[l] = Body(l, "FinalDrain")
    BY <1>2, <2>1 DEF Complete
  <2>3. playlist[l].final /\ playlist[l].list = uploaded[l]
    <3>1. playlist[l] = [list |-> uploaded[l], final |-> TRUE]
      BY <2>2 DEF Body
    <3>2. QED
      BY <3>1
  <2>4. DOMAIN uploaded[l] = 1..written[l]
    BY <2>2 DEF TypeOK, ListsTyped
  <2>5. segments[l] = 1..written[l] /\ \A i \in 1..written[l] : uploaded[l][i] = i
    BY <2>2, <2>4 DEF HlsInv, ListsInOrder
  <2>6. On(l) = 1..written[l]
    BY <2>3, <2>4, <2>5 DEF On
  <2>7. QED
    BY <2>3, <2>5, <2>6
<1>4. Low \in Tiers => masterList /\ notifier = "fired"
  <2> SUFFICES ASSUME Low \in Tiers PROVE masterList /\ notifier = "fired"
    OBVIOUS
  <2>1. playlist[Low].list # <<>>
    <3>1. written[Low] > 0 /\ On(Low) = 1..written[Low] /\ written[Low] \in Nat
      BY <1>1, <1>3 DEF HlsInv, OneOpenSegment, TypeOK, PipelineTyped
    <3>2. 1 \in On(Low)
      BY <3>1
    <3>3. QED
      BY <3>2 DEF On
  <2>2. masterList
    BY <1>1, <2>1 DEF HlsInv, LowComesFirst, LowInLadder
  <2>3. QED
    BY <2>2 DEF HlsInv, LowComesFirst
<1>5. QED
  BY <1>3, <1>4 DEF OkIsComplete

\* A transcode that reports success has stored all of its stream.
THEOREM OkStoresAll == Spec => []OkIsComplete
  BY OkIsCompleteHere, HlsInvariant, PTL

----------------------------------------------------------------------------
(* Playlists only grow                                                     *)

\* A playlist changes only in Level, only by a publish.
LEMMA PlaylistStep ==
  ASSUME TypeOK, HlsInv, [Next]_vars
  PROVE  \/ playlist' = playlist
         \/ /\ up.pc \in InTier /\ Level \in Tiers
            /\ up'.pc # "sleep" /\ up'.mode = up.mode
            /\ \/ Publish(Level, "Running") /\ up'.tier = up.tier
               \/ Publish(Level, up.mode) /\ up'.tier = up.tier + 1
<1>1. CASE (\E l \in Tiers : WriteSegment(l)) \/ EndOfStream \/ PipelineFails \/ PipelineCancelled
  BY <1>1 DEF WriteSegment, EndOfStream, PipelineFails, PipelineCancelled, bucketVars
<1>2. CASE StartTick \/ EndTick \/ ScanTier \/ SkipSegment \/ UploadSegment \/ UploadSegmentFails
           \/ PublishMaster
  BY <1>2 DEF StartTick, EndTick, ScanTier, SkipSegment, UploadSegment, UploadSegmentFails,
              PublishMaster, bucketVars
<1>3. CASE PipelineJoined \/ UploaderJoined \/ Return \/ Dropped \/ UNCHANGED vars
  BY <1>3 DEF PipelineJoined, UploaderJoined, Return, Dropped, bucketVars, vars
<1>4. CASE PublishLow
  <2>1. up.pc = "lowPlaylist" /\ up.pc \in InTier
    BY <1>4 DEF PublishLow, InTier
  <2>2. Level = Low /\ Level \in Tiers
    BY <2>1, LevelIsATier DEF HlsInv, LowComesFirst
  <2>3. CASE Publish(Low, "Running") /\ UpGoes("master")
    BY <2>1, <2>2, <2>3, UpGoesTo
  <2>4. CASE PublishFails
    BY <2>4 DEF PublishFails
  <2>5. QED
    BY <1>4, <2>3, <2>4 DEF PublishLow
<1>5. CASE PublishVariant \/ CloseTier
  <2>1. up.pc \in InTier
    BY <1>5 DEF PublishVariant, CloseTier, InTier
  <2>2. Level \in Tiers
    BY <2>1, LevelIsATier
  <2>3. CASE /\ Publish(Level, MidLoopMode)
             /\ up' = [up EXCEPT !.pc = "segment", !.todo = {s \in @ : \E t \in @ : t < s}]
    <3>1. up'.mode = up.mode /\ up'.tier = up.tier /\ up'.pc = "segment"
      BY <2>3 DEF TypeOK, UploaderTyped
    <3>2. QED
      BY <2>1, <2>2, <2>3, <3>1 DEF MidLoopMode
  <2>4. CASE Publish(Level, up.mode) /\ up' = [up EXCEPT !.pc = "tier", !.tier = @ + 1]
    <3>1. up'.mode = up.mode /\ up'.tier = up.tier + 1 /\ up'.pc = "tier"
      BY <2>4 DEF TypeOK, UploaderTyped
    <3>2. QED
      BY <2>1, <2>2, <2>4, <3>1
  <2>5. CASE PublishFails
    BY <2>5 DEF PublishFails
  <2>6. QED
    BY <1>5, <2>3, <2>4, <2>5 DEF PublishVariant, CloseTier
<1>6. QED
  BY <1>1, <1>2, <1>3, <1>4, <1>5 DEF Next, UploaderStep

\* Where the uploader goes when no playlist changes.
LEMMA UpStep ==
  ASSUME TypeOK, HlsInv, [Next]_vars, playlist' = playlist
  PROVE  /\ up'.pc = "sleep" =>
              (up'.mode = "Running" \/ (up.pc = "sleep" /\ up'.mode = up.mode))
         /\ \/ up.pc = "sleep"
            \/ (up.mode = "Running" /\ up'.mode = "Running")
            \/ (up'.mode = up.mode /\ up'.tier \in {up.tier, up.tier + 1})
<1>1. CASE up' = up
  BY <1>1 DEF TypeOK, UploaderTyped
<1>2. CASE StartTick
  BY <1>2 DEF StartTick, Place
<1>3. CASE EndTick
  <2>1. CASE up.mode = "Running" /\ up' = Asleep
    BY <2>1 DEF Asleep, Place
  <2>2. CASE UpGoes("returned")
    BY <2>2, UpGoesTo
  <2>3. QED
    BY <1>3, <2>1, <2>2 DEF EndTick
<1>4. CASE UploaderFails
  BY <1>4, UpGoesTo DEF UploaderFails
<1>5. CASE ScanTier \/ CloseTier \/ PublishVariant
  <2>1. up.pc # "sleep"
    BY <1>5 DEF ScanTier, CloseTier, PublishVariant
  <2>2. CASE \/ up' = [up EXCEPT !.pc = "segment", !.todo = Uploadable(disk[Level], up.mode)]
             \/ up' = [up EXCEPT !.pc = "segment", !.todo = {s \in @ : \E t \in @ : t < s}]
    <3>1. up'.pc = "segment" /\ up'.mode = up.mode /\ up'.tier = up.tier
      BY <2>2 DEF TypeOK, UploaderTyped
    <3>2. QED
      BY <3>1
  <2>3. CASE up' = [up EXCEPT !.tier = @ + 1] \/ up' = [up EXCEPT !.pc = "tier", !.tier = @ + 1]
    <3>1. up'.pc \in {"tier", up.pc} /\ up'.mode = up.mode /\ up'.tier = up.tier + 1
      BY <2>3 DEF TypeOK, UploaderTyped
    <3>2. QED
      BY <2>1, <3>1
  <2>4. QED
    BY <1>4, <1>5, <2>2, <2>3 DEF ScanTier, CloseTier, PublishVariant, PublishFails
<1>6. CASE SkipSegment \/ UploadSegment \/ UploadSegmentFails \/ PublishLow \/ PublishMaster
  <2>1. UploaderFails \/ \E l \in {"playlist", "lowPlaylist", "master"} : UpGoes(l)
    BY <1>6 DEF SkipSegment, UploadSegment, UploadSegmentFails, PublishLow, PublishMaster,
                PublishFails
  <2>2. QED
    BY <1>4, <2>1, UpGoesTo
<1>7. CASE (\E l \in Tiers : WriteSegment(l)) \/ EndOfStream \/ PipelineFails \/ PipelineCancelled
           \/ PipelineJoined \/ UploaderJoined \/ Return \/ Dropped \/ UNCHANGED vars
  BY <1>1, <1>7 DEF WriteSegment, EndOfStream, PipelineFails, PipelineCancelled, PipelineJoined,
                    UploaderJoined, Return, Dropped, vars
<1>8. QED
  BY <1>2, <1>3, <1>5, <1>6, <1>7 DEF Next, UploaderStep

\* A publish in Level finds Level's playlist open.
LEMMA OpenHere ==
  ASSUME TypeOK, ClosedBehind, up.pc \in InTier
  PROVE  ~playlist[Level].final
<1>1. up.tier \in DOMAIN Ladder /\ up.tier \in Nat
  BY LevelIsATier, LadderTiers
<1>2. QED
  BY <1>1 DEF ClosedBehind, Level

LEMMA NextClosedBehind ==
  ASSUME TypeOK, HlsInv, ClosedBehind, [Next]_vars
  PROVE  ClosedBehind'
<1>1. CASE playlist' = playlist
  <2>1. up'.pc = "sleep" => up'.mode = "Running"
    BY <1>1, UpStep DEF ClosedBehind
  <2>2. ASSUME NEW i \in DOMAIN Ladder, playlist[Ladder[i]].final
        PROVE  up'.mode = "FinalDrain" /\ i < up'.tier
    <3>1. up.mode = "FinalDrain" /\ i < up.tier /\ up.pc # "sleep"
      BY <2>2 DEF ClosedBehind
    <3>2. up'.mode = up.mode /\ up'.tier \in {up.tier, up.tier + 1}
      BY <1>1, <3>1, UpStep
    <3>3. QED
      BY <3>1, <3>2, LadderTiers DEF TypeOK, UploaderTyped
  <2>3. QED
    BY <1>1, <2>1, <2>2 DEF ClosedBehind
<1>2. ASSUME up.pc \in InTier, Level \in Tiers, up'.pc # "sleep", NEW mode, Publish(Level, mode),
             up'.mode = up.mode,
             \/ mode = "Running" /\ up'.tier = up.tier
             \/ mode = up.mode /\ up'.tier = up.tier + 1
      PROVE  ClosedBehind'
  <2> SUFFICES ASSUME NEW i \in DOMAIN Ladder, playlist'[Ladder[i]].final
               PROVE  up'.mode = "FinalDrain" /\ i < up'.tier
    BY <1>2 DEF ClosedBehind
  <2>1. i \in Nat /\ up.tier \in DOMAIN Ladder /\ up.tier \in Nat /\ Ladder[i] \in Tiers
    BY <1>2, LevelIsATier, LadderTiers
  <2>2. CASE playlist'[Ladder[i]] = playlist[Ladder[i]]
    BY <1>2, <2>1, <2>2 DEF ClosedBehind
  <2>3. CASE playlist'[Ladder[i]] # playlist[Ladder[i]]
    <3>1. Ladder[i] = Level /\ playlist'[Level] = Body(Level, mode)
      BY <1>2, <2>1, <2>3, PublishEffect
    <3>2. i = up.tier
      BY <2>1, <3>1, HlsAssumption DEF Level
    <3>3. mode = "FinalDrain"
      <4> SUFFICES ASSUME mode # "FinalDrain" PROVE FALSE
        OBVIOUS
      <4>1. Body(Level, mode) = [list |-> uploaded[Level], final |-> FALSE]
        BY DEF Body
      <4>2. ~playlist'[Level].final
        BY <3>1, <4>1
      <4>3. QED
        BY <3>1, <4>2
    <3>4. QED
      BY <1>2, <2>1, <3>2, <3>3
  <2>4. QED
    BY <2>2, <2>3
<1>3. QED
  <2> DEFINE Published(mode) ==
        /\ up.pc \in InTier /\ Level \in Tiers /\ up'.pc # "sleep" /\ up'.mode = up.mode
        /\ Publish(Level, mode)
        /\ \/ mode = "Running" /\ up'.tier = up.tier
           \/ mode = up.mode /\ up'.tier = up.tier + 1
  <2>1. ASSUME NEW mode, Published(mode) PROVE ClosedBehind'
    BY <1>2, <2>1
  <2>2. playlist' = playlist \/ Published("Running") \/ Published(up.mode)
    BY PlaylistStep
  <2> HIDE DEF Published
  <2>3. QED
    BY <1>1, <2>1, <2>2

\* A playlist never loses a segment, and once it is closed it stays as it is.
THEOREM PlaylistsGrow == Spec => PlaylistsOnlyGrow
<1>1. Init => ClosedBehind
  <2>1. \A l \in Tiers : Init => ~playlist[l].final
    BY DEF Init, Nothing
  <2>2. QED
    BY <2>1, LadderTiers DEF Init, Asleep, Place, ClosedBehind
<1>2. ASSUME TypeOK, HlsInv, ClosedBehind, [Next]_vars, NEW l \in Tiers
      PROVE  /\ Len(playlist[l].list) <= Len(playlist'[l].list)
             /\ playlist[l].final => playlist'[l] = playlist[l]
  <2>1. /\ Len(playlist[l].list) \in Nat /\ Len(uploaded[l]) \in Nat
        /\ Len(playlist[l].list) <= Len(uploaded[l])
    BY <1>2 DEF TypeOK, ListsTyped, Playlists, HlsInv, ListsInOrder
  <2>2. CASE playlist'[l] = playlist[l]
    BY <2>1, <2>2
  <2>3. CASE playlist'[l] # playlist[l]
    <3>1. PICK mode : up.pc \in InTier /\ Level \in Tiers /\ Publish(Level, mode)
      BY <1>2, <2>3, PlaylistStep
    <3>2. l = Level /\ playlist'[l] = Body(l, mode)
      BY <1>2, <2>3, <3>1, PublishEffect
    <3>3. playlist'[l].list = uploaded[l]
      BY <3>2 DEF Body
    <3>4. QED
      BY <1>2, <2>1, <3>1, <3>2, <3>3, OpenHere
  <2>4. QED
    BY <2>2, <2>3
<1>3. TypeOK /\ HlsInv /\ ClosedBehind /\ [Next]_vars
        => [\A l \in Tiers :
              /\ Len(playlist[l].list) <= Len(playlist'[l].list)
              /\ playlist[l].final => playlist'[l] = playlist[l]]_vars
  BY <1>2
<1>4. QED
  BY <1>1, <1>3, NextClosedBehind, HlsInvariant, PTL DEF Spec, PlaylistsOnlyGrow

----------------------------------------------------------------------------
(* The refinement: what the run of ProcessVideo sees is HlsStream           *)

Result == IF coord \in {"ok", "failed"} THEN coord ELSE "none"

Seen == <<[up |-> IF Ended THEN "ended" ELSE Stage, pub |-> Publisher], StoredFirst, Result>>

\* What is stored of the first objects, read off the uploader's own state.
LEMMA StoredIs ==
  TypeOK /\ HlsInv =>
    StoredFirst = {o \in {"segment", "playlist", "master"} :
                     \/ o = "segment" /\ firstLow
                     \/ o = "playlist" /\ LowInLadder /\ playlist[Low].list # <<>>
                     \/ o = "master" /\ masterList}
<1> SUFFICES ASSUME TypeOK, HlsInv
             PROVE  /\ LowInLadder /\ 1 \in segments[Low] <=> firstLow
                    /\ LowInLadder => (On(Low) # {} <=> playlist[Low].list # <<>>)
  BY DEF StoredFirst
<1>1. LowInLadder /\ 1 \in segments[Low] <=> firstLow
  <2>1. CASE LowInLadder
    <3>1. /\ segments[Low] = 1..Len(uploaded[Low]) /\ Len(uploaded[Low]) \in Nat
          /\ uploaded[Low] \in Seq(1..MaxSegments)
      BY <2>1 DEF LowInLadder, HlsInv, ListsInOrder, TypeOK, ListsTyped
    <3>2. uploaded[Low] # <<>> <=> Len(uploaded[Low]) > 0
      BY <3>1
    <3>3. firstLow <=> uploaded[Low] # <<>>
      BY <2>1 DEF HlsInv, LowComesFirst
    <3>4. 1 \in segments[Low] <=> Len(uploaded[Low]) > 0
      BY <3>1
    <3>5. QED
      BY <2>1, <3>2, <3>3, <3>4
  <2>2. CASE ~LowInLadder
    BY <2>2 DEF HlsInv, LowComesFirst
  <2>3. QED
    BY <2>1, <2>2
<1>2. ASSUME LowInLadder PROVE On(Low) # {} <=> playlist[Low].list # <<>>
  <2>1. playlist[Low].list \in Seq(1..MaxSegments)
    BY <1>2 DEF LowInLadder, TypeOK, ListsTyped, Playlists
  <2>2. playlist[Low].list = <<>> <=> DOMAIN playlist[Low].list = {}
    BY <2>1
  <2>3. QED
    BY <2>2 DEF On
<1>3. QED
  BY <1>1, <1>2

\* The low playlist follows the first low segment.
LEMMA ListedThenFirst ==
  TypeOK /\ HlsInv => (LowInLadder /\ playlist[Low].list # <<>> => firstLow)
<1> SUFFICES ASSUME TypeOK, HlsInv, LowInLadder, playlist[Low].list # <<>> PROVE firstLow
  OBVIOUS
<1>1. /\ uploaded[Low] \in Seq(1..MaxSegments) /\ playlist[Low].list \in Seq(1..MaxSegments)
      /\ Len(playlist[Low].list) <= Len(uploaded[Low])
  BY DEF LowInLadder, TypeOK, ListsTyped, Playlists, HlsInv, ListsInOrder
<1>2. uploaded[Low] # <<>>
  BY <1>1
<1>3. QED
  BY <1>2 DEF HlsInv, LowComesFirst

\* The stage as the uploader's state says it.
LEMMA StageIs ==
  TypeOK /\ HlsInv =>
    /\ ~LowInLadder => Stage = "more"
    /\ LowInLadder /\ ~firstLow => Stage = "segment"
    /\ LowInLadder /\ firstLow /\ playlist[Low].list = <<>> => Stage = "playlist"
    /\ LowInLadder /\ firstLow /\ playlist[Low].list # <<>> /\ ~masterList => Stage = "master"
    /\ masterList => Stage = "more"
<1> SUFFICES ASSUME TypeOK, HlsInv
             PROVE  /\ ~LowInLadder => Stage = "more"
                    /\ LowInLadder /\ ~firstLow => Stage = "segment"
                    /\ LowInLadder /\ firstLow /\ playlist[Low].list = <<>> => Stage = "playlist"
                    /\ LowInLadder /\ firstLow /\ playlist[Low].list # <<>> /\ ~masterList
                         => Stage = "master"
                    /\ masterList => Stage = "more"
  OBVIOUS
<1>1. /\ "segment" \in StoredFirst <=> firstLow
      /\ "playlist" \in StoredFirst <=> LowInLadder /\ playlist[Low].list # <<>>
      /\ "master" \in StoredFirst <=> masterList
  BY StoredIs
<1>2. masterList => firstLow /\ playlist[Low].list # <<>> /\ LowInLadder
  BY DEF HlsInv, LowComesFirst
<1>3. ~LowInLadder => Stage = "more"
  BY DEF Stage
<1>4. ASSUME LowInLadder
      PROVE  Stage = IF ~firstLow THEN "segment"
                     ELSE IF playlist[Low].list = <<>> THEN "playlist"
                     ELSE IF ~masterList THEN "master" ELSE "more"
  <2>1. CASE ~firstLow
    BY <1>1, <1>2, <1>4, <2>1, ListedThenFirst DEF Stage
  <2>2. CASE firstLow /\ playlist[Low].list = <<>>
    BY <1>1, <1>2, <1>4, <2>2 DEF Stage
  <2>3. CASE firstLow /\ playlist[Low].list # <<>> /\ ~masterList
    BY <1>1, <1>4, <2>3 DEF Stage
  <2>4. CASE firstLow /\ playlist[Low].list # <<>> /\ masterList
    BY <1>1, <1>4, <2>4 DEF Stage
  <2>5. QED
    BY <2>1, <2>2, <2>3, <2>4
<1>5. QED
  BY <1>2, <1>3, <1>4

LEMMA StageType == Stage \in Stream!UploaderAt
  BY DEF Stage, Stream!UploaderAt

\* Steps that store none of the first objects: nothing is seen of them, or the end.
LEMMA SeenQuiet ==
  ASSUME UNCHANGED StoredFirst, UNCHANGED Result, notifier' = "fired" <=> notifier = "fired",
         Ended' <=> Ended
  PROVE  UNCHANGED Seen
<1>1. Stage' = Stage
  BY DEF Stage
<1>2. Publisher' = Publisher
  BY DEF Publisher
<1>3. QED
  BY <1>1, <1>2 DEF Seen

LEMMA SeenEnd ==
  ASSUME UNCHANGED StoredFirst, notifier' = "fired" <=> notifier = "fired",
         ~Ended, Ended', Result' = "ok" => Stage = "more", Result' \in {"ok", "failed", "none"}
  PROVE  Stream!End
<1> DEFINE st == [up |-> Stage, pub |-> Publisher]
<1>1. Publisher = (IF notifier = "fired" THEN "notified" ELSE "waiting")
      /\ Publisher' = (IF notifier = "fired" THEN "notified" ELSE "ended")
  BY DEF Publisher
<1>2. [up |-> "ended", pub |-> Publisher'] = Stream!UploaderOver(st)
  <2>1. \/ Publisher = "waiting" /\ Publisher' = "ended"
        \/ Publisher = "notified" /\ Publisher' = "notified"
    BY <1>1
  <2>2. Stream!UploaderOver(st)
          = [up |-> "ended", pub |-> IF Publisher = "waiting" THEN "ended" ELSE Publisher]
    <3> DEFINE over == [st EXCEPT !.up = "ended"]
    <3>1. over = [up |-> "ended", pub |-> Publisher]
      OBVIOUS
    <3>2. Stream!UploaderOver(st)
            = [over EXCEPT !.pub = IF Publisher = "waiting" THEN "ended" ELSE Publisher]
      BY DEF Stream!UploaderOver
    <3> HIDE DEF over
    <3>3. QED
      BY <3>1, <3>2
  <2>3. QED
    BY <2>1, <2>2
<1>3. QED
  BY <1>2, StageType DEF Stream!End, Result

\* A step of the uploader leaves the coordinator alone.
LEMMA SeenUploaderEnds ==
  ASSUME TypeOK, HlsInv, UNCHANGED coordVars, UNCHANGED StoredFirst,
         notifier' = "fired" <=> notifier = "fired", up.pc \notin Over
  PROVE  [Stream!Next]_Seen
<1>1. ~Ended /\ UNCHANGED Result
  BY DEF Ended, Result, coordVars, HlsInv, Coordinated
<1>2. CASE Ended'
  <2>1. coord = "dropped"
    BY <1>2 DEF Ended, coordVars, HlsInv, Coordinated
  <2>2. QED
    BY <1>1, <1>2, <2>1, SeenEnd DEF Result, Stream!Next
<1>3. CASE ~Ended'
  BY <1>1, <1>3, SeenQuiet
<1>4. QED
  BY <1>2, <1>3

\* Storing the next of the first objects.
LEMMA SeenUpload ==
  ASSUME ~Ended, ~Ended', UNCHANGED Result, notifier # "dropped",
         Stage \in Stream!First, StoredFirst' = StoredFirst \cup {Stage},
         Stage = "segment" => Stage' = "playlist" /\ UNCHANGED notifier,
         Stage = "playlist" => Stage' = "master" /\ UNCHANGED notifier,
         Stage = "master" => Stage' = "more" /\ notifier = "held" /\ notifier' = "fired"
  PROVE  Stream!Upload
<1> DEFINE st == [up |-> Stage, pub |-> Publisher]
<1>1. /\ Publisher = (IF notifier = "fired" THEN "notified" ELSE "waiting")
      /\ Publisher' = (IF notifier' = "fired" THEN "notified" ELSE "waiting")
  BY DEF Publisher
<1>2. Stage \in {"segment", "playlist", "master"}
  BY DEF Stream!First
<1>3. [up |-> Stage', pub |-> Publisher'] = Stream!AfterUpload(st)
  BY <1>1, <1>2 DEF Stream!AfterUpload
<1>4. QED
  BY <1>3 DEF Stream!Upload, Result

\* The same of the next state, as far as the step says what it is.
LEMMA StoredThen ==
  ASSUME TypeOK, HlsInv, TypeOK', HlsInv'
  PROVE  /\ StoredFirst = {o \in {"segment", "playlist", "master"} :
                             \/ o = "segment" /\ firstLow
                             \/ o = "playlist" /\ LowInLadder /\ playlist[Low].list # <<>>
                             \/ o = "master" /\ masterList}
         /\ StoredFirst' = {o \in {"segment", "playlist", "master"} :
                              \/ o = "segment" /\ firstLow'
                              \/ o = "playlist" /\ LowInLadder /\ playlist'[Low].list # <<>>
                              \/ o = "master" /\ masterList'}
<1>1. (TypeOK /\ HlsInv =>
        StoredFirst = {o \in {"segment", "playlist", "master"} :
                       \/ o = "segment" /\ firstLow
                       \/ o = "playlist" /\ LowInLadder /\ playlist[Low].list # <<>>
                       \/ o = "master" /\ masterList})'
  BY StoredIs, PTL
<1>2. QED
  BY <1>1, StoredIs DEF LowInLadder

\* The master playlist follows the low one.
LEMMA MasterNeedsLow == TypeOK /\ HlsInv => (masterList => playlist[Low].list # <<>>)
  BY DEF HlsInv, LowComesFirst

\* A change in a tier that is not the low one, or not its first, is not seen.
LEMMA StoredSame ==
  ASSUME TypeOK, HlsInv, TypeOK', HlsInv', firstLow' = firstLow, masterList' = masterList,
         LowInLadder => (playlist'[Low].list # <<>> <=> playlist[Low].list # <<>>)
  PROVE  UNCHANGED StoredFirst
  BY StoredThen

LEMMA SeenPipeline ==
  ASSUME TypeOK, HlsInv, TypeOK', HlsInv',
         \/ \E l \in Tiers : WriteSegment(l)
         \/ EndOfStream \/ PipelineFails \/ PipelineCancelled \/ UNCHANGED vars
  PROVE  UNCHANGED Seen
<1>1. UNCHANGED <<up, stateVars, coordVars, bucketVars>>
  BY DEF WriteSegment, EndOfStream, PipelineFails, PipelineCancelled, vars, stateVars, coordVars,
         bucketVars
<1>2. UNCHANGED StoredFirst
  BY <1>1, StoredSame DEF stateVars, bucketVars
<1>3. UNCHANGED Result /\ (Ended' <=> Ended)
  BY <1>1 DEF Result, Ended, coordVars
<1>4. QED
  BY <1>1, <1>2, <1>3, SeenQuiet DEF stateVars

LEMMA SeenCoordinator ==
  ASSUME TypeOK, HlsInv, TypeOK', HlsInv', PipelineJoined \/ UploaderJoined \/ Return \/ Dropped
  PROVE  [Stream!Next]_Seen
<1>1. UNCHANGED <<up, stateVars, bucketVars>> /\ coord \in {"racing", "draining", "unwinding"}
  BY DEF PipelineJoined, UploaderJoined, Return, Dropped
<1>2. UNCHANGED StoredFirst
  BY <1>1, StoredSame DEF stateVars, bucketVars
<1>3. ~Ended /\ notifier' = notifier /\ Result = "none"
  BY <1>1 DEF Ended, stateVars, Result
<1>4. CASE PipelineJoined \/ UploaderJoined
  <2>1. coord' \in {"draining", "unwinding"}
    BY <1>4 DEF PipelineJoined, UploaderJoined
  <2>2. UNCHANGED Result /\ ~Ended'
    BY <1>3, <2>1 DEF Ended, Result
  <2>3. QED
    BY <1>2, <1>3, <2>2, SeenQuiet
<1>5. CASE Return
  <2>1. coord' \in {"ok", "failed"}
    BY <1>5 DEF Return, Outcome
  <2>2. Ended' /\ Result' = coord'
    BY <2>1 DEF Ended, Result
  <2>3. ASSUME coord' = "ok" PROVE Stage = "more"
    <3>1. LowInLadder => masterList
      <4>1. (TypeOK /\ HlsInv => OkIsComplete)'
        BY OkIsCompleteHere, PTL
      <4>2. LowInLadder => masterList'
        BY <2>3, <4>1 DEF OkIsComplete, LowInLadder
      <4>3. QED
        BY <1>1, <4>2 DEF bucketVars
    <3>2. QED
      BY <3>1, StageIs
  <2>4. QED
    BY <1>2, <1>3, <2>1, <2>2, <2>3, SeenEnd DEF Stream!Next
<1>6. CASE Dropped
  <2>1. coord' = "dropped"
    BY <1>6 DEF Dropped
  <2>2. Result' = "none"
    BY <2>1 DEF Result
  <2>3. CASE Ended'
    BY <1>2, <1>3, <2>2, <2>3, SeenEnd DEF Stream!Next
  <2>4. CASE ~Ended'
    BY <1>2, <1>3, <2>2, <2>4, SeenQuiet
  <2>5. QED
    BY <2>3, <2>4
<1>7. QED
  BY <1>4, <1>5, <1>6

\* Steps of the uploader that store nothing.
LEMMA SeenElsewhere ==
  ASSUME TypeOK, HlsInv, TypeOK', HlsInv', up.pc \notin Over,
         UNCHANGED <<coord, stop, cancel, firstLow, masterList, playlist>>,
         notifier' = "fired" <=> notifier = "fired"
  PROVE  [Stream!Next]_Seen
  BY StoredSame, SeenUploaderEnds DEF coordVars

LEMMA SeenTick ==
  ASSUME TypeOK, HlsInv, TypeOK', HlsInv',
         StartTick \/ EndTick \/ ScanTier \/ SkipSegment \/ UploadSegmentFails
  PROVE  [Stream!Next]_Seen
<1>1. /\ UNCHANGED <<coord, stop, cancel, firstLow, masterList, playlist>>
      /\ up.pc \in {"sleep", "tier", "segment"}
  BY DEF StartTick, EndTick, ScanTier, SkipSegment, UploadSegmentFails, stateVars, coordVars,
         bucketVars
<1>2. notifier' = "fired" <=> notifier = "fired"
  BY DEF StartTick, EndTick, ScanTier, SkipSegment, UploadSegmentFails, UploaderFails, stateVars
<1>3. QED
  BY <1>1, <1>2, SeenElsewhere DEF Over

LEMMA SeenUploadSegment ==
  ASSUME TypeOK, HlsInv, TypeOK', HlsInv', UploadSegment
  PROVE  [Stream!Next]_Seen
<1>1. /\ UNCHANGED <<coord, stop, cancel, notifier, masterList, playlist>>
      /\ up.pc = "segment" /\ firstLow' = (firstLow \/ IsFirstLow)
  BY DEF UploadSegment, coordVars
<1>2. up'.pc = IF IsFirstLow THEN "lowPlaylist" ELSE "playlist"
  BY UpGoesTo DEF UploadSegment
<1>3. CASE ~IsFirstLow
  BY <1>1, <1>3, SeenElsewhere DEF Over, TypeOK, UploaderTyped
<1>4. CASE IsFirstLow
  <2>1. ~firstLow /\ firstLow' /\ LowInLadder
    <3>1. Level \in Tiers
      BY <1>1, LevelIsATier DEF InTier
    <3>2. QED
      BY <1>1, <1>4, <3>1 DEF IsFirstLow, LowInLadder
  <2>2. playlist[Low].list = <<>> /\ ~masterList
    BY <2>1, ListedThenFirst DEF HlsInv, LowComesFirst
  <2>3. Stage = "segment" /\ Stage' = "playlist"
    <3>1. (TypeOK /\ HlsInv => (LowInLadder /\ firstLow /\ playlist[Low].list = <<>>
                                  => Stage = "playlist"))'
      BY StageIs, PTL
    <3>2. QED
      BY <1>1, <2>1, <2>2, <3>1, StageIs DEF LowInLadder
  <2>4. StoredFirst = {} /\ StoredFirst' = {"segment"}
    BY <1>1, <2>1, <2>2, StoredThen
  <2>5. ~Ended /\ ~Ended' /\ UNCHANGED Result /\ notifier # "dropped"
    BY <1>1, <1>2 DEF Ended, Result, HlsInv, Coordinated, LowComesFirst, Over
  <2>6. QED
    BY <1>1, <2>3, <2>4, <2>5, SeenUpload DEF Stream!First, Stream!Next
<1>5. QED
  BY <1>3, <1>4

LEMMA SeenPublishLow ==
  ASSUME TypeOK, HlsInv, TypeOK', HlsInv', PublishLow
  PROVE  [Stream!Next]_Seen
<1>1. /\ UNCHANGED <<coord, stop, cancel, firstLow, uploaded, masterList>>
      /\ up.pc = "lowPlaylist"
  BY DEF PublishLow, coordVars
<1>2. CASE Publish(Low, "Running") /\ UpGoes("master") /\ UNCHANGED notifier
  <2>1. firstLow /\ ~masterList /\ LowInLadder /\ Low \in Tiers /\ playlist[Low].list = <<>>
    BY <1>1 DEF HlsInv, LowComesFirst, LowInLadder
  <2>2. up'.pc = "master"
    BY <1>2, UpGoesTo
  <2>3. playlist'[Low].list # <<>>
    BY <2>2 DEF HlsInv, LowComesFirst
  <2>4. Stage = "playlist" /\ Stage' = "master"
    <3>1. (TypeOK /\ HlsInv => (LowInLadder /\ firstLow /\ playlist[Low].list # <<>> /\ ~masterList
                                  => Stage = "master"))'
      BY StageIs, PTL
    <3>2. QED
      BY <1>1, <2>1, <2>3, <3>1, StageIs DEF LowInLadder
  <2>5. StoredFirst = {"segment"} /\ StoredFirst' = {"segment", "playlist"}
    BY <1>1, <2>1, <2>3, StoredThen
  <2>6. ~Ended /\ ~Ended' /\ UNCHANGED Result /\ notifier # "dropped"
    BY <1>1, <2>2 DEF Ended, Result, HlsInv, Coordinated, LowComesFirst, Over
  <2>7. QED
    BY <1>2, <2>4, <2>5, <2>6, SeenUpload DEF Stream!First, Stream!Next
<1>3. CASE PublishFails
  BY <1>1, <1>3, SeenElsewhere DEF PublishFails, UploaderFails, Over
<1>4. QED
  BY <1>2, <1>3 DEF PublishLow

LEMMA SeenPublishMaster ==
  ASSUME TypeOK, HlsInv, TypeOK', HlsInv', PublishMaster
  PROVE  [Stream!Next]_Seen
<1>1. /\ UNCHANGED <<coord, stop, cancel, firstLow, uploaded, playlist>>
      /\ up.pc = "master"
  BY DEF PublishMaster, coordVars
<1>2. CASE /\ masterList' = TRUE /\ UpGoes("playlist")
           /\ notifier' = IF notifier = "held" THEN "fired" ELSE notifier
  <2>1. firstLow /\ ~masterList /\ LowInLadder /\ playlist[Low].list # <<>>
    BY <1>1 DEF HlsInv, LowComesFirst
  <2>2. up'.pc = "playlist"
    BY <1>2, UpGoesTo
  <2>3. notifier = "held" /\ notifier' = "fired"
    BY <1>1, <1>2, <2>1 DEF HlsInv, LowComesFirst, TypeOK, UploaderTyped, Over
  <2>4. Stage = "master" /\ Stage' = "more"
    <3>1. (TypeOK /\ HlsInv => (masterList => Stage = "more"))'
      BY StageIs, PTL
    <3>2. QED
      BY <1>2, <2>1, <3>1, StageIs
  <2>5. StoredFirst = {"segment", "playlist"} /\ StoredFirst' = {"segment", "playlist", "master"}
    BY <1>1, <1>2, <2>1, StoredThen
  <2>6. ~Ended /\ ~Ended' /\ UNCHANGED Result
    BY <1>1, <2>2 DEF Ended, Result, HlsInv, Coordinated, Over
  <2>7. QED
    BY <2>3, <2>4, <2>5, <2>6, SeenUpload DEF Stream!First, Stream!Next
<1>3. CASE UploaderFails /\ UNCHANGED masterList
  BY <1>1, <1>3, SeenElsewhere DEF UploaderFails, Over
<1>4. QED
  BY <1>2, <1>3 DEF PublishMaster

LEMMA SeenPublishVariant ==
  ASSUME TypeOK, HlsInv, TypeOK', HlsInv', PublishVariant \/ CloseTier
  PROVE  [Stream!Next]_Seen
<1>1. /\ UNCHANGED <<coord, stop, cancel, firstLow, uploaded, masterList>>
      /\ up.pc \in {"playlist", "segment"}
  BY DEF PublishVariant, CloseTier, coordVars
<1>2. notifier' = "fired" <=> notifier = "fired"
  BY DEF PublishVariant, CloseTier, PublishFails, UploaderFails
<1>3. LowInLadder => (playlist'[Low].list # <<>> <=> playlist[Low].list # <<>>)
  <2>1. CASE masterList
    <3>1. (TypeOK /\ HlsInv => (masterList => playlist[Low].list # <<>>))'
      BY MasterNeedsLow, PTL
    <3>2. QED
      BY <1>1, <2>1, <3>1, MasterNeedsLow
  <2>2. CASE ~masterList
    <3>1. ~firstLow
      BY <1>1, <2>2 DEF HlsInv, LowComesFirst
    <3>2. (TypeOK /\ HlsInv => (LowInLadder /\ playlist[Low].list # <<>> => firstLow))'
      BY ListedThenFirst, PTL
    <3>3. QED
      BY <1>1, <3>1, <3>2, ListedThenFirst DEF LowInLadder
  <2>3. QED
    BY <2>1, <2>2
<1>4. up.pc \notin Over
  BY <1>1 DEF Over
<1>5. UNCHANGED StoredFirst
  BY <1>1, <1>3, StoredSame
<1>6. QED
  BY <1>1, <1>2, <1>4, <1>5, SeenUploaderEnds DEF coordVars

LEMMA SeenStep ==
  ASSUME TypeOK, HlsInv, TypeOK', HlsInv', [Next]_vars
  PROVE  [Stream!Next]_Seen
<1>1. CASE \/ \E l \in Tiers : WriteSegment(l)
           \/ EndOfStream \/ PipelineFails \/ PipelineCancelled \/ UNCHANGED vars
  BY <1>1, SeenPipeline
<1>2. CASE UploaderStep
  BY <1>2, SeenTick, SeenUploadSegment, SeenPublishLow, SeenPublishMaster, SeenPublishVariant
  DEF UploaderStep
<1>3. CASE PipelineJoined \/ UploaderJoined \/ Return \/ Dropped
  BY <1>3, SeenCoordinator
<1>4. QED
  BY <1>1, <1>2, <1>3 DEF Next

LEMMA SeenInit == Init => Stream!Init
<1> SUFFICES ASSUME Init PROVE Stream!Init
  OBVIOUS
<1>1. StoredFirst = {}
  <2>1. LowInLadder => 1 \notin segments[Low] /\ playlist[Low].list = <<>>
    BY DEF Init, Nothing, LowInLadder
  <2>2. LowInLadder => On(Low) = {}
    <3>1. DOMAIN << >> = {}
      OBVIOUS
    <3>2. QED
      BY <2>1, <3>1 DEF On
  <2>3. ~masterList
    BY DEF Init
  <2>4. QED
    BY <2>1, <2>2, <2>3 DEF StoredFirst
<1>2. ~Ended /\ Result = "none" /\ Publisher = "waiting"
  BY DEF Init, Ended, Result, Publisher
<1>3. Stage = IF LowInLadder THEN "segment" ELSE "more"
  BY <1>1 DEF Stage
<1>4. Stream!StreamBegins([up |-> "none", pub |-> "none"], LowInLadder)
        = [up |-> Stage, pub |-> "waiting"]
  <2> DEFINE none == [up |-> "none", pub |-> "none"]
             first == IF LowInLadder THEN "segment" ELSE "more"
  <2>1. [none EXCEPT !.up = first] = [up |-> first, pub |-> "none"]
    OBVIOUS
  <2>2. Stream!StreamBegins(none, LowInLadder) = [[none EXCEPT !.up = first] EXCEPT !.pub = "waiting"]
    BY DEF Stream!StreamBegins
  <2>3. Stage = first
    BY <1>3
  <2> HIDE DEF first
  <2>4. [[up |-> first, pub |-> "none"] EXCEPT !.pub = "waiting"] = [up |-> first, pub |-> "waiting"]
    OBVIOUS
  <2>5. QED
    BY <2>1, <2>2, <2>3, <2>4
<1>5. QED
  BY <1>1, <1>2, <1>4 DEF Stream!Init, Result

\* Uploader, pipeline and coordinator together implement HlsStream, the picture
\* of a transcode that VideoLifecycle is built on, for every ladder.
THEOREM StreamIsImplemented == Spec => ImplementsStream
<1>1. TypeOK /\ HlsInv /\ TypeOK' /\ HlsInv' /\ [Next]_vars => [Stream!Next]_Seen
  BY SeenStep
<1>2. QED
  BY <1>1, SeenInit, HlsInvariant, PTL
  DEF Spec, ImplementsStream, Stream!Spec, Seen, Result
=============================================================================
