\* Three tiers of up to three segments, the low one second; two failed calls.
SPECIFICATION FairSpec
CHECK_DEADLOCK FALSE
CONSTANTS
  low = low
  mid = mid
  high = high
  Low = low
  Ladder <- HighLowMid
  MaxSegments = 3
  MaxFaults = 2
INVARIANTS
  TypeOK
  PlaylistsAreSound
  StoredSegmentsAreWhole
  NotifiedIsPlayable
  OkIsComplete
PROPERTIES
  PlaylistsOnlyGrow
  FailureUnwinds
  DetachedUploaderEnds
  ImplementsStream
