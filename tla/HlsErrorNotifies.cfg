\* The pipeline fails before any upload; the drain publishes and notifies.
SPECIFICATION Spec
CHECK_DEADLOCK FALSE
CONSTANTS
  low = low
  mid = mid
  high = high
  Low = low
  Ladder <- LowHigh
  MaxSegments = 3
  MaxFaults = 0
PROPERTIES
  ErrorDropsTheNotifier
