SPECIFICATION Spec
CONSTANTS
  Durations <- AllDurations
  Punctual <- OnTime
  MaxTime = 8
INVARIANTS PromiseOutlives
PROPERTIES MainEnds
CHECK_DEADLOCK FALSE
