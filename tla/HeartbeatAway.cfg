SPECIFICATION MCSpec
CONSTANTS
  MaxInterval = 4
  HelloIntervals <- MCHelloIntervals
  MaxBusy = 6
  AckDelay = 0
  MaxStretch = 0
  Burst = 1
  MaxInbox = 1
INVARIANT BackstopAsDocumented
