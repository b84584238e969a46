\* A caller that comes straight back, and bytes that make no message.
SPECIFICATION MCSpec
CONSTANTS
  MaxInterval = 4
  HelloIntervals <- MCHelloIntervals
  MaxBusy = 0
  AckDelay = 1
  MaxStretch = 2
  Burst = 2
  MaxInbox = 2
INVARIANT WindowIsKept
