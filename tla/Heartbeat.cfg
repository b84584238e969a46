\* A caller that comes straight back or stays away, a server that may fall silent.
SPECIFICATION MCSpec
CONSTANTS
  MaxInterval = 4
  HelloIntervals <- MCHelloIntervals
  MaxBusy = 5
  AckDelay = 1
  MaxStretch = 2
  Burst = 2
  MaxInbox = 2
INVARIANTS TypeOK PromptCallerKeepsAlive ZombieFoundInTime HandshakeBounded
