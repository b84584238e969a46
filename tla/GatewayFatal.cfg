\* A fatal close code read while waiting for READY.
SPECIFICATION Spec
CONSTANTS
  MaxSessions = 2
  MaxEvents = 1
  MaxFaults = 1
INVARIANT FatalCodeStops
