SPECIFICATION Spec
CONSTANTS
  MaxSessions = 4
  MaxEvents = 2
  MaxFaults = 3
INVARIANTS TypeOK WireContinuesCursor TrackerIsCurrent DeadSessionNotResumed
PROPERTIES ImplementsFeed Recovers EventsArrive
