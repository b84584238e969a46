\* The resume data of a session, across a handshake that fails.
SPECIFICATION Spec
CONSTANTS
  MaxSessions = 2
  MaxEvents = 1
  MaxFaults = 2
INVARIANT SessDataSurvives
