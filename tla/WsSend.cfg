\* Sending: partial writes, pings to answer, the close handshake, a second connection.
SPECIFICATION Spec
CONSTANTS
  FrameSize = 2
  MaxBufSize = 1
  FrameBudget = 3
  MaxFloodScore = 10
  MaxPayload = 2
  MaxArrivals = 2
  MaxBuilt = 3
  MaxConnections = 2
  ServerFrames <- MCControlFrames
INVARIANTS TypeOK WireIsWholeFrames NothingAfterClose PendingBounded
PROPERTIES ClosingIsFinal PingIsSettled
