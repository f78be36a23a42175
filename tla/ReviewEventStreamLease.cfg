SPECIFICATION Spec
CONSTANTS
  Streams = {s1, s2}
  NoStream = NoStream
  MaxSequence = 1
  MaxReplay = 1
  MaxHeartbeats = 0
  Lifetime = 1
  Margin = 2
  CommandTimeout = 1
  Lag = 0
SYMMETRY Symmetry
INVARIANTS
  OneStreamAtATime
