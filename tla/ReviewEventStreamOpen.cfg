SPECIFICATION FairSpec
CONSTANTS
  Streams = {s1}
  NoStream = NoStream
  MaxSequence = 3
  MaxReplay = 1
  MaxHeartbeats = 1
  Lifetime = 1
  Margin = 2
  CommandTimeout = 1
  Lag = 0
PROPERTIES
  EveryResponseEnds
