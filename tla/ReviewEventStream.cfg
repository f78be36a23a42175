SPECIFICATION FairSpec
CONSTANTS
  Streams = {s1}
  NoStream = NoStream
  MaxSequence = 4
  MaxReplay = 2
  MaxHeartbeats = 1
  Lifetime = 1
  Margin = 2
  CommandTimeout = 1
  Lag = 0
INVARIANTS
  OnceInOrder
  ResumeMissesNothing
PROPERTIES
  EveryStreamFinishes
