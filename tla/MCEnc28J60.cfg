SPECIFICATION MCSpec
CONSTANTS
  RxStop = 31
  MaxFrames = 6
  Lengths <- MCLengths
INVARIANTS
  UnreadKept
  RingSound
  ReachesRegister
  ConfiguredFirst
PROPERTY EveryFrameTaken
