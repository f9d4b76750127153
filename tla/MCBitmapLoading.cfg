SPECIFICATION FairSpec
CONSTANTS
  Ranges = {1, 2}
  First <- FirstChunk
  Last <- LastChunk
  MAX_CONCURRENT_PREFETCHES = 1
  Uses <- TwoUses
  MaxMishaps = 1
CHECK_DEADLOCK FALSE
INVARIANTS
  LoadingTypeOK
  NoLostPrefetch
  SlotsAccounted
  WaitersAreServed
  OnlyQuietOnesStrand
PROPERTIES WaitingEnds
