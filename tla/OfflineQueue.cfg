\* Two replay goroutines, a queue of two, two samples followed by number.
SPECIFICATION FairSpec
CONSTANTS
  r1 = r1
  r2 = r2
  Replayers <- MCReplayers
  MaxQueue = 2
  MaxAttempts = 2
  MaxSamples = 2
  MaxLinkChanges = 2
  MaxLost = 1
  MaxSaveFails = 1
  MaxCrashes = 1
INVARIANTS
  TypeOK
  SingleReplayer
  FileMirrorsQueue
  NothingLostBelowCapacity
  OneCopy
  OnlyFaultsDuplicate
  ReplayInOrder
PROPERTIES
  EventuallyDrained
  DeliversAtLeastOnce
