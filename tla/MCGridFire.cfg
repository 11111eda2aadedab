SPECIFICATION Spec
CONSTANTS
  Word = 8
  NumCpus = 3
  Sizes <- MixedSizes
  Rounds = 2
  MaxFailures = 2
INVARIANTS TypeOK RangesPartition Balanced OncePerPass
PROPERTIES RefinesGrid RefinesGridLive StartedRangesRun
