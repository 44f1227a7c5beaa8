CONSTANTS
  alice = alice  bob = bob
  Id <- Both
  Period = 2
  Burst = 2
  IdleTTL = 4
  None = None
  NoAnswer = NoAnswer
  MaxWindow = 5
SPECIFICATION FairSpec
INVARIANTS TypeOK RateBound
PROPERTIES BucketRefinement IdleEntriesGo
