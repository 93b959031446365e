SPECIFICATION FairSpec
CONSTANTS
  Relays = {r1, r2}
  Events <- MC_Pair
  Cases <- MC_Cases
  CaseOf <- MC_OneCase
  ClaimTTL = 1
  BatchSize = 2
  MaxFaults = 2
CHECK_DEADLOCK FALSE
INVARIANTS TypeOK PublishedIsOnLog DuplicatesBounded
PROPERTIES AtLeastOnce DrainedInTheEnd
