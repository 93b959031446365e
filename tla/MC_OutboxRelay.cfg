SPECIFICATION FairSpec
CONSTANTS
  Relays = {r1, r2}
  Events <- MC_Events2
  Subs = {s1}
  ClaimTTL = 1
  BackoffBase = 1
  MaxAttempts = 2
  BatchSize = 1
  MaxCrashes = 1
INVARIANTS TypeOK FreshClaimExclusive DeliveredWasAccepted
PROPERTIES EventuallySettled AtLeastOnce
