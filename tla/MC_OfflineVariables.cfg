SPECIFICATION FairSpec
CONSTANTS
  Devices <- MC_Devices
  Accepted <- MC_Devices
  Keys = {"k1", "k2"}
  Stored = {"k1"}
  Flights <- MC_Flights
  KindOf <- MC_KindOf
  MaxVars = 2
  MaxValues = 4
  MaxLosses = 1
INVARIANTS TypeOK Converges LastEditKept
PROPERTIES DuplicateWasApplied QueueDrains
CHECK_DEADLOCK FALSE
