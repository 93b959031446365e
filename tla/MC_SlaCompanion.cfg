SPECIFICATION FairSpec
CONSTANTS
  Rows <- MC_Rows
  Plans <- MC_Plans
  Hands = {u1}
  Hasty = FALSE
INVARIANTS TypeOK DoneMeansOver
PROPERTIES NoTimerLost DeadlineNoticed
