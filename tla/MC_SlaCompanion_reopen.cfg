SPECIFICATION FairSpec
CONSTANTS
  Rows <- MC_Rows
  Plans <- MC_Plans
  Hands = {u1}
  Hasty = TRUE
PROPERTY NoTimerLost
