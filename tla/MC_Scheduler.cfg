SPECIFICATION FairSpec
CONSTANTS
  ann = ann
  often = often
  seldom = seldom
  NoOne = NoOne
  Schedules = {s1}
  Users = {ann, ben}
  Loops = {l1, l2}
  Configs = {often, seldom}
  Author <- MC_Author
  FirstConfig <- MC_First
  NextMatch <- MC_NextMatch
  MissedWindow = 1
  FoldAt = 0
  FoldLen = 0
  MaxTime = 4
  MaxStops = 1
  MaxRequests = 3
CHECK_DEADLOCK FALSE
INVARIANTS TypeOK ActiveIsReviewed
PROPERTIES ClaimedOnce TimetableMoves
