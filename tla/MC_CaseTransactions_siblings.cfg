SPECIFICATION Spec
CONSTANTS
  parent = parent
  left = left
  right = right
  w1 = w1
  w2 = w2
  w3 = w3
  None = None
  Cases <- MC_Cases
  Parent <- MC_Parent
  Workers <- MC_Workers
  Stages <- MC_Stages
  Kinds <- MC_Siblings
  MaxRequests = 4
PROPERTY ParentFreed
