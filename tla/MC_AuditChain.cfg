SPECIFICATION Spec
CONSTANTS
  p1 = p1
  p2 = p2
  c1 = c1
  c2 = c2
  u1 = u1
  u2 = u2
  Anon = Anon
  NoProc = NoProc
  Procs <- MC_Procs
  Cases <- MC_Cases
  Users <- MC_Users
  CaseOf <- MC_CaseOf
  HoldsMove = FALSE
  MaxRows = 2
SYMMETRY MC_Symmetry
INVARIANTS TypeOK ChainSound BreaksExplained TamperingFound ReceiptsProve
