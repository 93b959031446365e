SPECIFICATION FairSpec
CONSTANTS
  main = main
  subA = subA
  subB = subB
  None = None
  Cases = {main}
  Required = {}
  NumStages = 2
  Steps = {"k1"}
  StepsOf <- Interp_StepsOf
  OnEnter <- Interp_OnEnter
  StageSla = {}
  Parent <- Single_Parent
  TenantSet <- NoStatuses
  AllowedFrom <- Interp_Allowed
  Offered <- AllVerbs
  EscalationStatus = "on_hold"
  Interpreted = {main}
  RuleStatuses = {}
  ModuleSteps = {"k1"}
  CustomerSteps = {"k1"}
  RiskHolds = {FALSE, TRUE}
  ManualSla = TRUE
INVARIANT TypeOK
PROPERTY InterpreterAdvances
