SPECIFICATION Spec
CONSTANTS
  main = main
  subA = subA
  subB = subB
  None = None
  Cases = {main, subA, subB}
  Required = {subA}
  NumStages = 1
  Steps = {}
  StepsOf <- Family_StepsOf
  OnEnter <- Family_OnEnter
  StageSla = {}
  Parent <- Family_Parent
  TenantSet <- Family_Tenant
  AllowedFrom <- Family_Allowed
  Offered <- AllVerbs
  EscalationStatus = "none"
  Interpreted = {}
  RuleStatuses = {}
  ModuleSteps = {}
  CustomerSteps = {}
  RiskHolds = {FALSE}
  ManualSla = FALSE
PROPERTY ParentReleased
