SPECIFICATION Spec
CONSTANTS
  main = main
  subA = subA
  subB = subB
  None = None
  Cases = {main}
  Required = {}
  NumStages = 3
  Steps = {"k1", "k2"}
  StepsOf <- Single_StepsOf
  OnEnter <- Single_OnEnter
  StageSla = {1, 2}
  Parent <- Single_Parent
  TenantSet <- NoStatuses
  AllowedFrom <- Single_Allowed
  Offered <- Single_Offered
  EscalationStatus = "none"
  Interpreted = {}
  RuleStatuses = {"archived"}
  ModuleSteps = {}
  CustomerSteps = {}
  RiskHolds = {FALSE}
  ManualSla = FALSE
INVARIANT ArchivedClocksStopped
PROPERTIES ArchivedSealed CompletionAdvances
