CONSTANTS
  Calls = {c1}
  Resumes = {d1, d2}
  Steps <- PlanSteps
  Unknown = {"lost"}
  First = "quote"
  Type <- PlanType
  HasRef <- PlanHasRef
  OnSuccess <- PlanOnSuccess
  OnFailure <- PlanOnFailure
  Lookups <- PlanLookups
  Verdicts <- PlanVerdicts
  NoId = NoId
SPECIFICATION Spec
CHECK_DEADLOCK FALSE
INVARIANTS
  SettledIsOver
