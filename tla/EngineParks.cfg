CONSTANTS
  Calls = {c1}
  Resumes = {d1, d2, d3}
  Steps <- PlanSteps
  Unknown = {"lost"}
  First = "quote"
  Type <- PlanType
  HasRef <- PlanHasRef
  OnSuccess <- PlanOnSuccess
  OnFailure <- PlanOnFailure
  Lookups <- PlanLookups
  Verdicts <- PlanVerdicts
  NoId = NoId
SPECIFICATION FairSpec
CHECK_DEADLOCK FALSE
INVARIANTS
  TypeOK
  OneExecutor
  WaitingIsIdle
  DecidedOnce
  UnaskedIsOver
PROPERTIES
  UnaskedIsFinal
  CallsReturn
