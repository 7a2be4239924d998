CONSTANTS
  Calls = {s1}
  Decisions = {d1}
  RunIds = {r1}
  UniqueRunIds = TRUE
  Serialised = TRUE
  Steps <- PlanChangeSteps
  Blocks <- PlanChangeBlocks
  Root = "main"
  Body <- PlanChangeBody
  Kind <- PlanChangeKind
  Undoable <- PlanChangeUndoable
  Timed <- PlanChangeTimed
  MaxAttempts <- PlanChangeMaxAttempts
  RetryOn <- PlanChangeRetryOn
  Arm <- PlanChangeArm
  Verdicts <- PlanChangeVerdicts
  NoStep = NoStep
  NoState = NoState
SPECIFICATION Spec
CHECK_DEADLOCK FALSE
INVARIANT ApprovedIsProvisioned
