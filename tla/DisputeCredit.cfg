CONSTANTS
  Calls = {s1}
  Decisions = {}
  RunIds = {r1}
  UniqueRunIds = TRUE
  Serialised = TRUE
  Steps <- DisputeSteps
  Blocks <- DisputeBlocks
  Root = "main"
  Body <- DisputeBody
  Kind <- DisputeKind
  Undoable <- DisputeUndoable
  Timed <- DisputeTimed
  MaxAttempts <- DisputeMaxAttempts
  RetryOn <- DisputeRetryOn
  Arm <- DisputeArm
  Verdicts <- DisputeVerdicts
  NoStep = NoStep
  NoState = NoState
SPECIFICATION Spec
CHECK_DEADLOCK FALSE
INVARIANT FailedCreditIsReversed
