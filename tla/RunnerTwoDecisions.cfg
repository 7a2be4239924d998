CONSTANTS
  Calls = {s1}
  Decisions = {d1, d2}
  RunIds = {r1}
  UniqueRunIds = TRUE
  Serialised = FALSE
  Steps <- FlatSteps
  Blocks <- FlatBlocks
  Root = "main"
  Body <- FlatBody
  Kind <- FlatKind
  Undoable <- FlatUndoable
  Timed <- FlatTimed
  MaxAttempts <- FlatMaxAttempts
  RetryOn <- FlatRetryOn
  Arm <- FlatArm
  Verdicts <- FlatVerdicts
  NoStep = NoStep
  NoState = NoState
SPECIFICATION Spec
CHECK_DEADLOCK FALSE
PROPERTY AcceptedOnlyWaiting
