CONSTANTS
  Calls = {s1}
  Decisions = {d1, d2}
  RunIds = {r1}
  UniqueRunIds = TRUE
  Serialised = TRUE
  Steps <- FlatSteps
  Blocks <- FlatBlocks
  Root = "auto"
  Body <- FlatBody
  Kind <- FlatKind
  Undoable <- FlatUndoable
  Timed <- FlatTimed
  MaxAttempts <- FlatMaxAttempts
  RetryOn <- FlatRetryOn
  Arm <- FlatArm
  Verdicts <- FlatVerdicts
  NoStep = NoStep
  NoState = NoState
SPECIFICATION LoopSpec
CHECK_DEADLOCK FALSE
INVARIANTS
  FailedIsSettled
  EffectAtMostOnce
  ExecutingIsActive
PROPERTIES
  AcceptedOnlyWaiting
  StatusLifecycle
  NoForwardAfterUnwind
  StartReturns
  RejectionFails
