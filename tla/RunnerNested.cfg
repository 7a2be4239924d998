CONSTANTS
  Calls = {s1, s2}
  Decisions = {d1, d2}
  RunIds = {r1}
  UniqueRunIds = FALSE
  Serialised = FALSE
  Steps <- NestSteps
  Blocks <- NestBlocks
  Root = "main"
  Body <- NestBody
  Kind <- NestKind
  Undoable <- NestUndoable
  Timed <- NestTimed
  MaxAttempts <- NestMaxAttempts
  RetryOn <- NestRetryOn
  Arm <- NestArm
  Verdicts <- NestVerdicts
  NoStep = NoStep
  NoState = NoState
SYMMETRY Alike
SPECIFICATION Spec
CHECK_DEADLOCK FALSE
INVARIANTS
  TypeOK
  HistoryTellsUndo
  UndoLedger
  FailedIsUnwound
PROPERTIES
  SagaRefinement
