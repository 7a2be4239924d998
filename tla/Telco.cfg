CONSTANTS
  Calls = {j}
  Journey = j
  Resumes = {d1, d2, d3, d4, d5}
  Steps <- TelcoSteps
  Unknown = {}
  First = "read_limited_profile"
  Type <- TelcoType
  HasRef <- TelcoHasRef
  OnSuccess <- TelcoOnSuccess
  OnFailure <- TelcoOnFailure
  Lookups <- TelcoLookups
  Verdicts <- TelcoVerdicts
  NoId = NoId
  Absent = Absent
  Files <- Variants
  Inputs <- TelcoInputs
  Approvals = {TRUE, FALSE}
  JourneyId = "customer.change_plan.workflow"
  Role <- TelcoRole
  Prepare = "prepare_change_request"
  FromSteps <- TelcoFromSteps
SPECIFICATION JourneySpec
CHECK_DEADLOCK FALSE
INVARIANTS
  JourneyTypeOK
  ValidatedResolves
  PreparedIsAuthorised
  FailsClosed
  RequestNamesApprover
  ExitTellsOutcome
  ReferencesCoverExamples
PROPERTIES
  JourneyEnds
