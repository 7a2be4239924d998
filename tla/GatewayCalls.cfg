CONSTANTS
  Tools = {"quote", "apply"}
  Skills = {"change_plan"}
  Agents = {"planner", "auditor"}
  Approvers = {"system-bootstrap"}
  NoOne = NoOne
  NoRecord = NoRecord
  Absent = Absent
  Callers = {c1}
  Inputs <- SomeInputs
  Policies <- SomePolicies
  NoPolicy = NoPolicy
  Handlers = {"quote"}
  Adapters = {"mock", "rest"}
  BootTools <- BootOrder
  BootAgent = "planner"
  BootSkills = {"change_plan"}
  MaxChanges = 4
  Grants = {{"change_plan"}}
SPECIFICATION FairSpec
INVARIANTS
  TypeOK
  ApprovedToolsOnly
  GovernedCalls
PROPERTIES
  WithdrawnForGood
  TraceTellsOutcome
  RetirementTakesHold
