---------------------------- MODULE TelcoJourney ----------------------------
(***************************************************************************)
(* The telco demo (apps/demo-runner/src/telco-demo.js): it loads the       *)
(* manifests, starts the plan change on the in-memory engine, answers      *)
(* every approval the run is parked for, and exits.  It awaits each call,  *)
(* so the engine of InMemoryEngine runs here without races; what its tools *)
(* and policies answer follows from the manifests and the input.           *)
(*                                                                         *)
(* The tools are the fixtures of mock-adapter.js: they never fail, and     *)
(* they answer no key that a policy looks at.  Of the request that is      *)
(* prepared the model keeps who gave the consent and the approval it names.*)
(***************************************************************************)
EXTENDS InMemoryEngine, Manifests, TLC

CONSTANTS
  Files,      \* the files of each example, by its name
  Inputs,     \* what a journey may be started with
  Approvals,  \* answers an approver may give: the demo approves
  JourneyId,  \* the workflow the demo runs
  Journey,    \* its call of start()
  Role,       \* the role that is asked for a decision on a step
  Prepare,    \* the step that prepares the request
  FromSteps   \* its inputs.from_steps

ASSUME JourneyAssumption ==
  /\ Calls = {Journey}
  /\ Prepare \in Steps /\ Type[Prepare] = "tool"
  /\ FromSteps \in Seq(Steps)
  /\ \A x \in Steps : Role[x] # NoId
  /\ NoId # "default"
  /\ Approvals \subseteq BOOLEAN /\ TRUE \in Approvals
  /\ Absent \notin Outcomes \cup LifecycleStatuses
  /\ JourneyId # Absent

\* An example is a list of files, and the rules of a policy are a list.
ASSUME FilesAssumption ==
  \A b \in DOMAIN Files :
    /\ Files[b] \in Seq(Range(Files[b]))
    /\ \A k \in OfKind(Files[b], "policies") :
         List(Files[b][k], "rules") \in Seq(Range(List(Files[b][k], "rules")))

\* HasRef are the steps at which a file of the workflow names a tool or a policy:
\* an empty name is none.
ASSUME RefsAssumption ==
  \A b \in DOMAIN Files : \A k \in OfKind(Files[b], "workflows") :
    LET m == Files[b][k] IN
    m.id = JourneyId /\ "steps" \in DOMAIN m.fields =>
      /\ DOMAIN List(m, "tool_ref") = {x \in HasRef : Type[x] = "tool"}
      /\ DOMAIN List(m, "policy_ref") = {x \in HasRef : Type[x] = "policy"}
      /\ "" \notin Range(List(m, "tool_ref")) \cup Range(List(m, "policy_ref"))

VARIABLES
  bundle,    \* the example that is loaded
  passed,    \* the scripts of "npm run validate" that pass it
  registries,\* what is registered of it
  rawWorkflow, \* the workflow as it is written
  input,     \* the input of the journey
  phase,     \* where main() is
  evidence,  \* stepOutputs: the role whose evidence the output of a step holds
  request    \* the role the prepared request names, NoId before

loaded == <<bundle, passed, registries, rawWorkflow, input>>
data == <<loaded, phase, evidence, request>>
journeyVars == <<vars, data>>

-----------------------------------------------------------------------------
(* What is loaded *)

\* loadRawWorkflow(): the first file with the id, whose steps are run.
LoadRawWorkflow(files) ==
  LET found == {i \in OfKind(files, "workflows") : files[i].id = JourneyId}
  IN  IF found = {} THEN Absent ELSE files[CHOOSE i \in found : \A j \in found : i <= j]

\* What buildRegistries() makes of each example
Registered ==
  LET all == Files IN [b \in DOMAIN all |-> BuildRegistries(all[b])]

\* "npm run validate" looks at the example before anybody runs it.
Validate(files) ==
  {script \in {"validate-references"} : ReferencesPass(files)}
  \cup {script \in {"validate-examples"} : ExamplesPass(files)}

Workflow     == registries["workflows"][JourneyId]
ToolRef(x)   == rawWorkflow.fields.tool_ref[x]
PolicyRef(x) == rawWorkflow.fields.policy_ref[x]
HasTool(x)   == ToolRef(x) \in DOMAIN registries["tools"]
HasPolicy(x) == PolicyRef(x) \in DOMAIN registries["policies"]
Policy(x)    == registries["policies"][PolicyRef(x)]

\* _policyContext(): the input overrides what the workflow says.  The outputs of
\* steps and the evidence, which the code merges over both, are left out: no
\* policy of the examples has a rule about a field they bring.
PolicyContext ==
  LET said == [risk_tier |-> Workflow.riskTier, environment |-> Workflow.environment]
  IN  input @@ [k \in {k \in DOMAIN said : said[k] # Absent} |-> said[k]]

\* What the context says, or else what the policy is for in the first place.
OrScope(key, scope) ==
  IF key \in DOMAIN PolicyContext THEN PolicyContext[key]
  ELSE IF scope # <<>> THEN Head(scope) ELSE ""

\* _policyRequest()
PolicyRequest(scope) ==
  [agentId        |-> OrScope("agent_id", scope.agents),
   skillId        |-> OrScope("skill_id", scope.skills),
   toolId         |-> OrScope("tool_id", scope.tools),
   workflowId     |-> JourneyId,
   contextScopeId |-> OrScope("context_scope_id", scope.context_scopes),
   context        |-> PolicyContext]

Decision(x) == Evaluate(Policy(x), PolicyRequest(Policy(x).scope))

-----------------------------------------------------------------------------
(* main() *)

JourneyInit ==
  /\ Init
  /\ bundle \in DOMAIN Files
  /\ \E files \in {Files[bundle]} : passed = Validate(files)
  /\ registries = Absent
  /\ rawWorkflow = Absent
  /\ input \in Inputs
  /\ phase = "loading"
  /\ evidence = [x \in Steps |-> NoId]
  /\ request = NoId

Goto(p) == phase' = p /\ UNCHANGED <<evidence, request>>

\* The workflow is read twice: as it is registered and as it is written.
Load ==
  /\ phase = "loading"
  /\ registries' = Registered[bundle]
  /\ rawWorkflow' = LoadRawWorkflow(Files[bundle])
  /\ Goto(IF rawWorkflow' # Absent /\ JourneyId \in DOMAIN registries'["workflows"]
            THEN "ready" ELSE "exit 1")
  /\ UNCHANGED <<vars, bundle, passed, input>>

\* A workflow without steps is completed as soon as it is started.
Begin ==
  /\ phase = "ready"
  /\ \/ "steps" \in DOMAIN rawWorkflow.fields /\ Start(Journey)
     \/ /\ "steps" \notin DOMAIN rawWorkflow.fields
        /\ Proceed(Journey, Journey, NoId, [runs[Journey] EXCEPT !.status = "running"])
  /\ Goto("running")
  /\ UNCHANGED loaded

\* The call main() awaits has returned.
Returned == phase = "running" /\ \A p \in Procs : pc[p] \in {"idle", "done"}

\* The loop of main(): the evidence goes into the output of the parked step.
Decide(approved) ==
  /\ Returned
  /\ runs[Journey].status = "waiting_for_approval"
  /\ \E d \in Resumes :
       /\ d = CHOOSE e \in Resumes : pc[e] = "idle"
       /\ Resume(d, Journey, approved)
  /\ LET x == runs[Journey].pending IN evidence' = [evidence EXCEPT ![x] = Role[x]]
  /\ UNCHANGED <<loaded, phase, request>>

\* Mutant of Exit: the loop goes on until the run is completed.
ExitCompleted ==
  /\ Returned
  /\ runs[Journey].status = "completed"
  /\ Goto("exit 0")
  /\ UNCHANGED <<vars, loaded>>

Exit ==
  /\ Returned
  /\ runs[Journey].status # "waiting_for_approval"
  /\ Goto(IF runs[Journey].status = "completed" THEN "exit 0" ELSE "exit 1")
  /\ UNCHANGED <<vars, loaded>>

\* The from_steps that have evidence
Given == {k \in DOMAIN FromSteps : evidence[FromSteps[k]] # NoId}

\* Mutant of Gathered: the first step that has evidence wins.
GatheredFirst ==
  IF Given = {} THEN "default"
  ELSE evidence[FromSteps[CHOOSE k \in Given : \A j \in Given : k <= j]]

\* _gatherInputs(): the steps are merged in order, a later one overrides an
\* earlier; the fixture has a default of its own.
Gathered ==
  IF Given = {} THEN "default"
  ELSE evidence[FromSteps[CHOOSE k \in Given : \A j \in Given : j <= k]]

CallTool(p) ==
  /\ ToolOk(p)
  /\ request' = IF at[p] = Prepare THEN Gathered ELSE request
  /\ UNCHANGED <<loaded, phase, evidence>>

\* The engine goes on, with the answers of the registries and the policies.
EngineStep(p) ==
  \/ CallTool(p)
  \/ /\ phase = "running"
     /\ \/ Continue(p) \/ Paused(p) \/ Parked(p)
        \/ ToolLookup(p) /\ (pc'[p] = "calling") = HasTool(at[p])
        \/ PolicyLookup(p) /\ (pc'[p] = "evaluating") = HasPolicy(at[p])
        \/ PolicyAllows(p) /\ Decision(at[p]) = "allow"
        \/ PolicyAsks(p) /\ Decision(at[p]) = "require_approval"
        \/ PolicyDenies(p) /\ Decision(at[p]) \in {"deny", "require_consent"}
     /\ UNCHANGED data

JourneyNext ==
  \/ Load \/ Begin \/ Exit
  \/ \E approved \in Approvals : Decide(approved)
  \/ \E p \in Procs : EngineStep(p)

\* Files are read, registries and fixtures answer, and the demo answers every
\* approval itself.
JourneySpec == JourneyInit /\ [][JourneyNext]_journeyVars /\ WF_journeyVars(JourneyNext)

-----------------------------------------------------------------------------
(* The workflow of examples/telco-customer-care *)

\* Its steps: the type of each, and where it leads.
PlanSteps ==
  [read_limited_profile   |-> <<"tool", "verify_data_access", "stop">>,
   verify_data_access     |-> <<"policy", "check_eligibility", "stop">>,
   check_eligibility      |-> <<"tool", "calculate_price_delta", "stop">>,
   calculate_price_delta  |-> <<"tool", "customer_confirmation", "stop">>,
   customer_confirmation  |-> <<"approval", "confirm_consent", "stop">>,
   confirm_consent        |-> <<"policy", "risk_review", "stop">>,
   risk_review            |-> <<"policy", "prepare_change_request", "human_review">>,
   human_review           |-> <<"approval", "prepare_change_request", "stop">>,
   prepare_change_request |-> <<"tool", "complete", "stop">>,
   complete               |-> <<"completion", NoId, NoId>>]

\* The engine runs that workflow: every tool and policy step names what it calls.
PlanChange ==
  /\ Steps = DOMAIN PlanSteps /\ Unknown = {}
  /\ First = "read_limited_profile"
  /\ \A x \in Steps : PlanSteps[x] = <<Type[x], OnSuccess[x], OnFailure[x]>>
  /\ HasRef = {x \in Steps : Type[x] \in {"tool", "policy"}}
  /\ Prepare = "prepare_change_request"
  /\ FromSteps = <<"customer_confirmation", "risk_review", "human_review">>

-----------------------------------------------------------------------------
(* Properties *)

\* Whatever the files say, what is registered has the types of core/types.ts,
\* and the state of the journey those of the demo.
JourneyTypeOK ==
  /\ registries # Absent => \A kind \in Kinds : \A id \in DOMAIN registries[kind] :
       LET m == registries[kind][id] IN
       /\ kind # "audit_events" => m.status \in LifecycleStatuses
       /\ kind \in {"skills", "tools"} => m.riskLevel \in RiskLevels
       /\ kind = "tools" => m.adapter \in Adapters
       /\ kind = "policies" => m.decisionType \in Outcomes
       /\ kind \in {"systems", "context_scopes"} => m.dataClassification \in DataClasses
  /\ phase \in {"loading", "ready", "running", "exit 0", "exit 1"}
  /\ evidence \in [Steps -> {Role[x] : x \in Steps} \cup {NoId}]
  /\ request \in {Role[x] : x \in Steps} \cup {"default", NoId}

OneWorkflow ==
  Cardinality({i \in DOMAIN Files[bundle] : /\ Files[bundle][i].kind = "workflows"
                                            /\ Files[bundle][i].id = JourneyId}) = 1

\* Both scripts have passed the example, and only one file describes the
\* workflow: of two, the last is validated and the first is run.
Validated == passed = {"validate-references", "validate-examples"} /\ OneWorkflow

History == runs[Journey].history

Outcome(x, outcomes) ==
  \E i \in DOMAIN History : History[i].step = x /\ History[i].outcome \in outcomes

\* "This catches broken links before a runtime ever loads the specs": in an
\* example that the scripts pass, no step fails for a tool or a policy that is
\* not there.
ValidatedResolves == Validated => \A x \in Steps : ~Outcome(x, {"failed"})

\* No change request is prepared without the confirmation of the customer, and
\* without each gate before it: allowed by its policy, or approved by a person.
PreparedIsAuthorised ==
  request # NoId =>
    /\ Outcome("customer_confirmation", {"approved"})
    /\ Outcome("verify_data_access", {"completed", "approved"})
    /\ Outcome("confirm_consent", {"completed", "approved"})
    /\ \/ Outcome("risk_review", {"completed", "approved"})
       \/ Outcome("human_review", {"approved"})

\* The policy of a file, as it is written.
AsWritten(m) ==
  [status |-> Field(m, "lifecycle_state"), rules |-> List(m, "rules"),
   tiers |-> MapPolicy(m).tiers, decisionType |-> Field(m, "default_decision")]

\* Nothing between the file and the gate is read as a permission: a policy step
\* is passed without a person only if a file says "active" and "allow" in so
\* many words for this request; what is misspelt, missing or of a draft is not.
FailsClosed ==
  \A i \in DOMAIN History :
    Type[History[i].step] = "policy" /\ History[i].outcome = "completed" =>
      LET x == History[i].step IN
      \E k \in OfKind(Files[bundle], "policies") :
        LET m == Files[bundle][k] IN
        /\ m.id = PolicyRef(x)
        /\ AsWritten(m).status = "active"
        /\ Permits(AsWritten(m), PolicyRequest(Policy(x).scope))

\* The request names the one who decided last among those it is to name.
RequestNamesApprover ==
  request # NoId =>
    \E i \in DOMAIN History :
      /\ History[i].outcome = "approved"
      /\ \E k \in DOMAIN FromSteps : FromSteps[k] = History[i].step
      /\ request = Role[History[i].step]
      /\ \A j \in i + 1 .. Len(History) :
           History[j].outcome = "approved" =>
             \A k \in DOMAIN FromSteps : FromSteps[k] # History[j].step

\* The demo reports success, for an example the scripts passed, exactly when
\* the change request has been prepared.
ExitTellsOutcome ==
  Validated /\ phase \in {"exit 0", "exit 1"} => (phase = "exit 0" <=> request # NoId)

\* The two scripts do not drift apart: a file with all its fields that one
\* finds no broken reference in, the other accepts.
ReferencesCoverExamples ==
  "validate-references" \in passed /\ Shaped(Files[bundle]) => "validate-examples" \in passed

\* The demo ends: every approval it meets is answered, and no step comes back.
JourneyEnds == <>(phase \in {"exit 0", "exit 1"})
=============================================================================
