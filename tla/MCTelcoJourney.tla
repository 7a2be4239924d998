--------------------------- MODULE MCTelcoJourney ---------------------------
(***************************************************************************)
(* The example examples/telco-customer-care, file by file, and what        *)
(* becomes of it when one file is missing, is there twice or says          *)
(* something else.                                                         *)
(***************************************************************************)
EXTENDS TelcoJourney
LOCAL INSTANCE SequencesExt

\* A file with the fields its kind must have besides those that are given.
File(kind, id, fields) ==
  Manifest(kind, id, fields @@ [f \in RequiredFields[kind] |-> <<>>])

Active == [lifecycle_state |-> "active", environment |-> "test"]
Agent  == <<"customer-service-agent">>
Reads  == <<"customer.read_limited_profile", "eligibility.check_plan_change",
            "billing.calculate_price_delta">>
Tools  == Append(Reads, "order.prepare_plan_change_request")
Scopes == <<"customer.summary", "session.context", "account.entitlements">>
Gates  == <<"consent.required", "customer_data.access", "high_risk.action">>
Packs  == <<"plan_change_eval_pack", "plan_change_trajectory_checks">>
Traces == <<"audit.allowed", "audit.blocked", "audit.approval_required">>
Plan   == "customer.change_plan"

AgentFile == File("agents", Agent[1], Active @@
  [approved_skills |-> <<Plan, "customer.check_balance", "customer.replace_sim">>,
   approved_tools |-> Tools, context_scopes |-> Scopes, evaluation_pack_ref |-> <<Packs[1]>>,
   evaluation_refs |-> Packs, audit_refs |-> Traces, risk_tier |-> "T2"])

SkillFile(id, risk, scopes, tools, policies, workflow) ==
  File("skills", id, Active @@
    [approved_agents |-> Agent, required_context |-> scopes, tool_bindings |-> tools,
     policies |-> policies, workflow_ref |-> workflow, evaluation_refs |-> <<Packs[1]>>,
     audit_refs |-> <<Traces[1]>>, risk_tier |-> risk])

ToolFile(id, risk, system, policies) ==
  File("tools", id, Active @@
    [target_system |-> <<system>>, adapter_type |-> "mock", risk_tier |-> risk,
     policy_refs |-> policies, evaluation_refs |-> <<Packs[2]>>,
     input_schema |-> <<id \o ".input">>, output_schema |-> <<id \o ".output">>])

PolicyFile(id, skills, tools, scopes, tiers, default, rule) ==
  File("policies", id, Active @@
    [scope_agents |-> Agent, scope_skills |-> skills, scope_tools |-> tools,
     scope_workflows |-> IF scopes = <<>> THEN <<JourneyId>> ELSE <<>>,
     scope_context_scopes |-> scopes, applicable_risk_tiers |-> tiers,
     default_decision |-> default, rules |-> <<rule>>, evaluation_refs |-> <<Packs[1]>>])

Rule(resource, context, decision) ==
  [condition |-> [subject |-> [agentId |-> ToSet(Agent)], resource |-> resource,
                  context |-> context],
   decision |-> decision]

PolicyFiles ==
  << PolicyFile("consent.required", <<Plan>>, <<Tools[4]>>, <<>>, <<"T2", "T3">>,
       "require_approval",
       Rule([skillId |-> {Plan}, workflowId |-> {JourneyId}],
            [consent_present |-> {"yes"}, channel |-> {"contact-center", "web"}], "allow")),
     PolicyFile("customer_data.access", <<Plan, "customer.check_balance">>, Reads, Scopes,
       <<"T1", "T2">>, "deny",
       Rule([contextScopeId |-> ToSet(Scopes), toolId |-> ToSet(Reads)],
            [session_purpose |-> {"customer-care"}, environment |-> {"test"}], "allow")),
     PolicyFile("high_risk.action", <<Plan, "customer.replace_sim">>, <<Tools[4]>>, <<>>,
       <<"T2", "T3">>, "require_approval",
       Rule([toolId |-> {Tools[4]}, workflowId |-> {JourneyId}],
            [risk_tier |-> {"T2"}, customer_confirmation_present |-> {"yes"}],
            "require_approval")) >>

TelcoToolRef ==
  [x \in {"read_limited_profile", "check_eligibility", "calculate_price_delta",
          "prepare_change_request"} |->
     CASE x = "read_limited_profile"  -> Tools[1]
       [] x = "check_eligibility"     -> Tools[2]
       [] x = "calculate_price_delta" -> Tools[3]
       [] OTHER                       -> Tools[4]]
TelcoPolicyRef ==
  [x \in {"verify_data_access", "confirm_consent", "risk_review"} |->
     CASE x = "confirm_consent"    -> Gates[1]
       [] x = "verify_data_access" -> Gates[2]
       [] OTHER                    -> Gates[3]]

WorkflowFile == File("workflows", JourneyId, Active @@
  [tool_ref |-> TelcoToolRef, policy_ref |-> TelcoPolicyRef,
   ui_manifest_ref |-> <<"confirm-plan-change">>, evaluation_refs |-> Packs,
   risk_tier |-> "T2"])

SystemFile(id) == File("systems", id, Active @@ [trust_level |-> "mock",
  data_classifications |-> <<"internal", "confidential">>])

ScopeFile(id, system) == File("context_scopes", id, Active @@
  [allowed_agents |-> Agent, allowed_skills |-> <<Plan>>, source_systems |-> <<system>>,
   evaluation_refs |-> <<Packs[2]>>, data_classification |-> "confidential"])

EventFile(id, outcome, policy, tool, system) == File("audit_events", id,
  [agent_id |-> Agent, skill_id |-> <<Plan>>, policy_id |-> <<policy>>, tool_id |-> <<tool>>,
   workflow_id |-> <<JourneyId>>, system_id |-> <<system>>, outcome |-> outcome])

Telco ==
  << AgentFile,
     SkillFile(Plan, "T2", Scopes, Tools, Gates, <<JourneyId>>),
     SkillFile("customer.check_balance", "T1", <<Scopes[1]>>, <<Tools[1]>>, <<Gates[2]>>, <<>>),
     SkillFile("customer.replace_sim", "T3", <<Scopes[1], Scopes[2]>>, <<>>, Gates, <<>>),
     ToolFile(Tools[1], "T1", "crm", <<Gates[2]>>),
     ToolFile(Tools[2], "T1", "catalogue", <<Gates[2]>>),
     ToolFile(Tools[3], "T1", "billing", <<Gates[2]>>),
     ToolFile(Tools[4], "T2", "order", <<Gates[1], Gates[3]>>) >>
  \o PolicyFiles
  \o << WorkflowFile,
     SystemFile("crm"), SystemFile("catalogue"), SystemFile("billing"), SystemFile("order"),
     ScopeFile(Scopes[1], "crm"), ScopeFile(Scopes[2], "crm"), ScopeFile(Scopes[3], "catalogue"),
     EventFile(Traces[1], "allowed", Gates[2], Tools[1], "crm"),
     EventFile(Traces[2], "denied", Gates[2], Tools[1], "crm"),
     EventFile(Traces[3], "requires_action", Gates[3], Tools[4], "order"),
     File("evaluations", Packs[1], Active @@ [target_type |-> "journey",
            target_refs |-> <<JourneyId>>, audit_refs |-> <<Traces[1], Traces[2]>>]),
     File("evaluations", Packs[2], Active @@ [target_type |-> "workflow",
            target_refs |-> <<JourneyId>>, audit_refs |-> <<Traces[3]>>]),
     File("ui_manifests", "confirm-plan-change", Active @@ [journey_ref |-> <<JourneyId>>,
            policy_refs |-> <<Gates[1], Gates[3]>>, audit_refs |-> <<Traces[3]>>,
            evaluation_refs |-> <<Packs[2]>>]) >>
  \o [i \in 1 .. 8 |-> Manifest("schemas",
        Tools[(i + 1) \div 2] \o (IF i % 2 = 1 THEN ".input" ELSE ".output"), <<>>)]

Position(id) == CHOOSE i \in DOMAIN Telco : Telco[i].id = id

\* The example with the field of a file, or its id, changed.
Edited(id, f, value) ==
  [Telco EXCEPT ![Position(id)].fields = [g \in {f} |-> value] @@ @]

Lacking(id, f) ==
  [Telco EXCEPT ![Position(id)].fields = [g \in DOMAIN @ \ {f} |-> @[g]]]

\* A second file with the id of the workflow whose last step names nothing.
Astray ==
  [WorkflowFile EXCEPT !.fields =
     [tool_ref |-> ("prepare_change_request" :> "order.gone") @@ TelcoToolRef] @@ @]

DecisionRule(id, decision) ==
  <<[List(Telco[Position(id)], "rules")[1] EXCEPT !.decision = decision]>>

Variants ==
     [b \in {<<"without", i>> : i \in DOMAIN Telco} |-> RemoveAt(Telco, b[2])]
  @@ [b \in {<<"unnamed", i>> : i \in {2, 8, 9}} |-> [Telco EXCEPT ![b[2]].id = ""]]
  @@ [b \in {<<"state", id, raw>> : id \in ToSet(Gates), raw \in {"retired", "Active"}} |->
        Edited(b[2], "lifecycle_state", b[3])]
  @@ [b \in {<<"default", id, raw>> : id \in ToSet(Gates), raw \in {"allow", "Allow", "require_consent"}} |->
        Edited(b[2], "default_decision", b[3])]
  @@ [b \in {<<"rule", id, raw>> : id \in ToSet(Gates), raw \in {"allow", "deny", "alow", "require_approval"}} |->
        Edited(b[2], "rules", DecisionRule(b[2], b[3]))]
  @@ [b \in {<<"no rules", id>> : id \in ToSet(Gates)} |-> Edited(b[2], "rules", <<>>)]
  @@ [b \in {<<"link", l>> : l \in {"policy_ref", "tool_ref", "skill_ref"}} |->
        Edited(JourneyId, b[2],
               IF b[2] = "skill_ref" THEN <<"">>
               ELSE [x \in DOMAIN Field(WorkflowFile, b[2]) |-> "gone"])]
  @@ [b \in {<<"lacks", id, f>> : id \in ToSet(Gates), f \in {"default_decision", "lifecycle_state"}}
                \cup {<<"lacks", JourneyId, "steps">>, <<"lacks", JourneyId, "environment">>,
                      <<"lacks", Tools[4], "adapter_type">>, <<"lacks", Plan, "risk_tier">>} |->
        Lacking(b[2], b[3])]
  @@ (<<"astray", "first">> :> (<<Astray>> \o Telco))
  @@ (<<"astray", "last">> :> Append(Telco, Astray))
  @@ (<<"tier">> :> Edited(JourneyId, "risk_tier", "T7"))
  @@ (<<"event">> :> Edited(Traces[1], "tool_id", <<"gone">>))
  @@ (<<"telco">> :> Telco)

\* The demo's input, without consent, on another channel, of another agent, of
\* none, and one that says of itself that it is of another tier.
Demo == [agent_id |-> Agent[1], skill_id |-> Plan, session_purpose |-> "customer-care",
         channel |-> "contact-center", consent_present |-> "yes",
         customer_confirmation_present |-> "yes"]
TelcoInputs ==
  { Demo, [Demo EXCEPT !.consent_present = "no"], [Demo EXCEPT !.channel = "ivr"],
    [Demo EXCEPT !.agent_id = "billing-agent"],
    [k \in DOMAIN Demo \ {"agent_id"} |-> Demo[k]],
    [risk_tier |-> "T1"] @@ Demo }

-----------------------------------------------------------------------------
(* The workflow: examples/telco-customer-care/workflows *)

ASSUME PlanChange

TelcoSteps     == DOMAIN PlanSteps
TelcoType      == [x \in TelcoSteps |-> PlanSteps[x][1]]
TelcoOnSuccess == [x \in TelcoSteps |-> PlanSteps[x][2]]
TelcoOnFailure == [x \in TelcoSteps |-> PlanSteps[x][3]]
TelcoHasRef   == DOMAIN TelcoToolRef \cup DOMAIN TelcoPolicyRef
TelcoLookups  == [x \in TelcoSteps |-> BOOLEAN]
TelcoVerdicts == [x \in TelcoSteps |-> {"allow", "deny", "ask"}]
TelcoRole == [x \in TelcoSteps |->
  CASE x = "customer_confirmation" -> "customer"
    [] x = "human_review"          -> "service-supervisor"
    [] OTHER                       -> "policy-reviewer"]
TelcoFromSteps == <<"customer_confirmation", "risk_review", "human_review">>
=============================================================================
