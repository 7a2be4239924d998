---------------------------- MODULE SeedRegistry ----------------------------
(***************************************************************************)
(* The sample objects the admin console is built with                      *)
(* (apps/admin-console/src/registry-data.ts): what certification,          *)
(* filtering and the dependency graph read of them.  Descriptions, source  *)
(* paths, versions and data classes are left out; the declared inputs and  *)
(* outputs are one value, "declared".                                      *)
(***************************************************************************)
EXTENDS Sequences

Types == {"agent", "skill", "tool"}
RiskTiers == {"T0", "T1", "T2", "T3"}
LifecycleStates ==
    {"draft", "pending_approval", "approved", "active", "deprecated", "retired", "blocked"}
ApprovalStates == {"approved", "pending", "not_certified", "blocked"}

Evidence == {"on_file", "requires_review", "intake_here", "certified_here", "blocked_here"}

\* A text that may be empty
Texts == STRING \cup {""}

\* What the fields of an object may hold
RegistryObjects ==
    [id : STRING, type : Types, owner : STRING, riskTier : RiskTiers,
     lifecycleState : LifecycleStates, approvalState : ApprovalStates,
     aiHarnessCertified : BOOLEAN, evidence : Evidence,
     policies : SUBSET STRING, relationships : SUBSET STRING,
     contract : {"none", "to_be_defined", "declared"},
     sideEffects : Texts, targetSystem : Texts]

\* An object of the registry; `contract` stands for its inputs and outputs.
RegistryObject(id, type, owner, risk, policies, links) ==
    [id |-> id, type |-> type, owner |-> owner, riskTier |-> risk,
     lifecycleState |-> "active", approvalState |-> "approved",
     aiHarnessCertified |-> TRUE, evidence |-> "on_file",
     policies |-> policies, relationships |-> links,
     contract |-> IF type = "agent" THEN "none" ELSE "declared",
     sideEffects |-> "", targetSystem |-> ""]

Tool(id, owner, risk, policies, links, effects, target) ==
    [RegistryObject(id, "tool", owner, risk, policies, links)
        EXCEPT !.sideEffects = effects, !.targetSystem = target]

Refused(object, approval) ==
    [object EXCEPT !.lifecycleState = "blocked", !.approvalState = approval,
                   !.aiHarnessCertified = FALSE]

SeedAgents ==
    << RegistryObject("customer-service-agent", "agent", "customer-care-platform", "T2",
           {"customer_data.access", "consent.required", "high_risk.action"},
           {"customer.change_plan", "customer.check_balance", "customer.replace_sim",
            "customer.read_limited_profile", "eligibility.check_plan_change",
            "billing.calculate_price_delta", "order.prepare_plan_change_request"}) >>

SeedSkills ==
    << RegistryObject("customer.change_plan", "skill", "customer-care-platform", "T2",
           {"customer_data.access", "consent.required", "high_risk.action"},
           {"customer.read_limited_profile", "eligibility.check_plan_change",
            "billing.calculate_price_delta", "order.prepare_plan_change_request"}),
       RegistryObject("customer.check_balance", "skill", "customer-care-platform", "T1",
           {"customer_data.access"}, {"customer.read_limited_profile"}),
       [RegistryObject("customer.replace_sim", "skill", "customer-care-platform", "T2",
            {"customer_data.access", "high_risk.action"}, {"customer.read_limited_profile"})
            EXCEPT !.lifecycleState = "approved"],
       Refused(RegistryObject("refund-iphone-device", "skill", "unknown", "T3",
           {"certification-required-policy"}, {"iphone-refund-issue-payment"}),
           "not_certified") >>

SeedTools ==
    << Tool("customer.read_limited_profile", "customer-systems", "T1",
           {"customer_data.access"},
           {"fictional-crm-system", "customer.change_plan", "customer.check_balance"},
           "read_only", "fictional-crm-system"),
       Tool("eligibility.check_plan_change", "product-platform", "T2",
           {"customer_data.access"},
           {"fictional-product-catalogue-system", "customer.change_plan"},
           "read_only", "fictional-product-catalogue-system"),
       Tool("billing.calculate_price_delta", "billing-platform", "T2",
           {"consent.required"}, {"fictional-billing-system", "customer.change_plan"},
           "read_only", "fictional-billing-system"),
       Tool("order.prepare_plan_change_request", "order-platform", "T2",
           {"consent.required", "high_risk.action"},
           {"fictional-order-system", "customer.change_plan"},
           "reversible_write", "fictional-order-system"),
       Refused(Tool("iphone-refund-issue-payment", "unknown", "T3",
           {"certification-required-policy"}, {"refund-iphone-device"},
           "irreversible_write", "unknown-refund-system"), "blocked") >>

SeedRegistryObjects == SeedAgents \o SeedSkills \o SeedTools
=============================================================================
