-------------------------- MODULE ExampleWorkflows --------------------------
(***************************************************************************)
(* The two workflows of the v0.2 engine that the repository ships: the     *)
(* telco plan change and the banking card dispute, with what the policy    *)
(* engines of their demo runners may answer for each step.  Prompts, roles *)
(* and input mappings are left out.  A workflow is given by the constants  *)
(* of WorkflowRunner; the branches of a conditional step are blocks of     *)
(* their own.                                                              *)
(***************************************************************************)
EXTENDS Naturals, Sequences

Elements(seq) == {seq[i] : i \in DOMAIN seq}

\* The ids of the steps of all the blocks
StepsOf(body) == UNION {Elements(body[b]) : b \in DOMAIN body}

\* DEFAULT_RETRY_POLICY: three attempts, after tool errors only.
DefaultMaxAttempts(steps) == [x \in steps |-> 3]
DefaultRetryOn(steps) == [x \in steps |-> "tool_error"]

\* Every step of the two workflows that is not conditional has a timeoutMs.
TimedSteps(kind) == {x \in DOMAIN kind : kind[x] # "conditional"}

PlanChangeBody ==
    [main |-> <<"fetch_customer_profile", "check_plan_eligibility", "eligibility_gate",
                "recommend_plan_options", "calculate_proration", "downgrade_approval_gate",
                "provision_plan_change", "apply_proration_credit", "send_confirmation",
                "create_audit_record">>,
     ineligible |-> <<"send_ineligibility_notice">>,
     downgrade |-> <<"team_lead_approval">>,
     none |-> <<>>]

PlanChangeSteps == StepsOf(PlanChangeBody)

PlanChangeKind == [x \in PlanChangeSteps |->
    CASE x \in {"eligibility_gate", "downgrade_approval_gate"} -> "conditional"
      [] x = "team_lead_approval" -> "human_approval"
      [] x = "recommend_plan_options" -> "skill"
      [] OTHER -> "tool"]

\* eligibility_gate holds if the customer is eligible, downgrade_approval_gate if
\* the revenue impact is below -30.
PlanChangeArm == [x \in PlanChangeSteps |-> [holds \in BOOLEAN |->
    CASE x = "eligibility_gate" /\ ~holds -> "ineligible"
      [] x = "downgrade_approval_gate" /\ holds -> "downgrade"
      [] OTHER -> "none"]]

\* rollback_plan_change and reverse_proration_credit
PlanChangeUndoable == {"provision_plan_change", "apply_proration_credit"}

\* telcoPolicy: a suspended account is not provisioned.
PlanChangeVerdicts == [x \in PlanChangeSteps |->
    {"allow"} \cup (IF x = "provision_plan_change" THEN {"deny"} ELSE {})]

DisputeBody ==
    [main |-> <<"fetch_transaction_details", "classify_risk", "risk_routing",
                "gather_evidence", "generate_dispute_summary",
                "initiate_provisional_credit", "create_audit_record">>,
     high |-> <<"fraud_analyst_review">>,
     none |-> <<>>]

DisputeSteps == StepsOf(DisputeBody)

DisputeKind == [x \in DisputeSteps |->
    CASE x = "risk_routing" -> "conditional"
      [] x = "fraud_analyst_review" -> "human_approval"
      [] x = "generate_dispute_summary" -> "skill"
      [] OTHER -> "tool"]

\* risk_routing holds if the risk score is 0.7 or more.
DisputeArm == [x \in DisputeSteps |-> [holds \in BOOLEAN |->
    IF x = "risk_routing" /\ holds THEN "high" ELSE "none"]]

\* reverse_provisional_credit
DisputeUndoable == {"initiate_provisional_credit"}

\* DisputeMockPolicyEngine: a blocked customer is denied every step, a very high
\* risk asks for an approval of the credit.
DisputeVerdicts == [x \in DisputeSteps |->
    {"allow", "deny"} \cup (IF x = "initiate_provisional_credit" THEN {"ask"} ELSE {})]
=============================================================================
