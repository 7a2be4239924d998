------------------------- MODULE MCExampleWorkflows -------------------------
(* WorkflowRunner running the two workflows the repository ships.             *)
EXTENDS WorkflowRunner, ExampleWorkflows

PlanChangeBlocks == DOMAIN PlanChangeBody
PlanChangeTimed == TimedSteps(PlanChangeKind)
PlanChangeMaxAttempts == DefaultMaxAttempts(PlanChangeSteps)
PlanChangeRetryOn == DefaultRetryOn(PlanChangeSteps)

DisputeBlocks == DOMAIN DisputeBody
DisputeTimed == TimedSteps(DisputeKind)
DisputeMaxAttempts == DefaultMaxAttempts(DisputeSteps)
DisputeRetryOn == DefaultRetryOn(DisputeSteps)

Has(s, x) == \E i \in DOMAIN history[s] : history[s][i] = [step |-> x, outcome |-> "completed"]

\* A downgrade that a team lead approves is carried out (run-plan-change.ts:7,
\* "parks for team-lead approval -> approved -> completes"): the approved run is
\* completed with its plan provisioned.  approve() completes the run at once.
ApprovedIsProvisioned ==
    \A d \in Decisions :
        pc[d] = "approved" => Has(st[d].obj, "provision_plan_change")

\* A customer found ineligible is blocked (plan-change-workflow.ts:47): once the
\* notice is sent the plan is not changed.  The branch that sends the notice does
\* not end the workflow, whose next steps provision the change.
IneligibleIsBlocked ==
    \A s \in Calls : Has(s, "send_ineligibility_notice") => ~Has(s, "provision_plan_change")

\* A dispute that failed leaves no provisional credit that nobody tried to reverse
\* (dispute-workflow.ts:10).  A credit given up by its timeout and issued after
\* all is not on the compensation stack.
FailedCreditIsReversed ==
    \A s \in Calls, r \in RunIds :
        /\ store[r] # NoState /\ store[r].obj = s /\ store[r].status = "failed"
        /\ effects[s]["initiate_provisional_credit"] > 0
        => "initiate_provisional_credit" \in Elements(undone[s])
=============================================================================
