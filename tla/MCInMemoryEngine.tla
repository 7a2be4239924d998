-------------------------- MODULE MCInMemoryEngine --------------------------
(***************************************************************************)
(* Small workflows for InMemoryEngine, after the plan change of the telco  *)
(* example: a quote, a policy check, the change itself, which goes to a    *)
(* manual approval when it fails, and a completion step.                   *)
(***************************************************************************)
EXTENDS InMemoryEngine

PlanSteps     == {"quote", "check", "manual", "apply", "note", "free", "audit",
                  "close", "odd"}
PlanType      == [x \in PlanSteps |->
                   CASE x \in {"quote", "apply", "note"}  -> "tool"
                     [] x \in {"check", "free", "audit"} -> "policy"
                     [] x = "manual" -> "approval"
                     [] x = "close"  -> "completion"
                     [] x = "odd"    -> "other"]
\* note has no tool_ref and is left by its on_failure; free has no policy_ref
\* and is left by its on_success.
PlanHasRef    == {"quote", "check", "apply", "audit"}
PlanOnSuccess == [x \in PlanSteps |->
                   CASE x = "quote"  -> "check"
                     [] x = "check"  -> "apply"
                     [] x = "manual" -> "apply"
                     [] x = "apply"  -> "note"
                     [] x = "free"   -> "audit"
                     [] x = "audit"  -> "close"
                     [] OTHER        -> NoId]
PlanOnFailure == [x \in PlanSteps |->
                   CASE x = "quote"  -> "lost"
                     [] x = "check"  -> "stop"
                     [] x = "manual" -> "odd"
                     [] x = "apply"  -> "manual"
                     [] x = "note"   -> "free"
                     [] x = "audit"  -> "odd"
                     [] OTHER        -> NoId]
PlanLookups   == [x \in PlanSteps |-> BOOLEAN]
PlanVerdicts  == [x \in PlanSteps |-> {"allow", "deny", "ask"}]
=============================================================================
