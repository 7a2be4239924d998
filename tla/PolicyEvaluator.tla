--------------------------- MODULE PolicyEvaluator ---------------------------
(***************************************************************************)
(* RuleBasedPolicyEvaluator (policy-engine.js and its TypeScript twin):    *)
(* what a policy decides on a request.  A pure function.                   *)
(*                                                                         *)
(* The subject and the resource of a rule's condition, and its context,    *)
(* are functions from the fields they constrain to the values they accept: *)
(* one value for a scalar field, several for a list.  The context of a     *)
(* request is a function on the keys that are present.                     *)
(***************************************************************************)
EXTENDS Naturals, Sequences

CONSTANT Absent  \* an optional field that is not there

Outcomes == {"allow", "deny", "require_approval", "require_consent"}

\* value ?? default
OrElse(value, default) == IF value = Absent THEN default ELSE value

\* Mutant of Normalised: the decision is taken as it is written.
NormalisedRaw(raw) == raw

\* #normalizeOutcome(): what is not an outcome denies.
Normalised(raw) == IF raw \in Outcomes THEN raw ELSE "deny"

\* #matchesCondition(): every constrained field has an accepted value.
Matches(condition, request) ==
  /\ \A f \in DOMAIN condition.subject : request[f] \in condition.subject[f]
  /\ \A f \in DOMAIN condition.resource : request[f] \in condition.resource[f]
  /\ \A k \in DOMAIN condition.context :
       /\ k \in DOMAIN request.context
       /\ request.context[k] \in condition.context[k]

Hits(policy, request) ==
  {i \in DOMAIN policy.rules : Matches(policy.rules[i].condition, request)}

RiskTier(request) ==
  IF "risk_tier" \in DOMAIN request.context THEN request.context.risk_tier ELSE "T1"

\* Mutant of Evaluate: the risk tiers are looked at before the rules.
EvaluateTiersFirst(policy, request) ==
  IF OrElse(policy.status, "active") # "active" THEN "deny"
  ELSE IF policy.tiers # {} /\ RiskTier(request) \notin policy.tiers THEN "deny"
  ELSE IF Hits(policy, request) # {}
    THEN LET first == CHOOSE i \in Hits(policy, request) :
                        \A j \in Hits(policy, request) : i <= j
         IN  Normalised(policy.rules[first].decision)
  ELSE Normalised(OrElse(policy.decisionType, "deny"))

\* evaluate(): the life cycle of the policy, its rules in order, its risk
\* tiers, its default.
Evaluate(policy, request) ==
  IF OrElse(policy.status, "active") # "active" THEN "deny"
  ELSE IF Hits(policy, request) # {}
    THEN LET first == CHOOSE i \in Hits(policy, request) :
                        \A j \in Hits(policy, request) : i <= j
         IN  Normalised(policy.rules[first].decision)
  ELSE IF policy.tiers # {} /\ RiskTier(request) \notin policy.tiers THEN "deny"
  ELSE Normalised(OrElse(policy.decisionType, "deny"))

-----------------------------------------------------------------------------
(* The reference: when a policy lets a request through *)

\* A policy lets a request through only when it is active and says "allow" in
\* so many words: in the first rule that applies, or as its default when no
\* rule applies and the request is within its risk tiers.
Permits(policy, request) ==
  /\ policy.status \in {"active", Absent}
  /\ \/ \E i \in DOMAIN policy.rules :
          /\ policy.rules[i].decision = "allow"
          /\ Matches(policy.rules[i].condition, request)
          /\ \A j \in 1 .. i - 1 : ~Matches(policy.rules[j].condition, request)
     \/ /\ policy.decisionType = "allow"
        /\ \A i \in DOMAIN policy.rules : ~Matches(policy.rules[i].condition, request)
        /\ policy.tiers = {} \/ RiskTier(request) \in policy.tiers
=============================================================================
