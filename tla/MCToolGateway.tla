--------------------------- MODULE MCToolGateway ----------------------------
(***************************************************************************)
(* A runtime with one bootstrapped tool and one that an operator may add,  *)
(* and policies that differ in where their decision comes from.            *)
(***************************************************************************)
EXTENDS ToolGateway

Condition(subject, resource, context) ==
  [subject |-> subject, resource |-> resource, context |-> context]
Rule(condition, decision) == [condition |-> condition, decision |-> decision]
Whatever == Condition(<<>>, <<>>, <<>>)

ForAgent == Condition([agentId |-> {"planner"}], <<>>, <<>>)
ForTool  == Condition(<<>>, [toolId |-> {"quote"}], [channel |-> {"web", "ivr"}])
ForSkill == Condition([skillId |-> {"change_plan"}], <<>>, <<>>)

Policy(status, rules, tiers, default) ==
  [status |-> status, rules |-> rules, tiers |-> tiers, decisionType |-> default]

SomePolicies ==
  { Policy("active", <<Rule(ForAgent, "allow")>>, {"T1"}, "deny"),
    Policy(Absent, <<Rule(ForTool, "require_consent"), Rule(ForAgent, "allow")>>, {}, "allow"),
    Policy("active", <<Rule(ForSkill, "deny"), Rule(ForTool, "alow")>>, {"T2"}, "allow"),
    Policy("active", <<Rule(ForAgent, "require_approval"), Rule(Whatever, "allow")>>, {}, Absent),
    Policy("draft", <<Rule(Whatever, "allow")>>, {}, "allow") }

\* What createRuntime() is given.
BootOrder == <<"quote">>

SomeInputs == { <<>>, [channel |-> "web", risk_tier |-> "T2"] }
=============================================================================
