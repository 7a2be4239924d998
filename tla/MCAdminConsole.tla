--------------------------- MODULE MCAdminConsole ---------------------------
(* The console on two of its seeds, with three forms to fill in.           *)
EXTENDS AdminConsole

MCSeeds == SelectSeq(SeedRegistryObjects, LAMBDA o :
    o.id \in {"customer.change_plan", "order.prepare_plan_change_request"})

\* All the sample objects are such as the theorems assume of the seeds.
ASSUME WellFormed(SeedRegistryObjects)

Form(id, type, policies, links) ==
    [id |-> id, type |-> type, name |-> "named", owner |-> "care", riskTier |-> "T2",
     description |-> "long", policies |-> policies, relationships |-> links,
     sideEffects |-> "", targetSystem |-> ""]

Ready == {"customer_data.access"}

\* A skill, an agent that may link to it only once it is registered and whose id
\* normalizing changes, a tool with every field wrong.
MCForms ==
    { Form("refund.skill", "skill", Ready, {"order.prepare_plan_change_request"}),
      Form("Refunds!", "agent", Ready, {"refund.skill"}),
      [Form("_x", "tool", {}, {"nowhere"}) EXCEPT !.owner = "unknown", !.name = "",
                                                  !.description = "short"] }

MCNormalId == [typed \in {"Refunds!"} |-> "refunds"]
MCQueries == {{}, {"nowhere"}}

=============================================================================
