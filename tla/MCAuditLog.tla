----------------------------- MODULE MCAuditLog -----------------------------
(* One writer's event, or an emitter's, and whoever keeps its attributes.     *)
EXTENDS AuditLog

MCActors == {[type |-> "agent", id |-> "a"]}
=============================================================================
