------------------------------ MODULE Manifests ------------------------------
(***************************************************************************)
(* The YAML manifests of an example: how the runtime loads them            *)
(* (packages/core/src/loader.js and its TypeScript twin), how it registers *)
(* them (in-memory-registry.js), and what the two scripts that run before  *)
(* it, validate-references.js and validate-examples.js, demand of them.    *)
(*                                                                         *)
(* An example is a sequence of files in the order they are listed.  A file *)
(* has the directory it lies in as its kind, an id, and the fields that    *)
(* are there.  A reference is a list of ids: one for a scalar, those of    *)
(* the steps, by step, for a workflow.  Schema files are of kind           *)
(* "schemas".  Ids are strings; "" is one.                                 *)
(***************************************************************************)
EXTENDS PolicyEvaluator,  \* for Absent, a field or an id that is not there
        Functions

Kinds == {"agents", "skills", "tools", "policies", "workflows", "systems",
          "context_scopes", "audit_events", "evaluations"}

Manifest(kind, id, fields) == [kind |-> kind, id |-> id, fields |-> fields]

Field(m, f) == IF f \in DOMAIN m.fields THEN m.fields[f] ELSE Absent
List(m, f)  == IF f \in DOMAIN m.fields THEN m.fields[f] ELSE <<>>

-----------------------------------------------------------------------------
(* loader.js: from what is written to the values the runtime knows *)

LifecycleStatuses == {"draft", "active", "deprecated", "retired"}
RiskLevels        == {"low", "medium", "high", "restricted"}
Adapters          == {"rest", "mcp", "mock", "workflow", "data"}
TrustLevels       == {"trusted_internal", "controlled_external", "mock", "unknown"}
DataClasses       == {"public", "internal", "confidential", "restricted"}
ActorTypes        == {"agent", "user", "system", "policy_engine", "workflow_engine"}
EventOutcomes     == {"started", "allowed", "denied", "requires_action", "completed", "failed"}
TargetTypes       == {"agent", "skill", "tool", "workflow", "policy", "journey"}
MetricTypes       == {"completion", "compliance", "quality", "latency", "reliability",
                      "business_outcome"}

Known(raw, values, default) == IF raw \in values THEN raw ELSE default

\* Mutant of LifecycleStatus: a state nobody knows counts as active.
LifecycleStatusOpen(raw) == Known(raw, LifecycleStatuses, "active")

LifecycleStatus(raw) == Known(raw, LifecycleStatuses, "draft")

\* Mutant of RiskLevel: a tier nobody knows is passed on.
RiskLevelRaw(raw) ==
  CASE raw = "T1" -> "low"  [] raw = "T2" -> "medium"
    [] raw = "T3" -> "high" [] raw = "T4" -> "restricted" [] OTHER -> raw

RiskLevel(raw) ==
  CASE raw = "T2" -> "medium" [] raw = "T3" -> "high" [] raw = "T4" -> "restricted"
    [] OTHER -> "low"

Adapter(raw)      == Known(raw, Adapters, "mock")
DecisionType(raw) == Known(raw, Outcomes, "deny")

MapAgent(m) ==
  [id |-> m.id, status |-> LifecycleStatus(Field(m, "lifecycle_state")),
   allowedSkills |-> List(m, "approved_skills"), channels |-> List(m, "allowed_channels")]

MapSkill(m) ==
  [id |-> m.id, status |-> LifecycleStatus(Field(m, "lifecycle_state")),
   riskLevel |-> RiskLevel(Field(m, "risk_tier")), tools |-> List(m, "tool_bindings"),
   policies |-> List(m, "policies"), contextScopes |-> List(m, "required_context")]

MapTool(m) ==
  [id |-> m.id, status |-> LifecycleStatus(Field(m, "lifecycle_state")),
   adapter |-> Adapter(Field(m, "adapter_type")),
   riskLevel |-> RiskLevel(Field(m, "risk_tier")), systemId |-> List(m, "target_system")]

MapPolicy(m) ==
  [id |-> m.id, status |-> LifecycleStatus(Field(m, "lifecycle_state")),
   decisionType |-> DecisionType(Field(m, "default_decision")),
   rules |-> List(m, "rules"), tiers |-> Range(List(m, "applicable_risk_tiers")),
   scope |-> [agents |-> List(m, "scope_agents"), skills |-> List(m, "scope_skills"),
              tools |-> List(m, "scope_tools"),
              context_scopes |-> List(m, "scope_context_scopes")]]

MapWorkflow(m) ==
  [id |-> m.id, status |-> LifecycleStatus(Field(m, "lifecycle_state")),
   riskTier |-> Field(m, "risk_tier"), environment |-> Field(m, "environment")]

\* The most sensitive class that is listed.
MapSystem(m) ==
  LET classes == Range(List(m, "data_classifications")) IN
  [id |-> m.id, status |-> LifecycleStatus(Field(m, "lifecycle_state")),
   trustLevel |-> Known(Field(m, "trust_level"), TrustLevels, "unknown"),
   dataClassification |->
     CASE "restricted" \in classes   -> "restricted"
       [] "confidential" \in classes -> "confidential"
       [] "public" \in classes /\ "internal" \notin classes -> "public"
       [] OTHER -> "internal"]

\* The class that is named, or else the first that is listed.
MapContextScope(m) ==
  LET named == Field(m, "data_classification")
      raw   == IF named # Absent THEN named
               ELSE Head(List(m, "data_classifications") \o <<"internal">>)
  IN [id |-> m.id, status |-> LifecycleStatus(Field(m, "lifecycle_state")),
      dataClassification |-> Known(raw, DataClasses, "internal"),
      sourceSystems |-> List(m, "source_systems")]

MapAuditEvent(m) ==
  [id |-> m.id, actorType |-> Known(Field(m, "actor_type"), ActorTypes, "system"),
   outcome |-> Known(Field(m, "outcome"), EventOutcomes, "started")]

MapEvaluation(m) ==
  [id |-> m.id, status |-> LifecycleStatus(Field(m, "lifecycle_state")),
   targetType |-> Known(Field(m, "target_type"), TargetTypes, "journey"),
   metricType |-> Known(Field(m, "metric_type"), MetricTypes, "completion")]

Mapped(m) ==
  CASE m.kind = "agents"         -> MapAgent(m)
    [] m.kind = "skills"         -> MapSkill(m)
    [] m.kind = "tools"          -> MapTool(m)
    [] m.kind = "policies"       -> MapPolicy(m)
    [] m.kind = "workflows"      -> MapWorkflow(m)
    [] m.kind = "systems"        -> MapSystem(m)
    [] m.kind = "context_scopes" -> MapContextScope(m)
    [] m.kind = "audit_events"   -> MapAuditEvent(m)
    [] m.kind = "evaluations"    -> MapEvaluation(m)

\* The positions of the files of a kind
OfKind(files, kind) == {i \in DOMAIN files : files[i].kind = kind}

\* Mutant of LoadAll: only what is active is loaded.
LoadAllActive(files, kind) ==
  {i \in OfKind(files, kind) :
     files[i].id \notin {Absent, ""} /\ Field(files[i], "lifecycle_state") = "active"}

\* loadAll(): the files that are loaded.  One without an id, or with an empty
\* one, is passed over.
LoadAll(files, kind) == {i \in OfKind(files, kind) : files[i].id \notin {Absent, ""}}

\* The last of the files at those positions with each id: what Map.set() leaves
\* when it is called for one after the other.
LastById(files, positions) ==
  [id \in {files[i].id : i \in positions} |->
     files[CHOOSE i \in positions :
             files[i].id = id /\ \A j \in positions : files[j].id = id => j <= i]]

\* What is registered of the files.  Each is mapped as it is loaded, which
\* leaves its id as it is.
BuildRegistries(files) ==
  [kind \in Kinds |->
     LET last == LastById(files, LoadAll(files, kind))
     IN  [id \in DOMAIN last |-> Mapped(last[id])]]

-----------------------------------------------------------------------------
(* The scripts that run before: validate-references.js, validate-examples.js *)

\* loadManifests(): the files of a kind by id; any string is an id.
ById(files, kind) == LastById(files, {i \in OfKind(files, kind) : files[i].id # Absent})

\* validate-references.js: the fields of each kind, and the kind they name.
ReferenceLinks ==
  [agents         |-> [approved_skills |-> "skills", approved_tools |-> "tools",
                       context_scopes |-> "context_scopes", evaluation_refs |-> "evaluations",
                       evaluation_pack_ref |-> "evaluations", audit_refs |-> "audit_events"],
   skills         |-> [approved_agents |-> "agents", required_context |-> "context_scopes",
                       tool_bindings |-> "tools", policies |-> "policies",
                       workflow_ref |-> "workflows", evaluation_refs |-> "evaluations",
                       audit_refs |-> "audit_events"],
   tools          |-> [target_system |-> "systems", policy_refs |-> "policies",
                       evaluation_refs |-> "evaluations"],
   workflows      |-> [skill_ref |-> "skills", policy_ref |-> "policies", tool_ref |-> "tools",
                       context_scope_ref |-> "context_scopes",
                       ui_manifest_ref |-> "ui_manifests",
                       evaluation_refs |-> "evaluations", audit_refs |-> "audit_events"],
   policies       |-> [scope_agents |-> "agents", scope_skills |-> "skills",
                       scope_tools |-> "tools", scope_workflows |-> "workflows",
                       scope_systems |-> "systems", scope_context_scopes |-> "context_scopes",
                       evaluation_refs |-> "evaluations"],
   context_scopes |-> [allowed_agents |-> "agents", allowed_skills |-> "skills",
                       source_systems |-> "systems", evaluation_refs |-> "evaluations"],
   ui_manifests   |-> [journey_ref |-> "workflows", policy_refs |-> "policies",
                       audit_refs |-> "audit_events", evaluation_refs |-> "evaluations"],
   evaluations    |-> [target_refs |-> "objects", audit_refs |-> "audit_events"],
   audit_events   |-> [agent_id |-> "agents", skill_id |-> "skills", policy_id |-> "policies",
                       tool_id |-> "tools", workflow_id |-> "workflows",
                       system_id |-> "systems", context_scope_id |-> "context_scopes",
                       evaluation_id |-> "evaluations"]]

\* validate-examples.js follows fewer: not the audit references of agents,
\* skills and workflows, nor the evaluations of agents.
ExampleLinks ==
  [agents         |-> [approved_skills |-> "skills", approved_tools |-> "tools",
                       context_scopes |-> "context_scopes",
                       evaluation_pack_ref |-> "evaluations"],
   skills         |-> [approved_agents |-> "agents", required_context |-> "context_scopes",
                       tool_bindings |-> "tools", policies |-> "policies",
                       workflow_ref |-> "workflows", evaluation_refs |-> "evaluations"],
   tools          |-> [target_system |-> "systems", policy_refs |-> "policies",
                       evaluation_refs |-> "evaluations"],
   workflows      |-> [skill_ref |-> "skills", policy_ref |-> "policies", tool_ref |-> "tools",
                       context_scope_ref |-> "context_scopes",
                       ui_manifest_ref |-> "ui_manifests", evaluation_refs |-> "evaluations"],
   policies       |-> [scope_agents |-> "agents", scope_skills |-> "skills",
                       scope_tools |-> "tools", scope_workflows |-> "workflows",
                       scope_systems |-> "systems", scope_context_scopes |-> "context_scopes",
                       evaluation_refs |-> "evaluations"],
   context_scopes |-> [allowed_agents |-> "agents", allowed_skills |-> "skills",
                       source_systems |-> "systems", evaluation_refs |-> "evaluations"],
   ui_manifests   |-> [journey_ref |-> "workflows", policy_refs |-> "policies",
                       audit_refs |-> "audit_events", evaluation_refs |-> "evaluations"],
   evaluations    |-> [target_refs |-> "objects", audit_refs |-> "audit_events"],
   audit_events   |-> [agent_id |-> "agents", skill_id |-> "skills", policy_id |-> "policies",
                       tool_id |-> "tools", workflow_id |-> "workflows",
                       system_id |-> "systems", context_scope_id |-> "context_scopes",
                       evaluation_id |-> "evaluations"]]

Objects == {"agents", "skills", "tools", "policies", "workflows", "systems"}

\* Every reference along links names a file of the kind, or one of the six
\* kinds of objects, unless it is in skipped; every schema of a tool is there.
Resolves(files, links, skipped) ==
  LET maps  == [kind \in Kinds \cup {"ui_manifests", "schemas"} |-> ById(files, kind)]
      names == [kind \in DOMAIN maps \cup {"objects"} |->
                  IF kind = "objects" THEN UNION {DOMAIN maps[k] : k \in Objects}
                  ELSE DOMAIN maps[kind]]
  IN /\ \A kind \in DOMAIN links : \A id \in names[kind] : \A f \in DOMAIN links[kind] :
          Range(List(maps[kind][id], f)) \ skipped \subseteq names[links[kind][f]]
     /\ \A id \in names["tools"] : \A f \in {"input_schema", "output_schema"} :
          Range(List(maps["tools"][id], f)) \ {""} \subseteq names["schemas"]

\* Mutant of ReferencesPass: the audit events are forgotten.
ReferencesPassEventless(files) ==
  Resolves(files, [kind \in DOMAIN ReferenceLinks \ {"audit_events"} |-> ReferenceLinks[kind]], {})

\* validate-references.js passes: it looks at every reference that is there.
ReferencesPass(files) == Resolves(files, ReferenceLinks, {})

RequiredFields ==
  [agents         |-> {"version", "name", "owner", "risk_tier", "lifecycle_state"},
   skills         |-> {"version", "name", "owner", "risk_tier", "lifecycle_state"},
   tools          |-> {"version", "name", "owner", "target_system", "side_effects"},
   policies       |-> {"version", "name", "owner", "scope", "default_decision", "rules"},
   workflows      |-> {"version", "name", "owner", "steps", "completion_criteria"},
   systems        |-> {"version", "name", "owner", "trust_level", "interfaces"},
   context_scopes |-> {"version", "name", "owner", "data_classification", "source_systems"},
   audit_events   |-> {"version", "timestamp", "trace_id", "event_type", "requester", "outcome"},
   evaluations    |-> {"version", "name", "owner", "target_type", "scenarios", "pass_threshold"},
   ui_manifests   |-> {"version", "name", "owner", "journey_ref", "channels", "components"}]

\* validateManifestShapes(): an id, and the fields its kind must have.
Shaped(files) ==
  \A i \in DOMAIN files :
    files[i].kind \in DOMAIN RequiredFields =>
      /\ files[i].id # Absent
      /\ RequiredFields[files[i].kind] \subseteq DOMAIN files[i].fields

\* validate-examples.js passes, apart from the schemas: an empty reference
\* is not looked at.
ExamplesPass(files) == Shaped(files) /\ Resolves(files, ExampleLinks, {""})
=============================================================================
