-------------------------- MODULE LifecycleRegistry --------------------------
(***************************************************************************)
(* The registries of tools, skills and agents (tool-registry.ts,           *)
(* skill-registry.ts, agent-registry.ts) and the life cycle their records  *)
(* share (lifecycle.ts).  Every operation is async but runs at once, so it *)
(* is one step.  An operation that throws changes nothing and is no step.  *)
(***************************************************************************)
EXTENDS FiniteSets

CONSTANTS
  Tools,      \* tool ids
  Skills,     \* skill ids
  Agents,     \* agent ids
  Approvers,  \* who may approve an activation
  NoOne,      \* approvedBy is undefined
  NoRecord    \* nothing registered under an id

Objects      == Tools \cup Skills \cup Agents
AdapterTypes == {"mock", "rest", "mcp"}
States       == {"draft", "active", "deprecated", "retired"}

Lifecycle == [state : States, approvedBy : Approvers \cup {NoOne}]

\* What a tool record says of the adapter: its type and whether it has a
\* baseUrl. A skill lists tool ids, an agent skill ids.
ToolData  == [adapterType : AdapterTypes, baseUrl : BOOLEAN]
Links     == [allowed : SUBSET (Tools \cup Skills)]

ASSUME RegistryAssumption ==
  /\ Tools \cap Skills = {} /\ Tools \cap Agents = {} /\ Skills \cap Agents = {}
  /\ NoOne \notin Approvers
  /\ NoRecord \notin [lifecycle : Lifecycle, data : ToolData \cup Links]

VARIABLE store  \* the maps of the three registries

\* initialLifecycle()
InitialLifecycle == [state |-> "draft", approvedBy |-> NoOne]

ValidTransitions ==
  [draft      |-> {"active"},
   active     |-> {"deprecated", "retired"},
   deprecated |-> {"retired"},
   retired    |-> {}]

\* Mutant of Transitioned: a transition without an approver clears it.
TransitionedAnew(meta, to, by) == [state |-> to, approvedBy |-> by]

\* transitionLifecycle(): the approver is kept when none is given.
Transitioned(meta, to, by) ==
  [state |-> to, approvedBy |-> IF by = NoOne THEN meta.approvedBy ELSE by]

EmptyStore == [x \in Objects |-> NoRecord]

State(x) == IF store[x] = NoRecord THEN "none" ELSE store[x].lifecycle.state

\* Mutant of Register: a second registration replaces the record.
RegisterAgain(x, data) ==
  store' = [store EXCEPT ![x] = [lifecycle |-> InitialLifecycle, data |-> data]]

\* register(): throws when the id is taken.
Register(x, data) ==
  /\ store[x] = NoRecord
  /\ store' = [store EXCEPT ![x] = [lifecycle |-> InitialLifecycle, data |-> data]]

RegisterTool(t, type, url) == Register(t, [adapterType |-> type, baseUrl |-> url])
RegisterSkill(s, tools)    == Register(s, [allowed |-> tools])
RegisterAgent(a, skills)   == Register(a, [allowed |-> skills])

Transition(x, to, by) ==
  /\ store[x] # NoRecord
  /\ to \in ValidTransitions[store[x].lifecycle.state]
  /\ store' = [store EXCEPT ![x].lifecycle = Transitioned(@, to, by)]

\* activate() names an approver; deprecate() and retire() give a reason.
ChangeTool(t, by) ==
  /\ t \in Tools
  /\ \/ Transition(t, "active", by)
     \/ \E to \in {"deprecated", "retired"} : Transition(t, to, NoOne)

ChangeSkill(s, by) ==
  /\ s \in Skills
  /\ \/ Transition(s, "active", by)
     \/ \E to \in {"deprecated", "retired"} : Transition(s, to, NoOne)

ChangeAgent(a, by) ==
  /\ a \in Agents
  /\ \/ Transition(a, "active", by)
     \/ \E to \in {"deprecated", "retired"} : Transition(a, to, NoOne)

\* canUseSkill(): the life cycle of the agent counts, that of the skill does not.
CanUseSkill(a, s) == State(a) = "active" /\ s \in store[a].data.allowed
=============================================================================
