----------------------------- MODULE ToolGateway -----------------------------
(***************************************************************************)
(* RegistryToolGateway (tool-gateway.ts) with its adapters, on the tool    *)
(* registry and the policy evaluator, as createRuntime() (runtime.ts)      *)
(* wires them.                                                             *)
(*                                                                         *)
(* A caller is a chain of callTool() calls, one after the other.  Each     *)
(* action is the code between two awaits; pc says which await a call is    *)
(* at.  The registry may change at each of them: the record a call works   *)
(* with is the copy that get() took when the call began.                   *)
(***************************************************************************)
EXTENDS LifecycleRegistry, PolicyEvaluator, Integers, SequencesExt

CONSTANTS
  Callers,   \* who calls tools
  Inputs,    \* contexts a tool is called with
  Policies,  \* policies the gateway may be configured with
  NoPolicy,  \* the gateway has no policy
  Handlers,  \* tools the mock adapter has a handler for
  Adapters,  \* adapter types the gateway has an adapter for
  BootTools, \* the tools createRuntime() registers, in order
  BootAgent, \* the agent it registers
  BootSkills,\* the skills that agent may use
  Grants,    \* the links a later registration of a skill or agent may have
  MaxChanges \* bound on the changes of the registries after createRuntime()

ASSUME GatewayAssumption ==
  /\ Adapters \subseteq AdapterTypes
  /\ Handlers \subseteq Tools
  /\ BootTools \in Seq(Tools)
  /\ BootAgent \in Agents
  /\ BootSkills \subseteq Skills
  /\ Grants \subseteq SUBSET (Tools \cup Skills)
  /\ "system-bootstrap" \in Approvers
  /\ MaxChanges \in Nat
  /\ NoPolicy \notin Policies
  /\ \A p \in Policies : p.rules \in Seq(Range(p.rules))
  /\ Absent \notin Outcomes

VARIABLES
  boot,    \* how many registrations and activations createRuntime() has done
  changes, \* how many changes of the registries followed
  policy,  \* the policy of the gateway
  pc,      \* the await a call is suspended at
  call,    \* what a caller asks for
  record,  \* the copy of the tool record a call works with
  outcome, \* the decision of the policy on a call
  trace    \* the trace events of a caller's latest call

calls == <<call, record, outcome, trace>>
vars  == <<store, boot, changes, policy, pc, calls>>

\* The fields the gateway fills in; a request has no skill, workflow or scope.
Request(c) ==
  [agentId |-> call[c].agent, toolId |-> call[c].tool, context |-> call[c].input,
   skillId |-> Absent, workflowId |-> Absent, contextScopeId |-> Absent]

Init ==
  /\ store = EmptyStore
  /\ boot = 0
  /\ changes = 0
  /\ policy \in Policies \cup {NoPolicy}
  /\ pc = [c \in Callers |-> "idle"]
  /\ call = [c \in Callers |-> NoRecord]
  /\ record = [c \in Callers |-> NoRecord]
  /\ outcome = [c \in Callers |-> "none"]
  /\ trace = [c \in Callers |-> <<>>]

Goto(c, l) == pc' = [pc EXCEPT ![c] = l]
Emit(c, e) == trace' = [trace EXCEPT ![c] = Append(@, e)]

-----------------------------------------------------------------------------
(* createRuntime() *)

BootSteps == 2 * Len(BootTools) + 2
Ready     == boot = BootSteps

\* The tools are registered and activated in turn, then the agent; the skills
\* the agent may use are not registered.
Bootstrap ==
  /\ ~Ready
  /\ boot' = boot + 1
  /\ LET i == boot \div 2 + 1 IN
       \/ /\ i <= Len(BootTools) /\ boot % 2 = 0
          /\ RegisterTool(BootTools[i], "mock", FALSE)
       \/ /\ i <= Len(BootTools) /\ boot % 2 = 1
          /\ Transition(BootTools[i], "active", "system-bootstrap")
       \/ /\ i > Len(BootTools) /\ boot % 2 = 0
          /\ RegisterAgent(BootAgent, BootSkills)
       \/ /\ i > Len(BootTools) /\ boot % 2 = 1
          /\ Transition(BootAgent, "active", "system-bootstrap")
  /\ UNCHANGED <<changes, policy, pc, calls>>

\* Afterwards the registries are in the hands of whoever called it.
Administer ==
  /\ Ready
  /\ changes < MaxChanges
  /\ changes' = changes + 1
  /\ \/ \E t \in Tools, type \in AdapterTypes, url \in BOOLEAN : RegisterTool(t, type, url)
     \/ \E s \in Skills, links \in Grants : RegisterSkill(s, links)
     \/ \E a \in Agents, links \in Grants : RegisterAgent(a, links)
     \/ \E by \in Approvers :
          \/ \E t \in Tools : ChangeTool(t, by)
          \/ \E s \in Skills : ChangeSkill(s, by)
          \/ \E a \in Agents : ChangeAgent(a, by)
  /\ UNCHANGED <<boot, policy, pc, calls>>

-----------------------------------------------------------------------------
(* callTool() *)

\* The call begins: get() takes its copy of the record.
Call(c, t, a, i) ==
  /\ Ready
  /\ pc[c] \in {"idle", "returned", "thrown"}
  /\ call' = [call EXCEPT ![c] = [tool |-> t, agent |-> a, input |-> i]]
  /\ record' = [record EXCEPT ![c] = store[t]]
  /\ outcome' = [outcome EXCEPT ![c] = "none"]
  /\ trace' = [trace EXCEPT ![c] = <<>>]
  /\ Goto(c, "resolving")
  /\ UNCHANGED <<store, boot, changes, policy>>

\* Mutant of Callable: what was approved once may be called.
CallableUnlessDraft(c) == record[c] # NoRecord /\ record[c].lifecycle.state # "draft"

Callable(c) == record[c] # NoRecord /\ record[c].lifecycle.state = "active"

\* An unknown tool, or one that is not active: the call throws, untraced.
NotCallable(c) ==
  /\ pc[c] = "resolving"
  /\ ~Callable(c)
  /\ Goto(c, "thrown")
  /\ UNCHANGED <<store, boot, changes, policy, calls>>

\* The call goes to the adapter of the record's type, if there is one.
Route(c) ==
  IF record[c].data.adapterType \in Adapters THEN Goto(c, "calling") ELSE Goto(c, "thrown")

\* The call is announced; the policy, if there is one, is asked about it.
Started(c) ==
  /\ pc[c] = "resolving"
  /\ Callable(c)
  /\ Emit(c, "call_started")
  /\ \/ /\ policy # NoPolicy
        /\ outcome' = [outcome EXCEPT ![c] = Evaluate(policy, Request(c))]
        /\ Goto(c, "checking")
     \/ /\ policy = NoPolicy
        /\ Route(c)
        /\ UNCHANGED outcome
  /\ UNCHANGED <<store, boot, changes, policy, call, record>>

\* The policy has answered: every answer but "allow" throws.
Checked(c) ==
  /\ pc[c] = "checking"
  /\ Emit(c, "policy_checked")
  /\ \/ outcome[c] \in {"deny", "require_approval", "require_consent"} /\ Goto(c, "thrown")
     \/ outcome[c] = "allow" /\ Route(c)
  /\ UNCHANGED <<store, boot, changes, policy, call, record, outcome>>

\* Whether an adapter can answer at all: the mock adapter needs a handler,
\* the REST adapter a baseUrl, and the MCP adapter only throws.
MockAnswers(c) == record[c].data.adapterType = "mock" /\ call[c].tool \in Handlers
RestAnswers(c) == record[c].data.adapterType = "rest" /\ record[c].data.baseUrl

AdapterOk(c) ==
  /\ pc[c] = "calling"
  /\ MockAnswers(c) \/ RestAnswers(c)
  /\ Emit(c, "call_completed")
  /\ Goto(c, "returned")
  /\ UNCHANGED <<store, boot, changes, policy, call, record, outcome>>

\* Mutant of AdapterError: the error is passed on untraced.
AdapterErrorSilent(c) ==
  /\ pc[c] = "calling"
  /\ Goto(c, "thrown")
  /\ UNCHANGED <<store, boot, changes, policy, calls>>

\* The adapter, the handler or the system behind it fails.
AdapterError(c) ==
  /\ pc[c] = "calling"
  /\ Emit(c, "call_failed")
  /\ Goto(c, "thrown")
  /\ UNCHANGED <<store, boot, changes, policy, call, record, outcome>>

Answer(c) == AdapterOk(c) \/ AdapterError(c)

Execute(c) == NotCallable(c) \/ Started(c) \/ Checked(c) \/ Answer(c)

Next ==
  \/ Bootstrap
  \/ Administer
  \/ \E c \in Callers, t \in Tools, a \in Agents \cup {"unknown"}, i \in Inputs : Call(c, t, a, i)
  \/ \E c \in Callers : Execute(c)

Spec == Init /\ [][Next]_vars

\* Adapters answer and the event loop runs what is due; nothing makes anybody
\* call a tool or change a registry.
FairSpec == Spec /\ \A c \in Callers : WF_vars(Execute(c))

-----------------------------------------------------------------------------
(* Properties *)

TypeOK ==
  /\ store \in [Objects -> [lifecycle : Lifecycle, data : ToolData \cup Links] \cup {NoRecord}]
  /\ boot \in 0 .. BootSteps
  /\ changes \in 0 .. MaxChanges
  /\ policy \in Policies \cup {NoPolicy}
  /\ pc \in [Callers -> {"idle", "resolving", "checking", "calling", "returned", "thrown"}]
  /\ call \in [Callers -> [tool : Tools, agent : Agents \cup {"unknown"}, input : Inputs]
                            \cup {NoRecord}]
  /\ record \in [Callers -> [lifecycle : Lifecycle, data : ToolData] \cup {NoRecord}]
  /\ outcome \in [Callers -> Outcomes \cup {"none"}]
  /\ \A c \in Callers :
       trace[c] \in Seq({"call_started", "policy_checked", "call_completed", "call_failed"})

Reached(c) == pc[c] \in {"calling", "returned"}

\* However the registry has changed since the call began, a tool that runs is
\* one somebody approved, and the registry still says who: approvedBy survives
\* deprecation and retirement, and no registration replaces the record.
ApprovedToolsOnly ==
  \A c \in Callers :
    Reached(c) =>
      /\ store[call[c].tool] # NoRecord
      /\ store[call[c].tool].lifecycle.approvedBy \in Approvers

\* A call goes on to its adapter exactly when the policy, where there is one,
\* lets the request through by the reference reading of its rules: whatever is
\* misspelt, missing or asks for a person keeps the tool from running.
GovernedCalls ==
  \A c \in Callers :
    /\ Reached(c) /\ policy # NoPolicy => Permits(policy, Request(c))
    /\ outcome[c] # "none" => (outcome[c] = "allow" <=> Permits(policy, Request(c)))

\* The life cycle does not run backwards: no life-cycle change and no second
\* registration puts a deprecated object back to draft or active, or a retired
\* one to anything else; and an agent that is retired can use no skill.  What a
\* deprecated object may still do is left open: lifecycle.ts:7 calls it still
\* executable, the gateway and canUseSkill() refuse it.
WithdrawnForGood ==
  [][\A x \in Objects :
       /\ State(x) = "deprecated" => State(x)' \in {"deprecated", "retired"}
       /\ State(x) = "retired" =>
            /\ State(x)' = "retired"
            /\ x \in Agents => \A s \in Skills : ~CanUseSkill(x, s)']_store

\* The trace of a call that is over tells what became of it: it completed iff
\* the caller got a result, and one that failed in the adapter says so.  A
\* call refused before the adapter ends without either.
TraceTellsOutcome ==
  [][\A c \in Callers :
       pc[c] # pc'[c] /\ pc'[c] \in {"returned", "thrown"} =>
         /\ pc'[c] = "returned" <=> Contains(trace'[c], "call_completed")
         /\ pc[c] = "calling" /\ pc'[c] = "thrown" <=> Contains(trace'[c], "call_failed")
         /\ Contains(trace'[c], "call_completed") \/ Contains(trace'[c], "call_failed")
              => Head(trace'[c]) = "call_started"]_vars

\* A retired tool is soon out of use: the calls that read the record before it
\* was retired come to their end, and no later one runs.
RetirementTakesHold ==
  \A t \in Tools :
    (State(t) = "retired") ~>
      [](\A c \in Callers : pc[c] = "calling" => call[c].tool # t)
=============================================================================
