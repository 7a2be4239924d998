# TLA+ specifications of the agent harness

TLA+ models of the Enterprise AI Agent Harness, the TLC configurations that
check them and the proofs about them that TLAPS checks. Paths such as
`workflow-engine.ts:142` are of the repository this directory belongs to;
`PROJECT.json` maps every definition to the lines it models.

| Module | What it is |
|---|---|
| `WorkflowRunner` | the v0.2 engine: `WorkflowRunner`, `StepExecutor`, `InMemoryStateStore` |
| `Saga` | what compensating workflows promise, without saying how |
| `ExampleWorkflows` | the two workflows the repository ships for that engine |
| `InMemoryEngine` | the demo engine: `InMemoryWorkflowEngine`, in JavaScript and TypeScript |
| `PolicyEvaluator` | `RuleBasedPolicyEvaluator`, a function, with a reference for it |
| `LifecycleRegistry` | the registries of tools, skills and agents |
| `ToolGateway` | `RegistryToolGateway`, its adapters, `createRuntime()`; uses the two above |
| `Manifests` | the manifest loader, the registries it fills, two validation scripts |
| `TelcoJourney` | the telco demo from its files to its exit code; composes `InMemoryEngine`, `Manifests` and `PolicyEvaluator` |
| `SeedRegistry`, `AdminConsole` | the governance portal and the objects it is built with |
| `AuditLog` | the audit sink and the trace emitter |
| `Selection` | `Array.prototype.filter`, stated so that it can be reasoned about |
| `MC*` with the `*.cfg` | instances for TLC |
| `WorkflowRunnerProofs`, `WorkflowLedgerProofs`, `WorkflowOwnerProofs` | theorems about `WorkflowRunner`, and that it implements `Saga` |
| `InMemoryEngineProofs` | theorems about `InMemoryEngine` |
| `OperatorLemmas` | what filtering keeps of a sequence; a theorem about `PolicyEvaluator` |
| `ToolGatewayProofs` | theorems about `ToolGateway` and `LifecycleRegistry` |
| `AdminConsoleProofs` | theorems about `AdminConsole` |
| `TelcoJourneyProofs` | theorems about `TelcoJourney` and `Manifests` |

To parse, check or prove: `tlasany M.tla`, `tlc -config X.cfg MCM.tla`,
`tlapm MProofs.tla`.

## 1. The system

An agent calls skills and tools through governed workflows: a workflow engine
executes steps, asks a policy evaluator before (or as) a step, calls tools
through a gateway that consults a registry, parks runs for human approval, and
compensates what was done when a run fails. Everything is JavaScript or
TypeScript on one event loop: concurrency is the interleaving of async
functions at their awaits.

### Inventory

**Workflow runner, v0.2** (`packages/workflow-engine/src/workflow-engine.ts`,
`step-executor.ts`, `step-definitions.ts`, `state-store.ts`,
`workflow-state.ts`).
*State:* the store's map from run id to `WorkflowState` (status, current step,
history, compensation stack). `save()` and `get()` copy a state shallowly, so
that status and current step belong to a copy while the two arrays are shared
by all copies that descend from one `start()`.
*Operations:* `start`, `approve`, `reject`, `getState`, `listActive`;
internally `executeSteps` (recursive for branches), `compensate`,
`StepExecutor.execute` with `executeWithRetry` and `withTimeout`.
*Interaction:* policy engine and tool gateway are awaited; the event sink is
called synchronously.
*Hard:* decisions that race over stale copies; two compensations popping one
stack; timed-out calls that go on running; failing compensations; branches;
run ids that collide within a millisecond.
*Correct when:* every completed step with a compensation is undone once, in
reverse, and only when the run is given up; no step runs after that; the
stored status tells the truth and follows its life cycle; a retry never repeats
what a timed-out attempt may have done; calls return.

**In-memory engine** (`in-memory-workflow-engine.js` and its `.ts` twin).
*State:* a map from run id to a live object which all calls mutate.
*Operations:* `start`, `resume`, `getState`; `_executeFrom` follows
`on_success` / `on_failure`; tool, policy, approval and completion steps.
*Hard:* racing `resume` calls; code that runs after a park; failure paths.
*Correct when:* one call executes a run at a time; a park is decided once; a
parked run is idle; a completed or failed run is over; no gate is skipped.

**Policy evaluator** (`packages/policy-engine/src/policy-engine.js`, `.ts`).
Stateless: life-cycle guard, first matching rule, risk-tier ceiling, default
decision. *Correct when:* anything unknown, inactive or invalid denies.

**Tool gateway** (`packages/tool-gateway/src/tool-gateway.ts`, adapters;
`apps/demo-runner-placeholder/src/runtime.ts` wires it). Stateless: reads the tool's
record, asks the policy, calls an adapter, emits trace events. *Hard:* the
record may change between the read and the call. *Correct when:* only approved
tools that the policy allows are called, the trace tells how a call ended, and
a retired tool is soon out of use.

**Life-cycle registries** (`packages/registries/src/lifecycle.ts`,
`tool-registry.ts`, `skill-registry.ts`, `agent-registry.ts`).
*State:* maps from id to a record with a life-cycle state. *Operations:*
`register`, `activate`, `deprecate`, `retire`, `get`, `list`, `canUseSkill`.
*Correct when:* no life cycle runs backwards, what is retired stays retired, and
a record keeps its approver.

**Manifest registries, loader** (`in-memory-registry.js`,
`packages/core/src/loader.js`, `.ts`) and **validation scripts** (`scripts/`):
YAML files become registry items; unknown values become defaults; a second item
with the same id replaces the first; the scripts look for broken references and
missing fields before anything runs. *Hard:* three lists of the references to
follow, and defaults that decide about permissions. *Correct when:* what the
scripts pass runs without a missing part, and no default is a permission.

**Telco demo** (`apps/demo-runner/src/telco-demo.js`): loads
`examples/telco-customer-care`, runs its workflow on the in-memory engine,
answers each approval and exits with the engine's status. *Correct when:* no
request is prepared without its gates, it names who decided, and the exit code
tells whether it was prepared.

**Audit sink and trace emitter** (`packages/audit/src/in-memory-audit-sink.js`,
`packages/observability/src/trace-emitter.js`).
*State:* an append-only array of shallowly frozen events. *Correct when:*
stored events never change and the finders go on finding them.

**Admin console** (`apps/admin-console/src/main.ts`, `registry-data.ts`).
*State:* registry objects and review events, a selection and filters, drafts
and events in `localStorage`, the buttons on the screen.
*Operations:* submit a form, intake, certify, block, clear drafts, filter,
select, reload. *Hard:* only part of the state survives a reload; a storage
that is full throws after the memory has changed and before the page is drawn.
*Correct when:* ids are unique, a certified object passes its checklist, links
of drafts resolve, and trail, storage and page agree.

**v0.2 examples** (`apps/demo-runner-placeholder`): two workflow definitions,
mock tools and scripts that print walk-throughs.

**Context and UI manifest types**: declarations.

The list of what is hard to test, line by line, is under `hazards` in
`PROJECT.json`.

### Plan

1. `WorkflowRunner` with `Saga` as its abstract specification. *Done*, all
   its safety properties and the refinement proved.
2. `InMemoryEngine`. *Done*, all its safety properties proved.
3. `PolicyEvaluator` against a declarative reference. *Done and proved.*
4. `LifecycleRegistry` and `ToolGateway`. *Done and proved* but for liveness.
5. `AuditLog`. *Done.* Its one interesting property is violated.
6. `AdminConsole`. *Done*, all its properties proved.
7. `Manifests` and `TelcoJourney`. *Done*, all their safety properties proved.
8. `ExampleWorkflows` on the runner. *Done.*
9. Left: two tabs of the console on one storage, whose intent nothing states.

Every safety invariant and action property of a passing run is a theorem; the
five liveness properties are model-checked (section 9).

## 2. `WorkflowRunner`

### Correspondence

A process is one call of `start()` (`Calls`) or of `approve()` / `reject()`
(`Decisions`). `pc[p]` names the await at which it is suspended; an action is
everything the code does from that await to the next one.

| Variable | Code |
|---|---|
| `st[p]` | the local `state` of the call: run id, `obj`, status, current step |
| `store[r]` | the copy `InMemoryStateStore` holds under run id `r` |
| `history[s]`, `stack[s]` | the arrays that `start()` call `s` created and that every copy with `obj = s` shares |
| `frames[s]` | the nested calls of `executeSteps()`: block and position in it |
| `attempt[s]` | the counter of `executeWithRetry()` |
| `entry[p]` | the entry that `compensate()` has popped |
| `effects`, `late` | what tools did, and calls that lost the race in `withTimeout()` |
| `done`, `undone`, `undoOk`, `closing` | logs the properties are about; no guard reads them |

| `pc` | suspended in |
|---|---|
| `begin`, `advance` | `save()` before the loop (`:80`) and at its end (`:281`) |
| `checking`, `calling`, `backoff` | `StepExecutor.execute()`: policy, tool call, `sleep()` |
| `parking`, `finishing` | `save()` of the parked and of the completed state |
| `unwind`, `undoing`, `failing` | `compensate()`: `save()`, the compensation call, the last `save()` |
| `approve`, `reject` | `requireState()` |
| `approving`, `approved` | the two `save()` calls of `approve()` |

Conditions, mapped inputs and policy decisions depend on data the model does
not hold: each is a nondeterministic choice, restricted per step by the
constant `Verdicts`. `require_consent` is treated by the code as
`require_approval`; both are `"ask"`. A tool that rejects may say "timed out"
in its message, which is all `executeWithRetry()` looks at. A timed-out call
stays in `late` until it answers, with or without an effect (`LateAnswer`). A
call that the tool itself rejects is taken to have done nothing.

`Date.now()` in the run id lets two starts collide: with `UniqueRunIds = FALSE`
any id may be chosen again. `Serialised = TRUE` is a restriction on the
callers, not on the code: they make a decision when the one before has
returned.

TLC interleaves the segments of all calls freely. The microtask queue of a
JavaScript engine is first-in first-out, and with the in-memory store fewer
orders occur; `StateStore` is an interface whose implementations may take any
time, so all orders are possible behaviours of the runner.

`ExampleWorkflows` gives the constants the values of the two workflows the
repository ships for this engine, steps, branches, compensations, retries and
the policy answers their demo runners allow (`apps/demo-runner-placeholder`).

### Runs

| Run | Properties | What it shows |
|---|---|---|
| `RunnerSerial` | `FailedIsSettled`, `EffectAtMostOnce`, `ExecutingIsActive`, `AcceptedOnlyWaiting`, `StatusLifecycle`, `NoForwardAfterUnwind`, `StartReturns`, `RejectionFails` | flat workflow, decisions one after the other: `failed` is stored after the last compensation answered; a step takes effect at most once when only tool errors are retried; a run is executing only while it is stored as active; decided once; nothing goes forward after the first compensation; `start()` returns though tools may stay silent; an accepted rejection leads to `failed`, whatever compensations fail |
| `RunnerNested` | `TypeOK`, `HistoryTellsUndo`, `UndoLedger`, `FailedIsUnwound`, `SagaRefinement` | branches in branches, two starts on one run id and two racing decisions: the shared stack still undoes each step once, latest first, the history records exactly the compensations that succeeded, and the whole is a set of sagas |

Four runs find a violation, each a disagreement between the code and what the
repository says of it (quoted in `PROJECT.json`):

| Run | Property | What happens |
|---|---|---|
| `RunnerTwoDecisions` | `AcceptedOnlyWaiting` | an approval and a rejection that both read the waiting state are both accepted |
| `PlanApproveSkips` | `ApprovedIsProvisioned` | telco plan change: `approve()` completes the run without the steps after the approval: the downgrade is never provisioned |
| `PlanIneligible` | `IneligibleIsBlocked` | telco plan change: the branch for an ineligible customer sends its notice, and the outer steps go on to change the plan |
| `DisputeCredit` | `FailedCreditIsReversed` | card dispute: the call that issues the provisional credit times out and succeeds later; the dispute fails and the credit stays |

Three more shortcomings are visible in the code and have no run, because a
property could only restate a line. The end of a branch stores `completed`
while the outer steps go on (`workflow-engine.ts:286`; the design document,
`docs/v02/system-design-workflow-engine.md:280`, completes a workflow after its
last step): this is why two theorems below are about workflows without
conditional steps. `compensate()` marks the first record of a step
(`workflow-engine.ts:314`): with a step id that stands twice on a path it would mark
one record twice and the other never. Nothing forbids such a workflow and none
of the repository is one; `HistoryTellsUndo` compares step ids and says nothing
about it. And the `timeoutMs` of an approval is never looked at
(`step-executor.ts:86`; `step-definitions.ts:52`: "Auto-reject the workflow if no
approval within this window").

**Bounds.** One or two `start()` calls, two decisions, three to seven steps
with two compensations and up to two attempts (the shipped workflows as they
are, with three attempts), nesting depth three, a tool that is never tried
(`maxAttempts` 0). Two compensations are the least for which an order exists,
two decisions the least that race, two starts the least that collide; a third
of each adds only more of the same pairs. `RunnerSerial` 53,034 states,
`RunnerNested` 3,253,020. There is no state constraint: attempts are bounded
by `MaxAttempts` and every call ends. `RunnerNested` uses
`SYMMETRY Alike`: starts are exchangeable and so are decisions, `Init`, `Next`
and its properties name none of them, and it checks no liveness. The runs turn
off deadlock checking because a run may stop for good: all calls have returned.

**Fairness.** `LoopFairness` says that the event loop runs callbacks that are
due, timers fire, and compensation calls are answered (they have no timeout:
without an answer `compensate()` waits for ever). `RunnerSerial` assumes no
more: its steps are timed, so that `start()` returns though no tool answers.
Nobody has to call or decide anything.

### Proofs

All for every workflow, any number of calls and any interleaving, from
`RunnerAssumption` (shapes of the constants) and from what is named below and
nothing else. `Serialised`, `UniqueRunIds`, `Flat` (no conditional steps) and
`DocumentOrder` are hypotheses of the theorems that need them.

*`TypeCorrect`* (`Spec => []TypeOK`). `TypeOK` alone is not inductive: that the
step a frame points at exists depends on where the loop stands, and that a
call holds a state depends on its `pc`. `ControlOK` adds both: frames are
within their blocks (one past the end only at `finishing`), a call past its
first await holds a state, a start's own, and a popped entry is a step while
it is undone. `TypeInv == TypeOK /\ ControlOK` is preserved by each action.

*`LedgerCorrect`* (`[]UndoLedger`) and *`FailedCorrect`* (`[]FailedIsUnwound`).
The ledger says of each start that the completed steps are the stack followed
by the undone ones reversed. It is preserved by pops alone, but a push after
the first pop would break it. Hence `CopiesOK`: a copy that is parked, compensating
or failed exists only when `start()` has stopped executing; a call in the
compensation loop holds such a copy; a copy that says `failed` has an empty
stack; and nothing is undone before the start has ended.
`LedgerInv == TypeInv /\ CopiesOK /\ UndoLedger`. To keep thirty actions out of
the argument, every step is first shown to be a `Move` of one call (it goes
forward, parks, fails, pops, ...) or to be `Aside` (it touches none of this).

*`HistoryCorrect`* (`[]HistoryTellsUndo`, no hypothesis). `compensate()` marks
the first record of the step it has undone, and a step can occur more than once
in a history. `HistoryInv` adds to the ledger that every step on the stack, and
every one being undone, was recorded when it completed (`RecordsOK`), so that
there is a first record to mark, and that only such marks say `compensated`.

*`SagaCorrect`* (`Spec => SagaRefinement`). With `done` and `undone` as they
are and `unwinding` the starts some call has given up, each `Move` is a
`Complete`, `GiveUp` or `UndoLatest` of `Saga` or leaves it unchanged. A start
must not leave `unwinding` again: `approve()` overwrites a status, and
`GivenUpOK` says that some call keeps the fact.

The theorems of `WorkflowOwnerProofs` are about the one call that holds a run.
They refine the moves once more: each keeps, begins, fetches or writes copies.

*`AcceptedCorrect`* (`[]`-property `AcceptedOnlyWaiting`, for `Serialised` and
`UniqueRunIds`). `OwnerInv` adds to `SagaInv` that what is stored under an id is
a copy of that run (`FiledOK`), and that a run has at most one call which may
still write it, whose copy is the stored one (`HolderOK`). Then the state a
decision read is the state it replaces. Without `Serialised` this is what
`RunnerTwoDecisions` refutes.

*`NoForwardCorrect`* (`NoForwardAfterUnwind`, no hypothesis). The start of a run
that was given up has ended, and the effects of tools change only for a start
that has not, or when a call that had timed out answers.

*`SettledCorrect`* (`FailedIsSettled`, which presumes `Serialised` itself).
`SettledInv`: each copy carries the id of its start, one decision is under way,
and at most one call compensates a start, while no copy of it is stored as
failed.

*`ExecutingCorrect`* and *`LifecycleCorrect`* (`ExecutingIsActive`,
`StatusLifecycle`; for `Flat`, `Serialised` and `UniqueRunIds`). In a workflow
without branches there is one loop, and its copy says `running` until the loop
ends (`FlatOK`). With branches both are false, for the reason given above.

*`EffectCorrect`* (`EffectAtMostOnce`, for `DocumentOrder`). An attempt that
may have had an effect is the last one of its step, so what is left is that no
step is reached twice. That is not a fact about every table of blocks: a block
could list a step twice. `DocumentOrder` says that the steps can be numbered as
they are written, each after those before it in its block and a conditional step
around its arms, which every workflow given as a literal allows
(`MCWorkflowRunner` checks it of its own). `EffectAt` then says that every tool
that has been called stands before the step the loop points at, or at it, and
that loops are nested as arms are.

Model-checked only: `StartReturns` and `RejectionFails`, which are liveness.

## 3. `InMemoryEngine`

### Correspondence

`Calls` are calls of `start()`, `Resumes` calls of `resume()`; a run is named
by the call that made it (`randomUUID()`). `runs[r]` is the live object:
`status`, `pending` (`pendingApprovalStepId`) and `history`. A decision is
recorded by the code as an entry of type `approval` with outcome `completed`
or `denied`; the model calls these outcomes `approved` and `rejected`.
`parks` counts the parks and is read by properties only.

| `pc` | suspended in |
|---|---|
| `lookup`, `calling` | `_toolStep()`: `getTool()`, `callTool()` |
| `fetching`, `evaluating` | `_policyStep()`: `getPolicy()`, `evaluate()` |
| `parking` | `_policyStep()`: `_approvalStep()`, which is async but waits for nothing |
| `pausing` | `_executeFrom()`: `_approvalStep()` |
| `returning` | `_executeFrom()`: `_toolStep()` or `_policyStep()`, which has returned `at[p]` |

What a registry knows (`Lookups`), a policy decides (`Verdicts`) and a tool
answers is nondeterministic. Registries and policies are in-memory objects
that do not reject; a rejection of theirs would leave the engine. Steps named
by a workflow may be unknown (`Unknown`), in which case the run completes
(`:114-118`). `resume()` of an unknown run throws before it reads anything and
is not modelled. Step outputs and the context built from them are left out:
no control of the engine but the policy's verdict depends on them.

### Runs

| Run | Properties | What it shows |
|---|---|---|
| `EngineParks` | `TypeOK`, `OneExecutor`, `WaitingIsIdle`, `DecidedOnce`, `UnaskedIsOver`, `UnaskedIsFinal`, `CallsReturn` | policies and approval steps park a run, three callers race to resume it: one executor at a time, each park decided once; a completed or failed run that no policy parked is over for good; calls end |
| `EngineWindow` (violation) | `SettledIsOver` | a policy parks the run, a resume comes before the parking call has unwound, and the tail of that call (`:142-145`) marks the resumed run completed |

The window of `EngineWindow` is two microtasks wide. It is open to a caller
who knows the run id, from an earlier park or because tools get it as
`traceId`, and calls `resume()` from a microtask in between. `EngineParks`
includes these windows, and its properties hold in them.

Three things the code does without exception, so that a run could only restate
them: a failed tool without `on_failure` ends the run as completed
(`in-memory-workflow-engine.js:166`; the TypeScript twin, `.ts:252-253`, says it
ends as failed); a policy step without `policy_ref` passes
(`.js:171`; `docs/concepts/policy-engine.md:60`: "Default to deny when policy is
missing");
and the engine never looks at a tool's status.

**Bounds.** One run, because runs share nothing: every action reads and writes
the object of one run. Three resumes, so that two race for a second park. The
workflow has a step of every type, with and without references, a failing step
that leads back to a step before it, an unknown step and a step of a type the
engine does not know. The history grows with the steps; the graph leads back
only through the approval, which spends a resume. Deadlock checking is off
because all calls may have returned.

**Fairness.** `FairSpec`: each call that is executing goes on, that is,
registries, policies and tools answer. Nobody has to resume. A workflow whose
steps lead back without an approval can execute for ever; `CallsReturn` is
about those that do not.

### Proofs

For every workflow and any number of calls and resumes, `InMemoryEngineProofs`
proves all the safety properties of `EngineParks`: `EngineTypes`,
`ExecutorIsAlone`, `WaitingRunIsIdle`, `ParkIsDecidedOnce`, `UnaskedRunIsOver`
and, as an action property, `UnaskedRunIsFinal`. They hang together. That a
park is decided once needs that nobody executes the run meanwhile; that needs
that a call is at a step of a run only while it is the one that owns it; and
ownership passes from the call that parks to the call that resumes while the
first is still unwinding. `EngineInv` therefore distinguishes a call that `Owns`
its run from one that merely `Trails` (it has parked, or settled, and only has
code left that can write the final status), and every action is shown to be a
`Move` of the one or a step of the other. `CallsReturn` is model-checked only.

## 4. `ToolGateway`, `LifecycleRegistry`, `PolicyEvaluator`

### Correspondence

A caller makes one `callTool()` after another. `pc[c]` is `idle`, or the await
the call is suspended in (`resolving` the tool, `checking` with the policy,
`calling` the adapter), or how it ended (`returned`, `thrown`). `call[c]` is the
request, `record[c]` the copy of the tool's record that `get()` returned when
the call began, `outcome[c]` the policy's answer, `trace[c]` the trace events
of this call. `policy` is the policy the gateway was made with, if any.

`store` is the three registries of `LifecycleRegistry`: an object's life-cycle
record with who approved it, and its data (a tool's adapter and risk, the links
of an agent). `Bootstrap` is what `createRuntime()` registers and activates, one
object at a time; `Administer` is any registration, activation, deprecation or
retirement after that, which may come between any two awaits of a call.

`Evaluate` in `PolicyEvaluator` is `evaluate()` line by line: invalid and
inactive policies, the first matching rule, the risk-tier ceiling, the default,
and the mapping of unknown decisions to `deny`. `Permits` is the reference: it
says in which cases a request passes, without saying in which order the code
looks. A rule that matches wins before the ceiling is looked at; both say so,
because nothing in the repository says otherwise.

### Run

`GatewayCalls`: `TypeOK`, `ApprovedToolsOnly`, `GovernedCalls`,
`WithdrawnForGood`, `TraceTellsOutcome`, `RetirementTakesHold`. Calls are in
flight while the registries change under them: only tools somebody approved are
called and only as the policy lets them, the trace tells how a call ended, no
life cycle runs backwards, and a retired agent can use no skill.

The record is read before the policy is awaited (`tool-gateway.ts:64`), so a
tool that is retired in between is called once more. `RetirementTakesHold` says
how far this goes: the calls that had read the record end, and no other call
reaches the tool.

The repository disagrees with itself about `deprecated`. `lifecycle.ts:7` says
"still executable but should not be used for new journeys",
`docs/reference/registry-object-model.md:28` "Still available", and only
`retired` is to be blocked (`:29`). The gateway refuses every tool that is not
`active` (`tool-gateway.ts:64`; its comment at `:46`: "must be active"), and so
does `canUseSkill()` with agents (`agent-registry.ts:75`): deprecating a tool
stops the journeys that use it. Since the code does so without exception, a run
could only restate the guard. `WithdrawnForGood` and `RetirementTakesHold`
therefore demand of retired objects only that they go out of use, and hold
whichever side is right.

**Bounds.** One caller (calls share only the registries, which the caller does
not write), two tools (one with a handler), one skill, two agents and an
unknown one, four registry changes after the bootstrap, the mock and the rest
adapter, no policy or one of five that differ in where the decision comes from:
a rule, the ceiling, the default, a misspelt word, a policy that is not
active. 248,637 states. The caller may always call again, so deadlock is checked.

**Fairness.** `FairSpec`: a call in flight goes on, that is, the policy and the
adapters answer. Nobody has to call.

### Proofs

`EvaluatePermits` (in `OperatorLemmas`, where the demo uses it too): for every
policy and every request, `Evaluate` allows exactly what `Permits` does (the
first match is the least index, `LeastNat`). `GatewayTypes`,
`RunningToolIsApproved`, `RunningCallIsGoverned`, `WithdrawnStays`,
`TraceIsTrue`: the safety properties of the run, for any number of
callers, objects and changes. `GatewayInv` says that the registries hold
well-formed records, of which all but the drafts name an
approver (`StoreOK`); that a call holds a record of its tool that was active
when it was copied (`CallsOK`, `Copied`); that it is past the policy only if the
policy permits it (`Governed`); and which events each `pc` has behind it
(`Traced`). That a running tool is approved *now* needs more than that it was
when it was copied: no registration replaces a record and no change clears the
approver. `RetirementTakesHold` is liveness and model-checked only.

## 5. `AdminConsole`, `SeedRegistry`

### Correspondence

`objects` and `events` are `registryObjects` and `reviewEvents`, `storage` the
two keys in `localStorage`, `view` the filters, the selection and the form, `screen` the
buttons the last `render()` drew, `load` the number of loads. `SeedRegistry` has
the objects the page is built with. The operations on one object (the checklist,
a decision, relationship gaps) are operators of `AdminConsole`.

A handler runs to its end, so the actions are whole handlers: submit, intake,
certify, block, clear drafts, filter, select, reload. Each of the writes inside
a handler may throw (a full quota). Nobody catches it: what was changed in
memory stays, later writes and the `render()` do not happen, and the page keeps
its stale buttons. `faults` counts these.

### Run

`Console`: `TypeOK`, `UniqueIds`, `CertifiedIsReady`, `DraftLinksResolve`,
`TrailTellsDecision`, `StoredIsShown`. The last two hold as long as no write has
failed; the others in spite of failures and stale buttons. Deadlock is checked:
the page can always be used.

**Bounds.** Two seeds, three forms (an id that is kept as typed, one that normalising changes, an
invalid one), two
events, two drafts, one failed write, two loads, one filter at a time; 362,395
states. A reload, a failure and two objects in each list are the least at which
lists, storage and page can differ; a bound ends a history, it does not
remove a handler.

What the model shows beside the properties: seeds forget their decisions in a
reload while the events about them stay (hence "standing" events in
`TrailTellsDecision`); an agent may be certified with skills that are not; the
message "approved skill" (`main.ts:887`) does not depend on an approval; an
intake makes the item "Certification evidence" pass; when clearing the drafts
fails at its second write, the events of the cleared drafts stay and an object
registered under the same id later inherits them.

### Proofs

All six properties, for any seeds, forms and filters and any order of handlers,
failed writes and reloads: `ConsoleTypes`, `IdsCorrect`, `CertificationCorrect`,
`LinksCorrect`, `DecisionsCorrect`, `StorageCorrect`. The assumptions on the
constants are that the seeds are as `registry-data.ts` has them
(`SeedsAssumption`: ids of their own, what is certified passes its checklist and
is no draft; `MCAdminConsole` checks it of all ten) and that a form holds
texts, with its type and its risk tier from their menus (`FormsAssumption`).

The lists are filtered with `Where`, which takes the elements at the positions
that pass, in their order. `OperatorLemmas` has what follows: which elements
are left (`PickElements`), that two of them stand in the order they had
(`PickPositions`), which is first (`PickFirst`), and that what is put in front
of a list is in front of what is filtered of it (`PickPrefix`).

`PageInv` is the inductive invariant of the first four. It says the same of the
page and of the storage, because a reload makes one of the other: each list is a
`Book`, whose ids differ, whose certified objects are ready, whose seeds keep
the links they came with, and whose drafts would be loaded again and link to
what is there. A draft links only to what was registered before it, so that the
drafts alone, read back before the seeds, resolve too. `CertifiedIsReady` needs more than the guard of
"certify": neither a block nor an intake from an old button may leave an object
certified and incomplete, and a draft that was certified is no draft, so that a
later intake is not offered.

`TrailInv` is that of the last two. As long as no write failed the buttons are
those of the page as it is (so that "intake" is clicked on drafts only), the
storage is the drafts and the events, and each object shows what the latest
event that stands made of it.

## 6. `AuditLog`

`store` is the sink's array, `heap` the nested objects of events by reference,
`held` the references that code outside the sink keeps, `emitters` the trace
ids of the emitters there are, `now` the clock.
`Object.freeze()` is shallow (`in-memory-audit-sink.js:50`): a nested object can
be changed after the event was stored. `AuditShared` checks `EventsStand`, what
the comment at `:10` promises, and finds it violated by one event and one
write. With the nested objects left alone the finders return what was written;
that alone would hold by the shape of the model and has no run. An emitter
without a sink, which stores nothing, and an event whose `timestamp` is there and
`undefined`, which is stored so, are left out.

## 7. `Manifests`, `TelcoJourney`

### Correspondence

`Manifests` has the loader as a function from a sequence of files to registries
(an item per id, the last file wins; a missing or unknown field becomes the
default of `loader.js`) and the two validation scripts as predicates on the
files: `validate-references.js` and `validate-examples.js`.

`TelcoJourney` is `telco-demo.js`: it loads (`phase` `loading`, `ready`), runs
the workflow on the engine of `InMemoryEngine` (`running`), answers each
approval and exits (`exit 0`, `exit 1`). `bundle` is the example it loads and `passed` the
scripts that pass it. It extends `InMemoryEngine` and narrows
the nondeterminism of its registries, policies and tools to what the manifests
and the input determine: a lookup finds what the registries hold, and the
verdict is `Evaluate` of `PolicyEvaluator` on the item that was loaded.
`evidence` and `request` keep who decided on a step and whom the prepared
request names. Tools are the fixtures of `mock-adapter.js`, which never fail.

### Run

`Telco`: `JourneyTypeOK`, `ValidatedResolves`, `PreparedIsAuthorised`,
`FailsClosed`, `RequestNamesApprover`, `ExitTellsOutcome`,
`ReferencesCoverExamples`, `JourneyEnds`. `Validated` presumes that one file
describes the workflow.

**Bounds.** The bundles are the manifests of the repository, unedited and with
one edit each: a file missing, without an id, retired, of a misspelt state or
decision, with another default or rule, with a link that leads nowhere,
with a field missing, with a second workflow file. Six inputs, five resumes
(the workflow asks at most that often); 14,452 states. One edit at a time,
because a validation script can be wrong about one reference, and a
gate reads one policy. The unedited bundle validates, and it reaches exit 0 with
requests that name either of the two approvers as well as exit 1. Approvers may
also refuse, which the demo itself never does. Deadlock checking is off
because the demo exits.

**Fairness.** `JourneySpec`: weak fairness of the demo's own steps and of the
engine's, that is, of one process awaiting local functions. Approvals are
answered by the demo itself.

What the model shows beside the properties: customer data is read before the
access policy is asked; no gate looks at `eligibility_status`; the price step
asks `check_eligibility` for a `current_plan_id` that tool does not output; the
targets of `on_success` and `on_failure` are validated by neither script; a
tool that is not found makes the demo exit 0 as completed, though only for
bundles the scripts refuse; a missing `agent_id` becomes the first agent in the
policy's scope (`in-memory-workflow-engine.js:245`), and `FailsClosed` reads the
request after that, so it does not count as a default; the last approver's evidence
replaces the customer's `consent_statement_version` (`:228-240`); the input's
`risk_tier` replaces the workflow's (`:254-262`); of two files with the
workflow's id the registry and the validator take the last and
`loadRawWorkflow()` (`telco-demo.js:94-102`) the first.

### Proofs

For any examples, inputs and answers, and from assumptions about the shape of
the constants: lists of files and rules are sequences (`FilesAssumption`), and a
file of the workflow names tools and policies at the steps `HasRef` says
(`RefsAssumption`). TLC evaluates both on all bundles.

`JourneyInv` (`JourneyCorrect`) takes over `EngineInv`, since every step of the
demo is a step of the engine or leaves it alone (`Moves`), and adds that what
was read is what the files say, that `main()` has one call under way (`Solo`),
and that this call is where its step has a type and a reference for it
(`Placed`). From it follow, for every workflow:

- `JourneyTypes` (`JourneyTypeOK`): the defaults of the loader cover whatever is
  written, and the last file of an id is one of the files (`LastIsFile`).
- `ClosedCorrect` (`FailsClosed`): each record of the history is `Justified` when
  it is made, what it depends on never changes after `Load`, and by
  `EvaluatePermits` an `allow` comes from a file that says so.
- `ScriptsCorrect` (`ReferencesCoverExamples`): link by link, `ExampleLinks` are
  among `ReferenceLinks`.
- `ResolvesCorrect` (`ValidatedResolves`): the only file with the workflow's id
  is the one that is run and the one the scripts have followed (`RawWorkflow`);
  what they found for a reference is registered (`Followed`), as a reference
  that is followed is not empty.

The other three are about the plan change, the workflow of
`examples/telco-customer-care` (`PlanSteps`, and `PlanChange`, which says that
the constants are its; an assumption of the run). They hold for all manifests
that come with it:

- `PreparedCorrect` (`PreparedIsAuthorised`) and `ApproverCorrect`
  (`RequestNamesApprover`). `PlanInv` says of each step what is `Before` a run
  that comes to it: the gates its history recounts, who confirmed last and whose
  evidence there is. It holds for the step at which a call stands and for the
  pending one of a parked run; and once there is a request the run is completed
  or at `complete`. `risk_review` has two ways on, and `human_review` comes after
  a refusal there, which is why the latest of three steps in `from_steps` is also
  the one who decided last.
- `ExitCorrect` (`ExitTellsOutcome`). The tail of `_executeFrom()` completes every
  run that is still running when its steps end. `EndInv` says that for a
  validated example it is not: the steps end at a policy that failed the run or
  parked it, because no lookup fails (`Reachable`) and every success leads to a
  step.

`JourneyEnds` is liveness and model-checked only.

## 8. Not modelled

- Context and UI manifest types: declarations without behaviour.
- `validate-schemas.js`: a loop around the JSON-schema library. The schema
  check of the other scripts, files that do not parse (a file without an id in
  the model) and ids that YAML reads as numbers are left out for the same reason.
- The scripts of `apps/demo-runner-placeholder` that print walk-throughs, and
  its mock tools. The workflows they run are in `ExampleWorkflows`. Its README
  and data were read only for what they promise:
  `examples/banking-card-dispute/README.md` (Scenario B) has the credit reversed when the
  review is refused, which depends on the credit coming before the review.
- Trace events that no property reads, timestamps, messages, rendering, the
  order and wording of `list()` and `listActive()`.
- Crashes of the engines, sinks and registries: they are in memory and
  documented to lose their state. The console's reload is modelled.
- Two tabs of the console on one storage: each would overwrite what the other
  stored. The page does not listen for changes of the storage, and nothing says
  that two tabs are meant to work.

Hazards without a property are `step-executor.ts:86`,
`in-memory-workflow-engine.js:166`, `:171` and `:245` (sections 2, 3 and 7: the
code does it without exception), `workflow-engine.ts:314` (section 2: it needs a
step id that a run records twice) and `telco-demo.js:96` (two files for one
workflow: nothing says which should win).

## 9. Proved and model-checked

| Run | By theorem, for all constants | By TLC only |
|---|---|---|
| `RunnerSerial` | `FailedIsSettled`, `EffectAtMostOnce`, `ExecutingIsActive`, `AcceptedOnlyWaiting`, `StatusLifecycle`, `NoForwardAfterUnwind` | `StartReturns`, `RejectionFails` |
| `RunnerNested` | `TypeOK`, `HistoryTellsUndo`, `UndoLedger`, `FailedIsUnwound`, `SagaRefinement` | |
| `EngineParks` | `TypeOK`, `OneExecutor`, `WaitingIsIdle`, `DecidedOnce`, `UnaskedIsOver`, `UnaskedIsFinal` | `CallsReturn` |
| `GatewayCalls` | `TypeOK`, `ApprovedToolsOnly`, `GovernedCalls`, `WithdrawnForGood`, `TraceTellsOutcome` | `RetirementTakesHold` |
| `Console` | all six | |
| `Telco` | all but one; three of them for the plan change | `JourneyEnds` |

The five left are liveness under fairness, out of reach of TLAPS, as is
`ENABLED`. What recursion computes for every input is out of reach too; the
models filter, look up and merge by positions instead (`Selection`, `LastById`,
`Gathered`), which says the same without it. That `LastById` is what a loop of
`Map.set()` leaves, and `Where` what `filter()` returns, is a reading of the
code, not a theorem.
