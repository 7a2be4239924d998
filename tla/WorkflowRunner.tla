--------------------------- MODULE WorkflowRunner ---------------------------
(***************************************************************************)
(* The v0.2 workflow engine: WorkflowRunner (workflow-engine.ts), the      *)
(* StepExecutor it drives (step-executor.ts) and the in-memory state store *)
(* (state-store.ts).                                                       *)
(*                                                                         *)
(* The code is a set of async functions on one event loop.  What runs      *)
(* between two awaits is atomic, and is one action here; pc says at which  *)
(* await a call is suspended.  A process is one call: of start(), or of    *)
(* approve() / reject() ("decisions").                                     *)
(*                                                                         *)
(* InMemoryStateStore copies states shallowly: status and currentStepId    *)
(* belong to each copy (st, store), while the history and compensation     *)
(* arrays are the ones start() created, shared by every copy.  They are    *)
(* identified by that call: the field obj of a state.                      *)
(***************************************************************************)
EXTENDS Integers, Sequences, FiniteSets

CONSTANTS
  Calls,        \* calls of start()
  Decisions,    \* calls of approve() and reject()
  RunIds,       \* values of `run-${workflow.id}-${Date.now()}`
  UniqueRunIds, \* TRUE: no two calls of start() get the same run id
  Serialised,   \* TRUE: callers decide one after the other
  Steps,        \* step ids
  Blocks,       \* lists of steps: the workflow's own and the branches'
  Root,         \* the block of the workflow itself
  Body,         \* the steps of a block, in order
  Kind,         \* the kind of a step
  Undoable,     \* tool steps with a compensationToolId
  Timed,        \* steps with a timeoutMs
  MaxAttempts,  \* retry.maxAttempts of a step
  RetryOn,      \* retry.retryOn of a step
  Arm,          \* the blocks ifTrue and ifFalse of a conditional step
  Verdicts,     \* the outcomes the policy may give for a step
  NoStep,       \* currentStepId is undefined
  NoState       \* no state stored under a run id

Procs == Calls \cup Decisions

Kinds == {"tool", "skill", "human_approval", "conditional"}

Statuses ==
  {"running", "waiting_for_approval", "completed", "failed", "compensating"}

\* One copy of a WorkflowState; obj names the arrays it shares.
State == [run : RunIds, obj : Calls, status : Statuses, cur : Steps \cup {NoStep}]

StepRecord ==
  [step : Steps, outcome : {"completed", "failed", "rejected", "compensated"}]

ASSUME RunnerAssumption ==
  /\ Calls \cap Decisions = {}
  /\ UniqueRunIds \in BOOLEAN
  /\ Serialised \in BOOLEAN
  /\ Root \in Blocks
  /\ Body \in [Blocks -> Seq(Steps)]
  /\ Kind \in [Steps -> Kinds]
  /\ Undoable \subseteq {x \in Steps : Kind[x] = "tool"}
  /\ Timed \subseteq Steps
  /\ MaxAttempts \in [Steps -> Nat]
  /\ RetryOn \in [Steps -> {"tool_error", "timeout", "any"}]
  /\ Arm \in [Steps -> [BOOLEAN -> Blocks]]
  /\ Verdicts \in [Steps -> SUBSET {"allow", "deny", "ask"}]
  /\ NoStep \notin Steps
  /\ NoState \notin State

VARIABLES
  pc,       \* the await at which a call is suspended
  st,       \* a call's own copy of the state
  store,    \* the state store
  frames,   \* the nested executeSteps() of a start(): block and position
  attempt,  \* the attempt of executeWithRetry()
  history,  \* state.history, shared
  stack,    \* state.compensationStack, shared
  entry,    \* the entry a call has popped and is undoing
  effects,  \* how often a step's tool took effect
  late,     \* tool calls given up by a timeout and still running
  done,     \* log: steps with a compensation, in completion order
  undone,   \* log: steps whose compensation was called, in call order
  undoOk,   \* log: steps whose compensation succeeded
  closing   \* log: workflow.completed / workflow.failed events of a run

control == <<pc, st, store>>
shared  == <<history, stack>>
tools   == <<effects, late>>
logs    == <<done, undone, undoOk>>
vars    == <<control, frames, attempt, shared, entry, tools, logs, closing>>

Init ==
  /\ pc      = [p \in Procs |-> "idle"]
  /\ st      = [p \in Procs |-> NoState]
  /\ store   = [r \in RunIds |-> NoState]
  /\ frames  = [s \in Calls |-> <<>>]
  /\ attempt = [s \in Calls |-> 0]
  /\ history = [s \in Calls |-> <<>>]
  /\ stack   = [s \in Calls |-> <<>>]
  /\ entry   = [p \in Procs |-> NoStep]
  /\ effects = [s \in Calls |-> [x \in Steps |-> 0]]
  /\ late    = [s \in Calls |-> [x \in Steps |-> 0]]
  /\ done    = [s \in Calls |-> <<>>]
  /\ undone  = [s \in Calls |-> <<>>]
  /\ undoOk  = [s \in Calls |-> {}]
  /\ closing = [r \in RunIds |-> <<>>]

-----------------------------------------------------------------------------
(* Helpers *)

Goto(p, l) == pc' = [pc EXCEPT ![p] = l]

\* The call updates its copy of the state and saves it.
Put(p, x) ==
  /\ st' = [st EXCEPT ![p] = x]
  /\ store' = [store EXCEPT ![x.run] = x]

Push(s, x, outcome) ==
  history' = [history EXCEPT ![s] = Append(@, [step |-> x, outcome |-> outcome])]

\* approve() and reject() record the pending step, if there is one.
Record(d, outcome) ==
  history' =
    IF st[d].cur = NoStep
      THEN history
      ELSE [history EXCEPT ![st[d].obj] =
              Append(@, [step |-> st[d].cur, outcome |-> outcome])]

Emit(p, event) ==
  closing' = [closing EXCEPT ![st[p].run] = Append(@, event)]

Top(s)    == frames[s][Len(frames[s])]
StepOf(f) == Body[f.block][f.at]

\* Mutant of Mark: the last record is marked, whatever its step.
MarkLast(h, x) == [h EXCEPT ![Len(h)].outcome = "compensated"]

\* history.find((h) => h.stepId === x): only the first match is marked.
Mark(h, x) ==
  [i \in DOMAIN h |->
     IF h[i].step = x /\ \A j \in 1 .. i - 1 : h[j].step # x
       THEN [h[i] EXCEPT !.outcome = "compensated"]
       ELSE h[i]]

\* The head of the loop of executeSteps(): the next step is announced and
\* saved, or the block is over and the whole run is saved as completed, even
\* when the block is a branch and steps of the outer block remain.
Loop(s, f) ==
  LET top == f[Len(f)] IN
  /\ frames' = [frames EXCEPT ![s] = f]
  /\ \/ /\ top.at <= Len(Body[top.block])
        /\ Put(s, [st[s] EXCEPT !.cur = StepOf(top)])
        /\ Goto(s, "checking")
     \/ /\ top.at > Len(Body[top.block])
        /\ Put(s, [st[s] EXCEPT !.status = "completed", !.cur = NoStep])
        /\ Goto(s, "finishing")

\* Mutant of CompleteStep: the last step is saved with the final status.
CompleteEarly(s, x) ==
  /\ stack' = IF x \in Undoable THEN [stack EXCEPT ![s] = Append(@, x)] ELSE stack
  /\ done' = IF x \in Undoable THEN [done EXCEPT ![s] = Append(@, x)] ELSE done
  /\ Push(s, x, "completed")
  /\ Put(s, IF Top(s).at = Len(Body[Top(s).block])
              THEN [st[s] EXCEPT !.status = "completed"] ELSE st[s])
  /\ Goto(s, "advance")
  /\ UNCHANGED <<entry, late, undone, undoOk>>

\* A step has completed: its compensation, if it has one, goes on the stack.
CompleteStep(s, x) ==
  /\ stack' = IF x \in Undoable THEN [stack EXCEPT ![s] = Append(@, x)] ELSE stack
  /\ done' = IF x \in Undoable THEN [done EXCEPT ![s] = Append(@, x)] ELSE done
  /\ Push(s, x, "completed")
  /\ Put(s, st[s])
  /\ Goto(s, "advance")
  /\ UNCHANGED <<entry, late, undone, undoOk>>

\* Mutant of FailStep: the run is saved as failed before it is compensated.
FailAtOnce(s) ==
  /\ Push(s, StepOf(Top(s)), "failed")
  /\ Put(s, [st[s] EXCEPT !.status = "failed"])
  /\ Goto(s, "unwind")
  /\ UNCHANGED <<stack, entry, effects, logs, closing>>

\* A step has failed: compensate() starts.
FailStep(s) ==
  /\ Push(s, StepOf(Top(s)), "failed")
  /\ Put(s, [st[s] EXCEPT !.status = "compensating"])
  /\ Goto(s, "unwind")
  /\ UNCHANGED <<stack, entry, effects, logs, closing>>

-----------------------------------------------------------------------------
(* start() and executeSteps() *)

Start(s) ==
  /\ pc[s] = "idle"
  /\ \E r \in RunIds :
       /\ UniqueRunIds => store[r] = NoState
       /\ Put(s, [run |-> r, obj |-> s, status |-> "running", cur |-> NoStep])
  /\ Goto(s, "begin")
  /\ UNCHANGED <<frames, attempt, shared, entry, tools, logs, closing>>

Begin(s) ==
  /\ pc[s] = "begin"
  /\ Loop(s, <<[block |-> Root, at |-> 1]>>)
  /\ UNCHANGED <<attempt, shared, entry, tools, logs, closing>>

Advance(s) ==
  /\ pc[s] = "advance"
  /\ Loop(s, [frames[s] EXCEPT ![Len(frames[s])].at = @ + 1])
  /\ UNCHANGED <<attempt, shared, entry, tools, logs, closing>>

\* The policy denies the step: it fails.
Deny(s) ==
  /\ pc[s] = "checking"
  /\ "deny" \in Verdicts[StepOf(Top(s))]
  /\ FailStep(s)
  /\ UNCHANGED <<frames, attempt, late>>

\* The policy asks for an approval or a consent, or the step is itself an
\* approval: the run is parked and executeSteps() returns.
Park(s) ==
  /\ pc[s] = "checking"
  /\ LET x == StepOf(Top(s)) IN
       \/ "ask" \in Verdicts[x]
       \/ "allow" \in Verdicts[x] /\ Kind[x] = "human_approval"
  /\ Put(s, [st[s] EXCEPT !.status = "waiting_for_approval"])
  /\ Goto(s, "parking")
  /\ UNCHANGED <<frames, attempt, shared, entry, tools, logs, closing>>

Parked(s) ==
  /\ pc[s] = "parking"
  /\ Goto(s, "done")
  /\ UNCHANGED <<st, store, frames, attempt, shared, entry, tools, logs, closing>>

\* The policy allows a tool or a skill: the first attempt is made, unless
\* maxAttempts is 0.
CallTool(s) ==
  /\ pc[s] = "checking"
  /\ LET x == StepOf(Top(s)) IN
       /\ "allow" \in Verdicts[x]
       /\ Kind[x] \in {"tool", "skill"}
       /\ attempt' = [attempt EXCEPT ![s] = 1]
       /\ \/ /\ MaxAttempts[x] > 0
             /\ Goto(s, "calling")
             /\ UNCHANGED <<st, store, shared, entry, effects, logs, closing>>
          \/ /\ MaxAttempts[x] = 0
             /\ FailStep(s)
  /\ UNCHANGED <<frames, late>>

\* The policy allows a conditional step: its condition, a function of the
\* context, selects a branch; an empty branch completes the step at once.
Branch(s) ==
  /\ pc[s] = "checking"
  /\ LET x == StepOf(Top(s)) IN
       /\ "allow" \in Verdicts[x]
       /\ Kind[x] = "conditional"
       /\ \E holds \in BOOLEAN :
            LET block == Arm[x][holds] IN
            \/ /\ Body[block] # <<>>
               /\ Loop(s, Append(frames[s], [block |-> block, at |-> 1]))
               /\ UNCHANGED <<shared, entry, late, logs>>
            \/ /\ Body[block] = <<>>
               /\ CompleteStep(s, x)
               /\ UNCHANGED frames
  /\ UNCHANGED <<attempt, effects, closing>>

\* Mutant of Finish: the record of a conditional step takes currentStepId,
\* which the end of the branch has cleared.
FinishByCurrent(s) ==
  /\ pc[s] = "finishing"
  /\ Emit(s, "workflow.completed")
  /\ \/ /\ Len(frames[s]) = 1
        /\ Goto(s, "done")
        /\ UNCHANGED <<st, store, frames, shared, entry, late, logs>>
     \/ /\ Len(frames[s]) > 1
        /\ frames' = [frames EXCEPT ![s] = SubSeq(@, 1, Len(@) - 1)]
        /\ CompleteStep(s, st[s].cur)
  /\ UNCHANGED <<attempt, effects>>

\* The end of executeSteps(): workflow.completed is emitted. The end of a
\* branch completes the conditional step of the outer loop.
Finish(s) ==
  /\ pc[s] = "finishing"
  /\ Emit(s, "workflow.completed")
  /\ \/ /\ Len(frames[s]) = 1
        /\ Goto(s, "done")
        /\ UNCHANGED <<st, store, frames, shared, entry, late, logs>>
     \/ /\ Len(frames[s]) > 1
        /\ LET outer == SubSeq(frames[s], 1, Len(frames[s]) - 1) IN
             /\ frames' = [frames EXCEPT ![s] = outer]
             /\ CompleteStep(s, StepOf(outer[Len(outer)]))
  /\ UNCHANGED <<attempt, effects>>

-----------------------------------------------------------------------------
(* executeWithRetry() and withTimeout() *)

ToolOk(s) ==
  /\ pc[s] = "calling"
  /\ LET x == StepOf(Top(s)) IN
       /\ effects' = [effects EXCEPT ![s][x] = @ + 1]
       /\ CompleteStep(s, x)
  /\ UNCHANGED <<frames, attempt, closing>>

\* Mutant of AfterFailure: retryOn "tool_error" also retries timeouts.
RetryTimeouts(s, isTimeout) ==
  LET x == StepOf(Top(s))
      final == \/ attempt[s] = MaxAttempts[x]
               \/ RetryOn[x] = "timeout" /\ ~isTimeout
  IN
  \/ /\ final
     /\ FailStep(s)
  \/ /\ ~final
     /\ Goto(s, "backoff")
     /\ UNCHANGED <<st, store, shared, entry, effects, logs, closing>>

\* An attempt has failed: another one follows, or the step fails.
AfterFailure(s, isTimeout) ==
  LET x == StepOf(Top(s))
      final == \/ attempt[s] = MaxAttempts[x]
               \/ RetryOn[x] = "tool_error" /\ isTimeout
               \/ RetryOn[x] = "timeout" /\ ~isTimeout
  IN
  \/ /\ final
     /\ FailStep(s)
  \/ /\ ~final
     /\ Goto(s, "backoff")
     /\ UNCHANGED <<st, store, shared, entry, effects, logs, closing>>

\* The tool rejects the call; its message may itself say "timed out", which
\* is all that executeWithRetry() looks at.
ToolError(s) ==
  /\ pc[s] = "calling"
  /\ \E saysTimedOut \in BOOLEAN : AfterFailure(s, saysTimedOut)
  /\ UNCHANGED <<frames, attempt, late>>

\* The timer of withTimeout() wins the race; the call itself goes on.
Timeout(s) ==
  /\ pc[s] = "calling"
  /\ StepOf(Top(s)) \in Timed
  /\ late' = [late EXCEPT ![s][StepOf(Top(s))] = @ + 1]
  /\ AfterFailure(s, TRUE)
  /\ UNCHANGED <<frames, attempt>>

\* Mutant of Retry: attempts are not counted.
RetryUncounted(s) ==
  /\ pc[s] = "backoff"
  /\ Goto(s, "calling")
  /\ UNCHANGED <<st, store, frames, attempt, shared, entry, tools, logs, closing>>

\* sleep(delayMs) is over.
Retry(s) ==
  /\ pc[s] = "backoff"
  /\ attempt' = [attempt EXCEPT ![s] = @ + 1]
  /\ Goto(s, "calling")
  /\ UNCHANGED <<st, store, frames, shared, entry, tools, logs, closing>>

\* A call given up by a timeout answers after all, or never took effect.
LateAnswer(s, x) ==
  /\ late[s][x] > 0
  /\ late' = [late EXCEPT ![s][x] = @ - 1]
  /\ \/ effects' = [effects EXCEPT ![s][x] = @ + 1]
     \/ UNCHANGED effects
  /\ UNCHANGED <<control, frames, attempt, shared, entry, logs, closing>>

-----------------------------------------------------------------------------
(* compensate(), run by start() and by reject() *)

\* Mutant of Unwind: the earliest entry is undone first.
UnwindFifo(p) ==
  /\ pc[p] = "unwind"
  /\ LET s == st[p].obj IN
     \/ /\ stack[s] # <<>>
        /\ stack' = [stack EXCEPT ![s] = Tail(@)]
        /\ entry' = [entry EXCEPT ![p] = Head(stack[s])]
        /\ undone' = [undone EXCEPT ![s] = Append(@, Head(stack[s]))]
        /\ Goto(p, "undoing")
        /\ UNCHANGED <<st, store>>
     \/ /\ stack[s] = <<>>
        /\ Put(p, [st[p] EXCEPT !.status = "failed"])
        /\ Goto(p, "failing")
        /\ UNCHANGED <<stack, entry, undone>>
  /\ UNCHANGED <<frames, attempt, history, tools, done, undoOk, closing>>

\* Mutant of Unwind: the entry is read and stays on the stack.
UnwindPeek(p) ==
  /\ pc[p] = "unwind"
  /\ LET s == st[p].obj
         n == Len(stack[s])
     IN
     \/ /\ n > 0
        /\ entry' = [entry EXCEPT ![p] = stack[s][n]]
        /\ undone' = [undone EXCEPT ![s] = Append(@, stack[s][n])]
        /\ Goto(p, "undoing")
        /\ UNCHANGED <<st, store, stack>>
     \/ /\ n = 0
        /\ Put(p, [st[p] EXCEPT !.status = "failed"])
        /\ Goto(p, "failing")
        /\ UNCHANGED <<stack, entry, undone>>
  /\ UNCHANGED <<frames, attempt, history, tools, done, undoOk, closing>>

\* Mutant of Unwind: the run is saved as failed with its last compensation.
UnwindEarly(p) ==
  /\ pc[p] = "unwind"
  /\ LET s == st[p].obj
         n == Len(stack[s])
     IN
     \/ /\ n > 0
        /\ stack' = [stack EXCEPT ![s] = SubSeq(@, 1, n - 1)]
        /\ entry' = [entry EXCEPT ![p] = stack[s][n]]
        /\ undone' = [undone EXCEPT ![s] = Append(@, stack[s][n])]
        /\ Goto(p, "undoing")
        /\ Put(p, IF n = 1 THEN [st[p] EXCEPT !.status = "failed"] ELSE st[p])
     \/ /\ n = 0
        /\ Put(p, [st[p] EXCEPT !.status = "failed"])
        /\ Goto(p, "failing")
        /\ UNCHANGED <<stack, entry, undone>>
  /\ UNCHANGED <<frames, attempt, history, tools, done, undoOk, closing>>

\* The latest entry of the shared stack is popped and its compensation tool
\* called; when none is left the run is saved as failed.
Unwind(p) ==
  /\ pc[p] = "unwind"
  /\ LET s == st[p].obj
         n == Len(stack[s])
     IN
     \/ /\ n > 0
        /\ stack' = [stack EXCEPT ![s] = SubSeq(@, 1, n - 1)]
        /\ entry' = [entry EXCEPT ![p] = stack[s][n]]
        /\ undone' = [undone EXCEPT ![s] = Append(@, stack[s][n])]
        /\ Goto(p, "undoing")
        /\ UNCHANGED <<st, store>>
     \/ /\ n = 0
        /\ Put(p, [st[p] EXCEPT !.status = "failed"])
        /\ Goto(p, "failing")
        /\ UNCHANGED <<stack, entry, undone>>
  /\ UNCHANGED <<frames, attempt, history, tools, done, undoOk, closing>>

Undone(p) ==
  /\ pc[p] = "undoing"
  /\ Put(p, st[p])
  /\ entry' = [entry EXCEPT ![p] = NoStep]
  /\ Goto(p, "unwind")
  /\ UNCHANGED <<frames, attempt, stack, tools, done, undone, closing>>

UndoOk(p) ==
  /\ Undone(p)
  /\ LET s == st[p].obj IN
       /\ history' = [history EXCEPT ![s] = Mark(@, entry[p])]
       /\ undoOk' = [undoOk EXCEPT ![s] = @ \cup {entry[p]}]

\* Mutant of UndoError: the run fails at the first compensation that fails.
UndoGivesUp(p) ==
  /\ pc[p] = "undoing"
  /\ Put(p, [st[p] EXCEPT !.status = "failed"])
  /\ entry' = [entry EXCEPT ![p] = NoStep]
  /\ Goto(p, "failing")
  /\ UNCHANGED <<frames, attempt, shared, tools, logs, closing>>

\* Mutant of UndoError: the error leaves compensate().
UndoRethrows(p) ==
  /\ pc[p] = "undoing"
  /\ Goto(p, "refused")
  /\ UNCHANGED <<st, store, frames, attempt, shared, entry, tools, logs, closing>>

\* A compensation that fails is logged and skipped.
UndoError(p) ==
  /\ Undone(p)
  /\ UNCHANGED <<history, undoOk>>

\* Mutant of Failing: executeSteps() goes on after compensate().
FailingGoesOn(p) ==
  /\ pc[p] = "failing"
  /\ Emit(p, "workflow.failed")
  /\ Goto(p, IF p \in Calls THEN "advance" ELSE "done")
  /\ UNCHANGED <<st, store, frames, attempt, shared, entry, tools, logs>>

Failing(p) ==
  /\ pc[p] = "failing"
  /\ Emit(p, "workflow.failed")
  /\ Goto(p, "done")
  /\ UNCHANGED <<st, store, frames, attempt, shared, entry, tools, logs>>

-----------------------------------------------------------------------------
(* approve() and reject() *)

Idle(d) == pc[d] \in {"idle", "refused", "done"}

\* requireState() copies the stored state, or throws when there is none.
Decide(d, kind) ==
  /\ pc[d] = "idle"
  /\ Serialised => \A e \in Decisions : Idle(e)
  /\ \E r \in RunIds :
       \/ /\ store[r] # NoState
          /\ st' = [st EXCEPT ![d] = store[r]]
          /\ Goto(d, kind)
       \/ /\ store[r] = NoState
          /\ Goto(d, "refused")
          /\ UNCHANGED st
  /\ UNCHANGED <<store, frames, attempt, shared, entry, tools, logs, closing>>

\* Mutant of Waiting: a running run can be decided too.
WaitingOrRunning(d) == st[d].status \in {"waiting_for_approval", "running"}

Waiting(d) == st[d].status = "waiting_for_approval"

Refuse(d) ==
  /\ pc[d] \in {"approve", "reject"}
  /\ ~Waiting(d)
  /\ Goto(d, "refused")
  /\ UNCHANGED <<st, store, frames, attempt, shared, entry, tools, logs, closing>>

Approve(d) ==
  /\ pc[d] = "approve"
  /\ Waiting(d)
  /\ Put(d, [st[d] EXCEPT !.status = "running"])
  /\ Goto(d, "approving")
  /\ UNCHANGED <<frames, attempt, shared, entry, tools, logs, closing>>

\* The pending step is recorded and the run is completed: the steps after the
\* approval are not executed.
Approved(d) ==
  /\ pc[d] = "approving"
  /\ Record(d, "completed")
  /\ Put(d, [st[d] EXCEPT !.status = "completed", !.cur = NoStep])
  /\ Goto(d, "approved")
  /\ UNCHANGED <<frames, attempt, stack, entry, tools, logs, closing>>

ApprovedDone(d) ==
  /\ pc[d] = "approved"
  /\ Emit(d, "workflow.completed")
  /\ Goto(d, "done")
  /\ UNCHANGED <<st, store, frames, attempt, shared, entry, tools, logs>>

Reject(d) ==
  /\ pc[d] = "reject"
  /\ Waiting(d)
  /\ Record(d, "rejected")
  /\ Put(d, [st[d] EXCEPT !.status = "compensating"])
  /\ Goto(d, "unwind")
  /\ UNCHANGED <<frames, attempt, stack, entry, tools, logs, closing>>

-----------------------------------------------------------------------------
\* The segments of a call that wait for nothing but the event loop.
Segment(p) ==
  \/ p \in Calls /\
       (Begin(p) \/ Advance(p) \/ Deny(p) \/ Park(p) \/ Parked(p)
         \/ CallTool(p) \/ Branch(p) \/ Finish(p))
  \/ p \in Decisions /\
       (Refuse(p) \/ Approve(p) \/ Approved(p) \/ ApprovedDone(p) \/ Reject(p))
  \/ Unwind(p)
  \/ Failing(p)

\* Timers of the runtime: withTimeout() and sleep().
Timer(s) == Timeout(s) \/ Retry(s)

\* Answers of the tool gateway to step calls and to compensation calls.
Answer(s)     == ToolOk(s) \/ ToolError(s)
UndoAnswer(p) == UndoOk(p) \/ UndoError(p)

Next ==
  \/ \E s \in Calls : Start(s) \/ Timer(s) \/ Answer(s)
  \/ \E s \in Calls, x \in Steps : LateAnswer(s, x)
  \/ \E d \in Decisions, kind \in {"approve", "reject"} : Decide(d, kind)
  \/ \E p \in Procs : Segment(p) \/ UndoAnswer(p)

Spec == Init /\ [][Next]_vars

\* The event loop runs every callback that is due, timers fire, and the
\* compensation calls (which have no timeout) are answered. Nothing makes a
\* tool answer, start() be called or anybody decide.
LoopFairness ==
  /\ \A p \in Procs : WF_vars(Segment(p)) /\ WF_vars(UndoAnswer(p))
  /\ \A s \in Calls : WF_vars(Timer(s))

\* Moreover every tool call of a step is answered.
AnswerFairness == \A s \in Calls : WF_vars(Answer(s))

LoopSpec == Spec /\ LoopFairness
FairSpec == LoopSpec /\ AnswerFairness

-----------------------------------------------------------------------------
(* Properties *)

Locations ==
  {"idle", "begin", "checking", "calling", "backoff", "advance", "finishing",
   "parking", "unwind", "undoing", "failing", "done", "approve", "reject",
   "approving", "approved", "refused"}

\* The type invariant: what each variable may hold at any time.
TypeOK ==
  /\ pc \in [Procs -> Locations]
  /\ st \in [Procs -> State \cup {NoState}]
  /\ store \in [RunIds -> State \cup {NoState}]
  /\ frames \in [Calls -> Seq([block : Blocks, at : Nat])]
  /\ attempt \in [Calls -> Nat]
  /\ history \in [Calls -> Seq(StepRecord)]
  /\ stack \in [Calls -> Seq(Steps)]
  /\ entry \in [Procs -> Steps \cup {NoStep}]
  /\ effects \in [Calls -> [Steps -> Nat]]
  /\ late \in [Calls -> [Steps -> Nat]]
  /\ done \in [Calls -> Seq(Steps)]
  /\ undone \in [Calls -> Seq(Steps)]
  /\ undoOk \in [Calls -> SUBSET Steps]
  /\ closing \in [RunIds -> Seq({"workflow.completed", "workflow.failed"})]

\* A start() is still executing steps.
Forward(s) ==
  pc[s] \in {"begin", "checking", "calling", "backoff", "advance", "finishing"}

\* Some call has begun to compensate the run that start() s created.
Unwinding(s) ==
  \E p \in Procs :
    /\ st[p] # NoState
    /\ st[p].obj = s
    /\ st[p].status \in {"compensating", "failed"}

\* compensate() pops the shared stack across awaits, and two reject() calls
\* may run it at once: still every completed step with a compensation is
\* either on the stack or its compensation was called once, and the calls
\* were made latest step first.
UndoLedger ==
  \A s \in Calls :
    /\ Len(done[s]) = Len(stack[s]) + Len(undone[s])
    /\ \A i \in 1 .. Len(stack[s]) : stack[s][i] = done[s][i]
    /\ \A i \in 1 .. Len(undone[s]) : undone[s][i] = done[s][Len(done[s]) - i + 1]

\* A run that is stored as failed has nothing left to compensate: no path
\* reaches "failed" without compensate(), and nothing is pushed afterwards.
FailedIsUnwound ==
  \A r \in RunIds :
    store[r] # NoState /\ store[r].status = "failed" => stack[store[r].obj] = <<>>

\* When decisions do not race, "failed" is stored only after the last
\* compensation call has been answered.
FailedIsSettled ==
  Serialised =>
    \A r \in RunIds, p \in Procs :
      /\ store[r] # NoState
      /\ pc[p] = "undoing"
      => ~(store[r].obj = st[p].obj /\ store[r].status = "failed")

\* The history tells which compensations succeeded: with distinct step ids, a
\* step is recorded as compensated exactly when its compensation succeeded.
HistoryTellsUndo ==
  \A s \in Calls :
    undoOk[s] = {x \in Steps : \E i \in DOMAIN history[s] :
                   history[s][i] = [step |-> x, outcome |-> "compensated"]}

\* The steps can be numbered in the order of the document: a step comes before
\* those after it in its block, and a conditional step spans those of its arms.
\* In particular no id stands at two places of one path.
DocumentOrder(first, last) ==
  /\ first \in [Steps -> Nat] /\ last \in [Steps -> Nat]
  /\ \A x \in Steps : first[x] <= last[x]
  /\ \A b \in Blocks : \A i \in 1 .. Len(Body[b]) - 1 :
       last[Body[b][i]] < first[Body[b][i + 1]]
  /\ \A x \in Steps, holds \in BOOLEAN : Kind[x] = "conditional" =>
       \A i \in 1 .. Len(Body[Arm[x][holds]]) :
         LET y == Body[Arm[x][holds]][i] IN first[x] < first[y] /\ last[y] <= last[x]

\* A step that retries only tool errors (the default) takes effect at most
\* once, counting the calls a timeout gave up: a timed-out attempt is never
\* repeated. It presumes that a tool which reports an error did nothing.
EffectAtMostOnce ==
  \A s \in Calls, x \in Steps :
    RetryOn[x] = "tool_error" => effects[s][x] + late[s][x] <= 1

\* Once compensation has begun the run takes no step forward: tools take
\* effect only through calls that a timeout had given up before.
NoForwardAfterUnwind ==
  [][\A s \in Calls :
       Unwinding(s) => /\ done'[s] = done[s]
                       /\ \A x \in Steps : effects'[s][x] <= effects[s][x] + late[s][x]
                       /\ \A x \in Steps : late'[s][x] <= late[s][x]]_vars

\* The life of a stored run, for a caller who polls getState(): a run is
\* decided once, and completed and failed are final.
StatusLifecycle ==
  [][\A r \in RunIds :
       store[r] # NoState /\ store'[r].status # store[r].status =>
         <<store[r].status, store'[r].status>> \in
           {<<"running", "waiting_for_approval">>, <<"running", "completed">>,
            <<"running", "compensating">>, <<"waiting_for_approval", "running">>,
            <<"waiting_for_approval", "compensating">>,
            <<"compensating", "failed">>}]_vars

\* A run whose steps are being executed is stored as running, so that
\* listActive() returns it.
ExecutingIsActive ==
  \A s \in Calls : Forward(s) /\ pc[s] # "finishing" => store[st[s].run].status = "running"

\* A decision takes hold only of a run that is waiting for approval at that
\* moment: approve() and reject() refuse every other run.
AcceptedOnlyWaiting ==
  [][\A d \in Decisions :
       pc[d] \in {"approve", "reject"} /\ pc'[d] \in {"approving", "unwind"} =>
         store[st[d].run].status = "waiting_for_approval"]_vars

\* Every start() returns.
StartReturns == \A s \in Calls : pc[s] = "begin" ~> pc[s] = "done"

\* A rejection that was accepted ends in a run stored as failed.
RejectionFails ==
  \A d \in Decisions :
    pc[d] = "unwind" ~> st[d] # NoState /\ store[st[d].run].status = "failed"

Ledger == INSTANCE Saga WITH
  Sagas <- Calls, unwinding <- {s \in Calls : Unwinding(s)}

\* The runs of all start() calls implement abstract sagas, however many calls
\* of reject() share their stacks.
SagaRefinement == Ledger!Spec
=============================================================================
