--------------------------- MODULE InMemoryEngine ---------------------------
(***************************************************************************)
(* The demo engine: InMemoryWorkflowEngine (in-memory-workflow-engine.js   *)
(* and its TypeScript twin).  Its runs map holds live objects: a call of   *)
(* start() and every call of resume() on its run read and write the same   *)
(* status, pending step and history, from one await to the next.           *)
(*                                                                         *)
(* Each action is the code between two awaits.  An await on a function     *)
(* that is async but answers at once still lets other callbacks run.       *)
(* The run id is random, so a run is named by the start() that made it.    *)
(***************************************************************************)
EXTENDS Integers, Sequences, FiniteSets

CONSTANTS
  Calls,      \* calls of start()
  Resumes,    \* calls of resume()
  Steps,      \* ids of the workflow's steps
  Unknown,    \* ids that name no step
  First,      \* the first step, or NoId in a workflow without steps
  Type,       \* step.type
  HasRef,     \* steps with a tool_ref or a policy_ref
  OnSuccess,  \* step.on_success
  OnFailure,  \* step.on_failure
  Lookups,    \* whether the registry may know what a step refers to
  Verdicts,   \* outcomes the policy of a step may have
  NoId        \* undefined

Procs == Calls \cup Resumes

Types == {"tool", "policy", "approval", "completion", "other"}

\* Ids a step may continue at; "stop" and undefined end the run.
Ids == Steps \cup Unknown \cup {"stop", NoId}

Ends(id) == id \in {"stop", NoId}

\* step.on_failure ?? "stop"
OrStop(id) == IF id = NoId THEN "stop" ELSE id

ASSUME EngineAssumption ==
  /\ Calls \cap Resumes = {}
  /\ Steps \cap (Unknown \cup {"stop", NoId}) = {}
  /\ Unknown \cap {"stop", NoId} = {}
  /\ NoId # "stop"
  /\ First \in Steps \cup {NoId}
  /\ Type \in [Steps -> Types]
  /\ HasRef \subseteq Steps
  /\ OnSuccess \in [Steps -> Ids]
  /\ OnFailure \in [Steps -> Ids]
  /\ Lookups \in [Steps -> SUBSET BOOLEAN]
  /\ Verdicts \in [Steps -> SUBSET {"allow", "deny", "ask"}]

\* The part of a live run object that the control of the engine depends on.
Run == [status  : {"none", "running", "waiting_for_approval", "completed", "failed"},
        pending : Steps \cup {NoId},
        history : Seq([step : Steps,
                       outcome : {"completed", "failed", "denied", "waiting",
                                  "approved", "rejected"}])]

VARIABLES
  pc,     \* the await at which a call is suspended
  run,    \* the run a call works on
  at,     \* the step a call executes, or the id at which it continues
  runs,   \* the live run objects
  parks   \* log: how often a run was parked

vars == <<pc, run, at, runs, parks>>

Init ==
  /\ pc    = [p \in Procs |-> "idle"]
  /\ run   = [p \in Procs |-> NoId]
  /\ at    = [p \in Procs |-> NoId]
  /\ runs  = [r \in Calls |-> [status |-> "none", pending |-> NoId, history |-> <<>>]]
  /\ parks = [r \in Calls |-> 0]

-----------------------------------------------------------------------------
(* Helpers *)

\* Call p, on run r, is suspended at l, at step or id x.
Wait(p, r, l, x) ==
  /\ pc' = [pc EXCEPT ![p] = l]
  /\ run' = [run EXCEPT ![p] = r]
  /\ at' = [at EXCEPT ![p] = x]

Save(r, o) == runs' = [runs EXCEPT ![r] = o]

Recorded(o, x, outcome) ==
  [o EXCEPT !.history = Append(@, [step |-> x, outcome |-> outcome])]

Ended(o, status) == [o EXCEPT !.status = status]

\* _approvalStep(): the run waits for a decision on step x.
Pause(r, o, x) ==
  /\ Save(r, [o EXCEPT !.status = "waiting_for_approval", !.pending = x])
  /\ parks' = [parks EXCEPT ![r] = @ + 1]

\* Mutant of Enter: a step without a reference is awaited at itself.
EnterStuck(p, r, x, o) ==
  \/ /\ Type[x] \in {"tool", "policy"}
     /\ Wait(p, r, IF x \in HasRef
                     THEN IF Type[x] = "tool" THEN "lookup" ELSE "fetching"
                     ELSE "returning", x)
     /\ Save(r, o) /\ UNCHANGED parks
  \/ /\ Type[x] = "approval"
     /\ Wait(p, r, "pausing", x)
     /\ Pause(r, o, x)
  \/ /\ Type[x] \in {"completion", "other"}
     /\ Wait(p, r, "done", x)
     /\ Save(r, Ended(o, "completed")) /\ UNCHANGED parks

\* The loop of _executeFrom() arrives at a known step, with the run object o.
Enter(p, r, x, o) ==
  \/ /\ Type[x] = "tool"
     /\ \/ x \in HasRef /\ Wait(p, r, "lookup", x)
        \/ x \notin HasRef /\ Wait(p, r, "returning", OnFailure[x])
     /\ Save(r, o) /\ UNCHANGED parks
  \/ /\ Type[x] = "policy"
     /\ \/ x \in HasRef /\ Wait(p, r, "fetching", x)
        \/ x \notin HasRef /\ Wait(p, r, "returning", OnSuccess[x])
     /\ Save(r, o) /\ UNCHANGED parks
  \/ /\ Type[x] = "approval"
     /\ Wait(p, r, "pausing", x)
     /\ Pause(r, o, x)
  \/ /\ Type[x] = "completion"
     /\ Wait(p, r, "done", x)
     /\ Save(r, Ended(Recorded(o, x, "completed"), "completed")) /\ UNCHANGED parks
  \/ /\ Type[x] = "other"
     /\ Wait(p, r, "done", x)
     /\ Save(r, Ended(o, "failed")) /\ UNCHANGED parks

\* Mutant of Proceed: the end of the steps completes every run.
ProceedCompletes(p, r, id, o) ==
  \/ /\ id \in Steps
     /\ Enter(p, r, id, o)
  \/ /\ id \notin Steps
     /\ Wait(p, r, "done", id)
     /\ Save(r, Ended(o, "completed")) /\ UNCHANGED parks

\* The head of the loop, with the run object o: an unknown step completes the
\* run, and the end of the steps completes a run that is still running.
Proceed(p, r, id, o) ==
  \/ /\ id \in Steps
     /\ Enter(p, r, id, o)
  \/ /\ id \in Unknown
     /\ Wait(p, r, "done", id)
     /\ Save(r, Ended(o, "completed")) /\ UNCHANGED parks
  \/ /\ Ends(id)
     /\ Wait(p, r, "done", id)
     /\ Save(r, IF o.status = "running" THEN Ended(o, "completed") ELSE o)
     /\ UNCHANGED parks

\* The step that call p executes has returned the id where the run continues.
Return(p, id, o) ==
  /\ Wait(p, run[p], "returning", id)
  /\ Save(run[p], o)
  /\ UNCHANGED parks

-----------------------------------------------------------------------------
(* start() and resume() *)

Start(c) ==
  /\ pc[c] = "idle"
  /\ Proceed(c, c, First, [runs[c] EXCEPT !.status = "running"])

Refuse(d, r) ==
  /\ pc[d] = "idle"
  /\ runs[r].status # "waiting_for_approval"
  /\ Wait(d, NoId, "refused", NoId)
  /\ UNCHANGED <<runs, parks>>

\* Mutant of Resume: the run is set to running only where it ends.
ResumeLate(d, r, approved) ==
  /\ pc[d] = "idle"
  /\ runs[r].status = "waiting_for_approval"
  /\ LET x    == runs[r].pending
         next == IF approved THEN OnSuccess[x] ELSE OnFailure[x]
         o    == Recorded(runs[r], x, IF approved THEN "approved" ELSE "rejected")
     IN
     \/ /\ Ends(next)
        /\ Wait(d, r, "done", next)
        /\ Save(r, [o EXCEPT !.pending = NoId, !.status = IF approved THEN "completed" ELSE "failed"])
        /\ UNCHANGED parks
     \/ /\ ~Ends(next)
        /\ Proceed(d, r, next, o)

\* resume() checks the status, records the decision and starts to execute in
\* one go: no await lies between the check and the change of status.
Resume(d, r, approved) ==
  /\ pc[d] = "idle"
  /\ runs[r].status = "waiting_for_approval"
  /\ LET x    == runs[r].pending
         next == IF approved THEN OnSuccess[x] ELSE OnFailure[x]
         o    == [Recorded(runs[r], x, IF approved THEN "approved" ELSE "rejected")
                    EXCEPT !.pending = NoId, !.status = "running"]
     IN
     \/ /\ Ends(next)
        /\ Wait(d, r, "done", next)
        /\ Save(r, Ended(o, IF approved THEN "completed" ELSE "failed"))
        /\ UNCHANGED parks
     \/ /\ ~Ends(next)
        /\ Proceed(d, r, next, o)

-----------------------------------------------------------------------------
(* _executeFrom() after its awaits *)

\* The loop goes round with what the step returned.
Continue(p) ==
  /\ pc[p] = "returning"
  /\ Proceed(p, run[p], at[p], runs[run[p]])

\* _approvalStep() has returned: an approval step ends _executeFrom().
Paused(p) ==
  /\ pc[p] = "pausing"
  /\ Wait(p, run[p], "done", at[p])
  /\ UNCHANGED <<runs, parks>>

\* _toolStep(): the registry answers.
ToolLookup(p) ==
  /\ pc[p] = "lookup"
  /\ \/ /\ TRUE \in Lookups[at[p]]
        /\ Wait(p, run[p], "calling", at[p])
        /\ UNCHANGED <<runs, parks>>
     \/ /\ FALSE \in Lookups[at[p]]
        /\ Return(p, OrStop(OnFailure[at[p]]), Recorded(runs[run[p]], at[p], "failed"))

ToolOk(p) ==
  /\ pc[p] = "calling"
  /\ Return(p, OnSuccess[at[p]], Recorded(runs[run[p]], at[p], "completed"))

\* Mutant of ToolError: the record names the step that follows.
ToolErrorNext(p) ==
  /\ pc[p] = "calling"
  /\ Return(p, OrStop(OnFailure[at[p]]), Recorded(runs[run[p]], OnFailure[at[p]], "failed"))

\* The gateway refuses the call, or the tool fails.
ToolError(p) ==
  /\ pc[p] = "calling"
  /\ Return(p, OrStop(OnFailure[at[p]]), Recorded(runs[run[p]], at[p], "failed"))

\* Mutant of PolicyFails: the run fails even when it goes on.
PolicyFailsAlways(p, outcome) ==
  Return(p, OrStop(OnFailure[at[p]]),
         Ended(Recorded(runs[run[p]], at[p], outcome), "failed"))

\* Mutant of PolicyFails: nothing is left of the failure but its record.
PolicyFailsQuietly(p, outcome) ==
  Return(p, OrStop(OnFailure[at[p]]), Recorded(runs[run[p]], at[p], outcome))

\* A policy step that fails: without an on_failure to go to the run fails.
PolicyFails(p, outcome) ==
  LET o == Recorded(runs[run[p]], at[p], outcome) IN
  Return(p, OrStop(OnFailure[at[p]]),
         IF Ends(OnFailure[at[p]]) THEN Ended(o, "failed") ELSE o)

\* _policyStep(): the registry answers.
PolicyLookup(p) ==
  /\ pc[p] = "fetching"
  /\ \/ /\ TRUE \in Lookups[at[p]]
        /\ Wait(p, run[p], "evaluating", at[p])
        /\ UNCHANGED <<runs, parks>>
     \/ /\ FALSE \in Lookups[at[p]]
        /\ PolicyFails(p, "failed")

PolicyAllows(p) ==
  /\ pc[p] = "evaluating"
  /\ "allow" \in Verdicts[at[p]]
  /\ Return(p, OnSuccess[at[p]], Recorded(runs[run[p]], at[p], "completed"))

\* The policy denies, or asks for a consent.
PolicyDenies(p) ==
  /\ pc[p] = "evaluating"
  /\ "deny" \in Verdicts[at[p]]
  /\ PolicyFails(p, "denied")

\* The policy asks for an approval: the run is parked at the policy step.
PolicyAsks(p) ==
  /\ pc[p] = "evaluating"
  /\ "ask" \in Verdicts[at[p]]
  /\ Wait(p, run[p], "parking", at[p])
  /\ Pause(run[p], Recorded(runs[run[p]], at[p], "waiting"), at[p])

\* Mutant of Parked: the step returns where an allowed step continues.
ParkedGoesOn(p) ==
  /\ pc[p] = "parking"
  /\ Return(p, OnSuccess[at[p]], runs[run[p]])

\* _policyStep() returns undefined, and the tail of _executeFrom() runs: by
\* then somebody may have resumed the run.
Parked(p) ==
  /\ pc[p] = "parking"
  /\ Return(p, NoId, runs[run[p]])

-----------------------------------------------------------------------------

Execute(p) ==
  \/ Continue(p) \/ Paused(p) \/ ToolLookup(p) \/ ToolOk(p) \/ ToolError(p)
  \/ PolicyLookup(p) \/ PolicyAllows(p) \/ PolicyDenies(p) \/ PolicyAsks(p)
  \/ Parked(p)

Next ==
  \/ \E c \in Calls : Start(c)
  \/ \E d \in Resumes, r \in Calls :
       Refuse(d, r) \/ \E approved \in BOOLEAN : Resume(d, r, approved)
  \/ \E p \in Procs : Execute(p)

Spec == Init /\ [][Next]_vars

\* Registries, tools and policies answer, and the event loop runs what is due.
\* Nothing makes anybody call start() or resume().
FairSpec == Spec /\ \A p \in Procs : WF_vars(Execute(p))

-----------------------------------------------------------------------------
(* Properties *)

TypeOK ==
  /\ pc \in [Procs -> {"idle", "lookup", "calling", "fetching", "evaluating",
                       "parking", "pausing", "returning", "done", "refused"}]
  /\ run \in [Procs -> Calls \cup {NoId}]
  /\ at \in [Procs -> Ids]
  /\ runs \in [Calls -> Run]
  /\ parks \in [Calls -> Nat]

\* Call p is executing a step of its run, or about to.
Executing(p) ==
  \/ pc[p] \in {"lookup", "calling", "fetching", "evaluating"}
  \/ pc[p] = "returning" /\ ~Ends(at[p])

\* Two calls of resume() that race do not both execute the run: a run object
\* is written by one executor at a time, or its steps would run twice.
OneExecutor ==
  \A p, q \in Procs : Executing(p) /\ Executing(q) /\ run[p] = run[q] => p = q

\* A run that is stored as waiting can be resumed, and nothing goes on in it.
WaitingIsIdle ==
  \A r \in Calls :
    /\ runs[r].status = "waiting_for_approval" <=> runs[r].pending # NoId
    /\ runs[r].status = "waiting_for_approval" =>
         \A p \in Procs : ~(Executing(p) /\ run[p] = r)

Decisions(r) ==
  {i \in DOMAIN runs[r].history : runs[r].history[i].outcome \in {"approved", "rejected"}}

\* Every time a run is parked it is decided once, whoever races to decide it.
DecidedOnce ==
  \A r \in Calls :
    parks[r] = Cardinality(Decisions(r))
                 + IF runs[r].status = "waiting_for_approval" THEN 1 ELSE 0

Settled(r) == runs[r].status \in {"completed", "failed"}

\* A run that getState() shows as completed or failed is over: no call executes
\* a step of it.  The tail of a call whose policy parked the run breaks this.
SettledIsOver == \A p \in Procs : Executing(p) => ~Settled(run[p])

Asked(r) ==
  \E i \in DOMAIN runs[r].history : runs[r].history[i].outcome = "waiting"

\* At least that is so for a run that no policy has parked: approval steps,
\* failures and decisions leave a settled run only when nothing is executing.
UnaskedIsOver ==
  \A p \in Procs : Executing(p) /\ ~Asked(run[p]) => ~Settled(run[p])

\* A run that is completed or failed stays so, and its history is closed,
\* unless a policy has parked it.
UnaskedIsFinal ==
  [][\A r \in Calls : Settled(r) /\ ~Asked(r) => runs'[r] = runs[r]]_vars

\* A workflow whose steps do not lead back ends or is parked, however its
\* tools, policies and registries answer: no call executes for ever.
CallsReturn == \A p \in Procs : Executing(p) ~> pc[p] = "done"
=============================================================================
