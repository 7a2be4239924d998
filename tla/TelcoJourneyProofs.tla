------------------------- MODULE TelcoJourneyProofs -------------------------
(***************************************************************************)
(* Theorems about TelcoJourney, for any examples, inputs and answers of    *)
(* the approvers.  The engine keeps its own invariant (EngineInv) in the   *)
(* demo; what the demo adds is that it works alone, on what it has loaded. *)
(***************************************************************************)
EXTENDS TelcoJourney, InMemoryEngineProofs, OperatorLemmas

USE JourneyAssumption, FilesAssumption

-----------------------------------------------------------------------------
(* What the steps of the journey do to its run *)

\* Call p comes to l, at x, and leaves the run with these fields.
Goes(p, l, x, history, status, pending) ==
  /\ pc' = [pc EXCEPT ![p] = l] /\ at' = [at EXCEPT ![p] = x]
  /\ runs'[Journey].history = history
  /\ runs'[Journey].status = status
  /\ runs'[Journey].pending = pending

Entry(x, outcome) == [step |-> x, outcome |-> outcome]
Noted(x, outcome) == Append(History, Entry(x, outcome))

\* The head of the loop at id, with a run of these fields.
Arrives(p, id, history, status, pending) ==
  \/ /\ id \in HasRef /\ Type[id] = "tool"
     /\ Goes(p, "lookup", id, history, status, pending)
  \/ /\ id \in HasRef /\ Type[id] = "policy"
     /\ Goes(p, "fetching", id, history, status, pending)
  \/ /\ id \in Steps \ HasRef /\ Type[id] = "tool"
     /\ Goes(p, "returning", OnFailure[id], history, status, pending)
  \/ /\ id \in Steps \ HasRef /\ Type[id] = "policy"
     /\ Goes(p, "returning", OnSuccess[id], history, status, pending)
  \/ /\ id \in Steps /\ Type[id] = "approval"
     /\ Goes(p, "pausing", id, history, "waiting_for_approval", id)
  \/ /\ id \in Steps /\ Type[id] = "completion"
     /\ Goes(p, "done", id, Append(history, Entry(id, "completed")), "completed", pending)
  \/ /\ id \in Steps /\ Type[id] = "other"
     /\ Goes(p, "done", id, history, "failed", pending)
  \/ /\ id \in Unknown
     /\ Goes(p, "done", id, history, "completed", pending)
  \/ /\ Ends(id)
     /\ Goes(p, "done", id, history, IF status = "running" THEN "completed" ELSE status, pending)

LEMMA Fields ==
  ASSUME TypeOK
  PROVE  /\ runs[Journey] \in Run /\ Journey \in Calls /\ Journey \in Procs
         /\ \A n : Save(Journey, n) => runs'[Journey] = n
BY DEF TypeOK, Save, Procs

LEMMA Arriving ==
  ASSUME TypeOK, NEW p \in Procs, NEW id \in Ids, NEW o \in Run, Proceed(p, Journey, id, o)
  PROVE  Arrives(p, id, o.history, o.status, o.pending)
<1>1. /\ HasRef \subseteq Steps
      /\ id \in Steps => Type[id] \in {"tool", "policy", "approval", "completion", "other"}
  BY EngineAssumption DEF Types
<1>2. \A n : Save(Journey, n) => runs'[Journey] = n
  BY Fields
<1>3. ASSUME NEW l, NEW x, NEW r, Wait(p, r, l, x)
      PROVE  pc' = [pc EXCEPT ![p] = l] /\ at' = [at EXCEPT ![p] = x]
  BY <1>3 DEF Wait
<1>4. ASSUME NEW n, Save(Journey, n), NEW l, NEW x, Wait(p, Journey, l, x)
      PROVE  Goes(p, l, x, n.history, n.status, n.pending)
  BY <1>2, <1>3, <1>4 DEF Goes
<1>5. CASE id \in Steps /\ Enter(p, Journey, id, o)
  <2>1. CASE /\ Type[id] = "tool"
             /\ \/ id \in HasRef /\ Wait(p, Journey, "lookup", id)
                \/ id \notin HasRef /\ Wait(p, Journey, "returning", OnFailure[id])
             /\ Save(Journey, o)
    BY <1>4, <1>5, <2>1 DEF Arrives
  <2>2. CASE /\ Type[id] = "policy"
             /\ \/ id \in HasRef /\ Wait(p, Journey, "fetching", id)
                \/ id \notin HasRef /\ Wait(p, Journey, "returning", OnSuccess[id])
             /\ Save(Journey, o)
    BY <1>4, <1>5, <2>2 DEF Arrives
  <2>3. CASE /\ Type[id] = "approval"
             /\ Wait(p, Journey, "pausing", id)
             /\ Pause(Journey, o, id)
    <3> DEFINE n == [o EXCEPT !.status = "waiting_for_approval", !.pending = id]
    <3>1. Save(Journey, n)
      BY <2>3 DEF Pause
    <3>2. n.history = o.history /\ n.status = "waiting_for_approval" /\ n.pending = id
      BY DEF Run
    <3> HIDE DEF n
    <3>3. Goes(p, "pausing", id, n.history, n.status, n.pending)
      BY <1>4, <2>3, <3>1
    <3> QED
      BY <1>5, <2>3, <3>2, <3>3 DEF Arrives
  <2>4. CASE /\ Type[id] = "completion"
             /\ Wait(p, Journey, "done", id)
             /\ Save(Journey, Ended(Recorded(o, id, "completed"), "completed"))
    <3> DEFINE n == Ended(Recorded(o, id, "completed"), "completed")
    <3>1. /\ n.history = Append(o.history, Entry(id, "completed"))
          /\ n.status = "completed" /\ n.pending = o.pending
      BY DEF Run, Ended, Recorded, Entry
    <3> HIDE DEF n
    <3>2. Goes(p, "done", id, n.history, n.status, n.pending)
      BY <1>4, <2>4 DEF n
    <3> QED
      BY <1>5, <2>4, <3>1, <3>2 DEF Arrives
  <2>5. CASE /\ Type[id] = "other"
             /\ Wait(p, Journey, "done", id)
             /\ Save(Journey, Ended(o, "failed"))
    <3> DEFINE n == Ended(o, "failed")
    <3>1. n.history = o.history /\ n.status = "failed" /\ n.pending = o.pending
      BY DEF Run, Ended
    <3> HIDE DEF n
    <3>2. Goes(p, "done", id, n.history, n.status, n.pending)
      BY <1>4, <2>5 DEF n
    <3> QED
      BY <1>5, <2>5, <3>1, <3>2 DEF Arrives
  <2> QED
    BY <1>5, <2>1, <2>2, <2>3, <2>4, <2>5 DEF Enter
<1>6. CASE /\ id \in Unknown
           /\ Wait(p, Journey, "done", id)
           /\ Save(Journey, Ended(o, "completed"))
  <2> DEFINE n == Ended(o, "completed")
  <2>1. n.history = o.history /\ n.status = "completed" /\ n.pending = o.pending
    BY DEF Run, Ended
  <2> HIDE DEF n
  <2>2. Goes(p, "done", id, n.history, n.status, n.pending)
    BY <1>4, <1>6 DEF n
  <2> QED
    BY <1>6, <2>1, <2>2 DEF Arrives
<1>7. CASE /\ Ends(id)
           /\ Wait(p, Journey, "done", id)
           /\ Save(Journey, IF o.status = "running" THEN Ended(o, "completed") ELSE o)
  <2> DEFINE n == IF o.status = "running" THEN Ended(o, "completed") ELSE o
  <2>1. /\ n.history = o.history /\ n.pending = o.pending
        /\ n.status = IF o.status = "running" THEN "completed" ELSE o.status
    BY DEF Run, Ended
  <2> HIDE DEF n
  <2>2. Goes(p, "done", id, n.history, n.status, n.pending)
    BY <1>4, <1>7 DEF n
  <2> QED
    BY <1>7, <2>1, <2>2 DEF Arrives
<1> QED
  BY <1>5, <1>6, <1>7 DEF Proceed

\* main() starts the run.
Begins(id) ==
  /\ phase = "ready" /\ phase' = "running" /\ pc[Journey] = "idle"
  /\ id = IF "steps" \in DOMAIN rawWorkflow.fields THEN First ELSE NoId
  /\ Arrives(Journey, id, History, "running", NoId)
  /\ UNCHANGED <<loaded, evidence, request>>

\* main() answers the approval the run is parked for.
Decides(p, x, approved) ==
  /\ Returned /\ p \in Resumes /\ pc[p] = "idle"
  /\ x \in Steps /\ runs[Journey].pending = x
  /\ runs[Journey].status = "waiting_for_approval"
  /\ LET next    == IF approved THEN OnSuccess[x] ELSE OnFailure[x]
         history == Noted(x, IF approved THEN "approved" ELSE "rejected")
     IN \/ Ends(next) /\ Goes(p, "done", next, history,
                              IF approved THEN "completed" ELSE "failed", NoId)
        \/ ~Ends(next) /\ Arrives(p, next, history, "running", NoId)
  /\ evidence' = [evidence EXCEPT ![x] = Role[x]]
  /\ UNCHANGED <<loaded, phase, request>>

\* Call p goes on, in step or at id x, with a run of this status and pending step.
WorksAt(p, x, s, w) ==
  \/ pc[p] = "returning" /\ Arrives(p, x, History, s, w)
  \/ pc[p] = "pausing" /\ Goes(p, "done", x, History, s, w)
  \/ pc[p] = "lookup" /\ HasTool(x) /\ Goes(p, "calling", x, History, s, w)
  \/ pc[p] = "lookup" /\ ~HasTool(x)
     /\ Goes(p, "returning", OrStop(OnFailure[x]), Noted(x, "failed"), s, w)
  \/ pc[p] = "calling" /\ Goes(p, "returning", OnSuccess[x], Noted(x, "completed"), s, w)
  \/ pc[p] = "fetching" /\ HasPolicy(x) /\ Goes(p, "evaluating", x, History, s, w)
  \/ /\ \/ pc[p] = "fetching" /\ ~HasPolicy(x)
        \/ pc[p] = "evaluating" /\ Decision(x) # "allow"
     /\ \E outcome \in {"failed", "denied"} :
          /\ outcome = "failed" => pc[p] = "fetching"
          /\ Goes(p, "returning", OrStop(OnFailure[x]), Noted(x, outcome),
                  IF Ends(OnFailure[x]) THEN "failed" ELSE s, w)
  \/ pc[p] = "evaluating" /\ Decision(x) = "allow"
     /\ Goes(p, "returning", OnSuccess[x], Noted(x, "completed"), s, w)
  \/ pc[p] = "evaluating" /\ Decision(x) # "allow"
     /\ Goes(p, "parking", x, Noted(x, "waiting"), "waiting_for_approval", x)
  \/ pc[p] = "parking" /\ Goes(p, "returning", NoId, History, s, w)

WorksOn(p) ==
  /\ pc[p] \notin {"idle", "done", "refused"}
  /\ WorksAt(p, at[p], runs[Journey].status, runs[Journey].pending)
  /\ request' = IF pc[p] = "calling" /\ at[p] = Prepare THEN Gathered ELSE request
  /\ UNCHANGED <<loaded, phase, evidence>>

LEMMA Beginning ==
  ASSUME EngineInv, Begin, pc[Journey] = "idle"
  PROVE  EngineInv' /\ \E id \in Ids : Begins(id)
<1> DEFINE o == [runs[Journey] EXCEPT !.status = "running"]
<1>1. /\ TypeOK /\ runs[Journey] \in Run /\ Journey \in Calls /\ Journey \in Procs
  BY Fields DEF EngineInv
<1>2. o \in Run /\ o.history = History /\ o.status = "running" /\ o.pending = runs[Journey].pending
  BY <1>1 DEF Run, History
<1>3. PICK id \in Ids : /\ id = IF "steps" \in DOMAIN rawWorkflow.fields THEN First ELSE NoId
                        /\ Proceed(Journey, Journey, id, o)
  <2>1. First \in Ids /\ NoId \in Ids
    BY EngineAssumption DEF Ids
  <2> HIDE DEF o
  <2> QED
    BY <2>1 DEF Begin, Start, o
<1> HIDE DEF o
<1>5. runs[Journey].pending = NoId
  BY <1>1 DEF EngineInv, Fresh
<1>6. Arrives(Journey, id, History, "running", NoId)
  BY <1>1, <1>2, <1>3, <1>5, Arriving
<1>7. Begins(id)
  BY <1>3, <1>6 DEF Begin, Goto, Begins
<1>8. EngineInv'
  BY <1>1, <1>3, StartOwns, ProceedMove DEF o
<1> QED
  BY <1>7, <1>8

LEMMA Deciding ==
  ASSUME EngineInv, NEW approved \in BOOLEAN, Decide(approved)
  PROVE  EngineInv' /\ \E p \in Procs, x \in Steps : Decides(p, x, approved)
<1>1. PICK d \in Resumes : Resume(d, Journey, approved)
  BY DEF Decide
<1> DEFINE x == runs[Journey].pending
           next == IF approved THEN OnSuccess[x] ELSE OnFailure[x]
           m == Recorded(runs[Journey], x, IF approved THEN "approved" ELSE "rejected")
           o == [m EXCEPT !.pending = NoId, !.status = "running"]
           n == Ended(o, IF approved THEN "completed" ELSE "failed")
           h == Noted(x, IF approved THEN "approved" ELSE "rejected")
<1>2. /\ TypeOK /\ runs[Journey] \in Run /\ Journey \in Calls /\ d \in Procs
      /\ runs[Journey].status = "waiting_for_approval" /\ pc[d] = "idle"
  BY <1>1, Fields DEF EngineInv, Resume, Procs
<1>3. x \in Steps
  BY <1>2 DEF EngineInv, WaitingIsIdle, Run
<1>4. next \in Ids
  BY <1>3, EngineAssumption
<1>5. m \in Run
  <2>1. (IF approved THEN "approved" ELSE "rejected") \in RecordOutcomes
    BY DEF RecordOutcomes
  <2> QED
    BY <1>2, <1>3, <2>1, RecordedOk
<1>6. m.history = h
  BY <1>2 DEF Recorded, Run, Noted, Entry, History
<1>7. o \in Run /\ o.history = h /\ o.status = "running" /\ o.pending = NoId
  <2> HIDE DEF m, h
  <2> QED
    BY <1>5, <1>6 DEF Run
<1>8. \/ Ends(next) /\ Wait(d, Journey, "done", next) /\ Save(Journey, n)
      \/ ~Ends(next) /\ Proceed(d, Journey, next, o)
  BY <1>1 DEF Resume
<1>9. n.history = h /\ n.pending = NoId /\ n.status = IF approved THEN "completed" ELSE "failed"
  <2> HIDE DEF o, h
  <2> QED
    BY <1>7 DEF Ended, Run
<1> HIDE DEF next, m, o, n
<1>10. \/ Ends(next) /\ Goes(d, "done", next, h, IF approved THEN "completed" ELSE "failed", NoId)
       \/ ~Ends(next) /\ Arrives(d, next, h, "running", NoId)
  <2>1. CASE Ends(next) /\ Wait(d, Journey, "done", next) /\ Save(Journey, n)
    <3>1. runs'[Journey] = n
      BY <1>2, <2>1, Fields
    <3> QED
      BY <1>9, <2>1, <3>1 DEF Goes, Wait
  <2>2. CASE ~Ends(next) /\ Proceed(d, Journey, next, o)
    <3>1. Arrives(d, next, o.history, o.status, o.pending)
      BY <1>2, <1>4, <1>7, <2>2, Arriving
    <3> QED
      BY <1>7, <2>2, <3>1
  <2> QED
    BY <1>8, <2>1, <2>2
<1> HIDE DEF h
<1>11. Decides(d, x, approved)
  <2>1. /\ Returned /\ evidence' = [evidence EXCEPT ![x] = Role[x]]
        /\ UNCHANGED <<loaded, phase, request>>
    BY DEF Decide
  <2> QED
    BY <1>2, <1>3, <1>10, <2>1 DEF Decides, next, h
<1>12. EngineInv'
  BY <1>1, <1>2, ResumeMove
<1> QED
  BY <1>2, <1>3, <1>11, <1>12

LEMMA Working ==
  ASSUME EngineInv, NEW p \in Procs, EngineStep(p)
  PROVE  EngineInv' /\ WorksOn(p)
<1>1. /\ TypeOK /\ runs[Journey] \in Run /\ Journey \in Calls /\ Journey \in Procs
      /\ \A n : Save(Journey, n) => runs'[Journey] = n
  BY Fields DEF EngineInv
<1>2. Execute(p) /\ EngineInv'
  <2>1. Execute(p)
    BY DEF EngineStep, CallTool, Execute
  <2> QED
    BY <2>1, ExecuteMove
<1>3. /\ pc[p] \notin {"idle", "done", "refused"} /\ run[p] = Journey
      /\ at[p] \in Ids
  <2>1. pc[p] \notin {"idle", "done", "refused"}
    BY <1>2 DEF Execute, Continue, Paused, ToolLookup, ToolOk, ToolError, PolicyLookup,
                PolicyAllows, PolicyDenies, PolicyAsks, Parked
  <2> QED
    BY <1>1, <2>1 DEF EngineInv, Owned, TypeOK
<1> DEFINE x == at[p]
           o == runs[Journey]
           s == o.status
           w == o.pending
<1>4. \A oc : LET n == Recorded(o, x, oc) IN
               n.history = Noted(x, oc) /\ n.status = s /\ n.pending = w
  BY <1>1 DEF Recorded, Run, Noted, Entry, History
<1>5. ASSUME NEW l, NEW y, Wait(p, Journey, l, y), runs' = runs
      PROVE  Goes(p, l, y, History, s, w)
  BY <1>5 DEF Wait, Goes, History
<1>6. ASSUME NEW y, NEW n, Return(p, y, n)
      PROVE  Goes(p, "returning", y, n.history, n.status, n.pending)
  BY <1>1, <1>3, <1>6 DEF Return, Wait, Goes
<1>7. CASE Continue(p) /\ UNCHANGED data
  <2>1. Arrives(p, x, History, s, w)
    BY <1>1, <1>3, <1>7, Arriving DEF Continue, History
  <2> QED
    BY <1>2, <1>3, <1>7, <2>1 DEF Continue, WorksOn, WorksAt, data
<1>8. CASE Paused(p) /\ UNCHANGED data
  BY <1>2, <1>3, <1>5, <1>8 DEF Paused, WorksOn, WorksAt, data
<1>9. CASE Parked(p) /\ UNCHANGED data
  BY <1>2, <1>3, <1>6, <1>9 DEF Parked, WorksOn, WorksAt, data, History
<1>10. CASE ToolLookup(p) /\ (pc'[p] = "calling") = HasTool(at[p]) /\ UNCHANGED data
  <2>1. CASE Wait(p, run[p], "calling", at[p]) /\ runs' = runs
    <3>1. pc'[p] = "calling"
      BY <1>1, <2>1 DEF Wait, TypeOK
    <3> QED
      BY <1>2, <1>3, <1>5, <1>10, <2>1, <3>1 DEF ToolLookup, WorksOn, WorksAt, data
  <2>2. CASE Return(p, OrStop(OnFailure[x]), Recorded(o, x, "failed"))
    <3>1. pc'[p] # "calling"
      BY <1>1, <2>2 DEF Return, Wait, TypeOK
    <3>2. Goes(p, "returning", OrStop(OnFailure[x]), Noted(x, "failed"), s, w)
      BY <1>4, <1>6, <2>2
    <3> QED
      BY <1>2, <1>3, <1>10, <3>1, <3>2 DEF ToolLookup, WorksOn, WorksAt, data
  <2> QED
    BY <1>3, <1>10, <2>1, <2>2 DEF ToolLookup
<1>11. CASE CallTool(p)
  <2>1. Goes(p, "returning", OnSuccess[x], Noted(x, "completed"), s, w)
    BY <1>3, <1>4, <1>6, <1>11 DEF CallTool, ToolOk
  <2> QED
    BY <1>2, <1>3, <1>11, <2>1 DEF CallTool, ToolOk, WorksOn, WorksAt
<1>12. ASSUME NEW oc, PolicyFails(p, oc)
       PROVE  Goes(p, "returning", OrStop(OnFailure[x]), Noted(x, oc),
                   IF Ends(OnFailure[x]) THEN "failed" ELSE s, w)
  <2> DEFINE r == Recorded(o, x, oc)
             n == IF Ends(OnFailure[x]) THEN Ended(r, "failed") ELSE r
  <2>1. Return(p, OrStop(OnFailure[x]), n)
    BY <1>3, <1>12 DEF PolicyFails
  <2>2. /\ n.history = Noted(x, oc) /\ n.pending = w
        /\ n.status = IF Ends(OnFailure[x]) THEN "failed" ELSE s
    <3>1. Ended(r, "failed").history = r.history /\ Ended(r, "failed").pending = r.pending
          /\ Ended(r, "failed").status = "failed"
      BY <1>1 DEF Ended, Recorded, Run
    <3> HIDE DEF r
    <3> QED
      BY <1>4, <3>1 DEF r
  <2> HIDE DEF n
  <2> QED
    BY <1>6, <2>1, <2>2
<1>13. CASE PolicyLookup(p) /\ (pc'[p] = "evaluating") = HasPolicy(at[p]) /\ UNCHANGED data
  <2>1. CASE Wait(p, run[p], "evaluating", at[p]) /\ runs' = runs
    <3>1. pc'[p] = "evaluating"
      BY <1>1, <2>1 DEF Wait, TypeOK
    <3> QED
      BY <1>2, <1>3, <1>5, <1>13, <2>1, <3>1 DEF PolicyLookup, WorksOn, WorksAt, data
  <2>2. CASE PolicyFails(p, "failed")
    <3>1. pc'[p] # "evaluating"
      BY <1>1, <2>2 DEF PolicyFails, Return, Wait, TypeOK
    <3> QED
      BY <1>2, <1>3, <1>12, <1>13, <2>2, <3>1 DEF PolicyLookup, WorksOn, WorksAt, data
  <2> QED
    BY <1>13, <2>1, <2>2 DEF PolicyLookup
<1>14. CASE PolicyAllows(p) /\ Decision(at[p]) = "allow" /\ UNCHANGED data
  <2>1. Goes(p, "returning", OnSuccess[x], Noted(x, "completed"), s, w)
    BY <1>3, <1>4, <1>6, <1>14 DEF PolicyAllows
  <2> QED
    BY <1>2, <1>3, <1>14, <2>1 DEF PolicyAllows, WorksOn, WorksAt, data
<1>15. CASE PolicyAsks(p) /\ Decision(at[p]) = "require_approval" /\ UNCHANGED data
  <2> DEFINE n == [Recorded(o, x, "waiting") EXCEPT !.status = "waiting_for_approval", !.pending = x]
  <2>1. /\ n.history = Noted(x, "waiting") /\ n.status = "waiting_for_approval"
        /\ n.pending = x
    BY <1>1, <1>4 DEF Recorded, Run
  <2>2. runs'[Journey] = n /\ Wait(p, Journey, "parking", x)
    BY <1>1, <1>3, <1>15 DEF PolicyAsks, Pause
  <2> HIDE DEF n
  <2>3. Goes(p, "parking", x, Noted(x, "waiting"), "waiting_for_approval", x)
    BY <2>1, <2>2 DEF Goes, Wait
  <2> QED
    BY <1>2, <1>3, <1>15, <2>3 DEF PolicyAsks, WorksOn, WorksAt, data
<1>16. CASE PolicyDenies(p) /\ Decision(at[p]) \in {"deny", "require_consent"} /\ UNCHANGED data
  BY <1>2, <1>3, <1>12, <1>16 DEF PolicyDenies, WorksOn, WorksAt, data
<1> QED
  BY <1>7, <1>8, <1>9, <1>10, <1>11, <1>13, <1>14, <1>15, <1>16 DEF EngineStep
-----------------------------------------------------------------------------
(* The state of the demo *)

\* Call p has been made and has not returned.
Active(p) == pc[p] \notin {"idle", "done"}

\* What main() has read is what the files say.
Read ==
  /\ bundle \in DOMAIN Files /\ passed = Validate(Files[bundle])
  /\ phase \in {"loading", "ready", "running", "exit 0", "exit 1"}
  /\ phase = "loading" => registries = Absent
  /\ phase # "loading" => /\ registries = BuildRegistries(Files[bundle])
                          /\ rawWorkflow = LoadRawWorkflow(Files[bundle])

\* What the fixtures are asked and answer
Exchanged ==
  /\ evidence \in [Steps -> {Role[x] : x \in Steps} \cup {NoId}]
  /\ \A x \in Steps : evidence[x] \in {Role[x], NoId}
  /\ request \in {Role[x] : x \in Steps} \cup {"default", NoId}

\* Nothing has happened before the run is started.
Quiet ==
  /\ phase \in {"loading", "ready"} =>
       /\ \A p \in Procs : pc[p] = "idle"
       /\ History = <<>> /\ request = NoId /\ evidence = [x \in Steps |-> NoId]
  /\ phase # "running" => \A p \in Procs : ~Active(p)

\* main() awaits each call before it makes another.
Solo ==
  \A p \in Procs : /\ pc[p] # "refused"
                   /\ \A q \in Procs : Active(p) /\ Active(q) => p = q

\* Where a call is, there is a step of that type, and what it refers to.
Fits(l, x) ==
  /\ l \in {"lookup", "calling", "fetching", "evaluating", "parking"} => x \in HasRef
  /\ l \in {"lookup", "calling"} => Type[x] = "tool"
  /\ l \in {"fetching", "evaluating", "parking"} => Type[x] = "policy"
  /\ l = "calling" => HasTool(x)
  /\ l = "evaluating" => HasPolicy(x)

Placed == \A p \in Procs : Fits(pc[p], at[p])

JourneyInv == EngineInv /\ Read /\ Exchanged /\ Quiet /\ Solo /\ Placed

LEMMA GatheredOk ==
  ASSUME Exchanged
  PROVE  /\ Gathered \in {Role[x] : x \in Steps} \cup {"default"}
         /\ Given # {} =>
              \E k \in Given :
                (\A j \in Given : j <= k) /\ Gathered = evidence[FromSteps[k]]
<1>1. CASE Given = {}
  BY <1>1 DEF Gathered
<1>2. CASE Given # {}
  <2>1. Len(FromSteps) \in Nat /\ DOMAIN FromSteps = 1 .. Len(FromSteps)
    OBVIOUS
  <2>2. Given \in SUBSET (1 .. Len(FromSteps))
    BY <2>1 DEF Given
  <2>3. \E k \in Given : \A j \in Given : j <= k
    BY <1>2, <2>1, <2>2, GreatestNat
  <2> DEFINE k == CHOOSE k \in Given : \A j \in Given : j <= k
  <2>4. k \in Given /\ \A j \in Given : j <= k
    BY <2>3
  <2>5. Gathered = evidence[FromSteps[k]]
    BY <1>2 DEF Gathered
  <2> HIDE DEF k
  <2>6. FromSteps[k] \in Steps /\ evidence[FromSteps[k]] # NoId
    BY <2>4 DEF Given
  <2> QED
    BY <2>4, <2>5, <2>6 DEF Exchanged
<1> QED
  BY <1>1, <1>2

\* Where the head of the loop may lead
LEMMA ArrivalFits ==
  ASSUME NEW p, NEW id, NEW h, NEW s, NEW w, Arrives(p, id, h, s, w)
  PROVE  \E l, x :
           /\ pc' = [pc EXCEPT ![p] = l] /\ at' = [at EXCEPT ![p] = x]
           /\ l \notin {"idle", "refused"}
           /\ Fits(l, x)
           /\ \/ History' = h
              \/ /\ id \in Steps /\ Type[id] = "completion"
                 /\ History' = Append(h, Entry(id, "completed"))
<1> DEFINE Ok(hh) == \/ hh = h
                     \/ /\ id \in Steps /\ Type[id] = "completion"
                        /\ hh = Append(h, Entry(id, "completed"))
           Goal == \E l, x :
             /\ pc' = [pc EXCEPT ![p] = l] /\ at' = [at EXCEPT ![p] = x]
             /\ l \notin {"idle", "refused"} /\ Fits(l, x) /\ Ok(History')
<1>1. ASSUME NEW l, NEW x, NEW hh, NEW ss, NEW ww, Goes(p, l, x, hh, ss, ww),
             l \notin {"idle", "refused"}, Fits(l, x), Ok(hh)
      PROVE  Goal
  BY <1>1 DEF Goes, History
<1> HIDE DEF Goal, Ok
<1>2. Goal
  <2>1. Fits("pausing", id) /\ Fits("done", id) /\ \A x : Fits("returning", x)
    BY DEF Fits
  <2>2. /\ Type[id] = "tool" /\ id \in HasRef => Fits("lookup", id)
        /\ Type[id] = "policy" /\ id \in HasRef => Fits("fetching", id)
    BY DEF Fits
  <2>3. Ok(h)
    BY DEF Ok
  <2>4. id \in Steps /\ Type[id] = "completion" => Ok(Append(h, Entry(id, "completed")))
    BY DEF Ok
  <2> QED
    BY <1>1, <2>1, <2>2, <2>3, <2>4 DEF Arrives
<1> QED
  BY <1>2 DEF Goal, Ok

LEMMA Elsewhere ==
  ASSUME TypeOK, NEW p \in Procs, NEW l, NEW x,
         pc' = [pc EXCEPT ![p] = l], at' = [at EXCEPT ![p] = x]
  PROVE  /\ pc'[p] = l /\ at'[p] = x
         /\ \A q \in Procs \ {p} : pc'[q] = pc[q] /\ at'[q] = at[q]
BY DEF TypeOK

\* A call that is alone stays alone.
LEMMA Placing ==
  ASSUME EngineInv, Solo, Placed, NEW p \in Procs, NEW l, NEW x,
         \A q \in Procs \ {p} : ~Active(q),
         pc' = [pc EXCEPT ![p] = l], at' = [at EXCEPT ![p] = x],
         l \notin {"idle", "refused"},
         Fits(l, x), UNCHANGED loaded
  PROVE  Solo' /\ Placed'
<1>1. /\ pc'[p] = l /\ at'[p] = x
      /\ \A q \in Procs \ {p} : pc'[q] = pc[q] /\ at'[q] = at[q]
  BY Elsewhere DEF EngineInv
<1>2. \A m, y : Fits(m, y)' <=> Fits(m, y)
  BY DEF Fits, HasTool, HasPolicy, ToolRef, PolicyRef, loaded
<1>3. Solo'
  BY <1>1 DEF Solo, Active
<1>4. Placed'
  <2> SUFFICES ASSUME NEW q \in Procs PROVE Fits(pc'[q], at'[q])
    BY <1>2 DEF Placed, Fits
  <2> QED
    BY <1>1 DEF Placed
<1> QED
  BY <1>3, <1>4

\* main() reads, or ends: no call moves.
Rests == UNCHANGED <<vars, bundle, passed, input, evidence, request>>

\* What a step of the journey is
Moves ==
  \/ Rests
  \/ \E id \in Ids : Begins(id)
  \/ \E p \in Procs, x \in Steps, approved \in BOOLEAN : Decides(p, x, approved)
  \/ \E p \in Procs : WorksOn(p)

LEMMA Moving ==
  ASSUME JourneyInv, [JourneyNext]_journeyVars
  PROVE  EngineInv' /\ Moves
<1>1. \A p \in Calls : p = Journey
  OBVIOUS
<1>2. ASSUME UNCHANGED vars PROVE EngineInv'
  BY <1>2, EngineNext DEF JourneyInv
<1>3. CASE Load \/ Exit \/ UNCHANGED journeyVars
  <2>1. Rests
    BY <1>3 DEF Load, Exit, Goto, loaded, data, journeyVars, Rests
  <2> QED
    BY <1>2, <2>1 DEF Moves, Rests
<1>4. CASE Begin
  <2>1. pc[Journey] = "idle"
    BY <1>4 DEF Begin, JourneyInv, Quiet, Procs
  <2> QED
    BY <1>4, <2>1, Beginning DEF Moves, JourneyInv
<1>5. CASE \E approved \in Approvals : Decide(approved)
  <2>1. PICK approved \in Approvals : Decide(approved)
    BY <1>5
  <2>2. approved \in BOOLEAN
    OBVIOUS
  <2> QED
    BY <2>1, <2>2, Deciding DEF Moves, JourneyInv
<1>6. CASE \E p \in Procs : EngineStep(p)
  BY <1>6, Working DEF Moves, JourneyInv
<1> QED
  BY <1>3, <1>4, <1>5, <1>6 DEF JourneyNext

\* The call that moves is the only one under way.
LEMMA MoverIsAlone ==
  ASSUME JourneyInv
  PROVE  /\ \A id : Begins(id) => \A q \in Procs : ~Active(q)
         /\ Returned => \A q \in Procs : ~Active(q)
         /\ \A p \in Procs : WorksOn(p) =>
              /\ Active(p) /\ phase = "running"
              /\ \A q \in Procs \ {p} : ~Active(q)
BY DEF JourneyInv, Begins, Quiet, Returned, Solo, WorksOn, Active

\* Where a call goes on
LEMMA WorkFits ==
  ASSUME JourneyInv, NEW p \in Procs, WorksOn(p)
  PROVE  \E l, x : /\ pc' = [pc EXCEPT ![p] = l] /\ at' = [at EXCEPT ![p] = x]
                   /\ l \notin {"idle", "refused"}
                   /\ Fits(l, x)
<1> DEFINE Goal == \E l, x :
             /\ pc' = [pc EXCEPT ![p] = l] /\ at' = [at EXCEPT ![p] = x]
             /\ l \notin {"idle", "refused"} /\ Fits(l, x)
           x == at[p]
<1>1. ASSUME NEW l, NEW y, NEW h, NEW s, NEW w, Goes(p, l, y, h, s, w),
             l \notin {"idle", "refused"}, Fits(l, y)
      PROVE  Goal
  BY <1>1 DEF Goes
<1>2. ASSUME NEW y, NEW h, NEW s, NEW w, Arrives(p, y, h, s, w)
      PROVE  Goal
  BY <1>2, ArrivalFits
<1>3. WorksAt(p, x, runs[Journey].status, runs[Journey].pending) /\ Fits(pc[p], x)
  BY DEF WorksOn, JourneyInv, Placed
<1> HIDE DEF Goal
<1>4. /\ Fits("done", x) /\ \A y : Fits("returning", y)
      /\ pc[p] = "lookup" /\ HasTool(x) => Fits("calling", x)
      /\ pc[p] = "fetching" /\ HasPolicy(x) => Fits("evaluating", x)
      /\ pc[p] = "evaluating" => Fits("parking", x)
  BY <1>3 DEF Fits
<1> HIDE DEF x
<1>5. Goal
  BY <1>1, <1>2, <1>3, <1>4 DEF WorksAt
<1> QED
  BY <1>5 DEF Goal

LEMMA JourneyStep ==
  ASSUME JourneyInv, [JourneyNext]_journeyVars
  PROVE  JourneyInv' /\ Moves
<1>1. EngineInv' /\ Moves
  BY Moving
<1>2. /\ EngineInv /\ Read /\ Exchanged /\ Quiet /\ Solo /\ Placed
      /\ Journey \in Procs
  BY DEF JourneyInv, Procs
<1>3. CASE Load
  <2>1. /\ phase = "loading" /\ phase' \in {"ready", "exit 1"}
        /\ UNCHANGED <<vars, bundle, passed, input, evidence, request>>
    BY <1>3 DEF Load, Goto
  <2>2. registries' = BuildRegistries(Files[bundle]) /\ rawWorkflow' = LoadRawWorkflow(Files[bundle])
    BY <1>2, <1>3 DEF Load, Registered, Read
  <2>3. Read'
    BY <1>2, <2>1, <2>2 DEF Read
  <2>4. Quiet'
    <3>1. \A p \in Procs : pc[p] = "idle"
      BY <1>2, <2>1 DEF Quiet
    <3> QED
      BY <1>2, <2>1, <3>1 DEF Quiet, Active, History, vars
  <2>5. Solo' /\ Placed' /\ Exchanged'
    BY <1>2, <2>1 DEF Solo, Placed, Exchanged, Fits, Active, Quiet, vars
  <2> QED
    BY <1>1, <2>3, <2>4, <2>5 DEF JourneyInv
<1>4. CASE Exit \/ UNCHANGED journeyVars
  <2>1. /\ UNCHANGED <<vars, loaded, evidence, request>>
        /\ \/ UNCHANGED phase
           \/ Returned /\ phase' \in {"exit 0", "exit 1"}
    BY <1>4 DEF Exit, Goto, journeyVars, data
  <2>2. Read' /\ Exchanged'
    BY <1>2, <2>1 DEF Read, Exchanged, loaded, Returned
  <2>3. Solo'
    BY <1>2, <2>1 DEF Solo, Active, vars
  <2>4. Placed'
    BY <1>2, <2>1 DEF Placed, Fits, HasTool, HasPolicy, ToolRef, PolicyRef, loaded, vars
  <2>5. Quiet'
    BY <1>2, <2>1 DEF Quiet, Active, Returned, History, vars
  <2> QED
    BY <1>1, <2>2, <2>3, <2>4, <2>5 DEF JourneyInv
<1>5. CASE \E id \in Ids : Begins(id)
  <2>1. PICK id \in Ids : Begins(id)
    BY <1>5
  <2>2. Arrives(Journey, id, History, "running", NoId) /\ \A q \in Procs : ~Active(q)
    BY <2>1, MoverIsAlone DEF Begins
  <2>3. PICK l, x : /\ pc' = [pc EXCEPT ![Journey] = l] /\ at' = [at EXCEPT ![Journey] = x]
                    /\ l \notin {"idle", "refused"} /\ Fits(l, x)
    BY <2>2, ArrivalFits
  <2>4. phase = "ready" /\ phase' = "running" /\ UNCHANGED <<loaded, evidence, request>>
    BY <2>1 DEF Begins
  <2>5. Solo' /\ Placed'
    BY <1>2, <2>2, <2>3, <2>4, Placing
  <2>6. Read' /\ Exchanged' /\ Quiet'
    BY <1>2, <2>4 DEF Read, Exchanged, Quiet, loaded
  <2> QED
    BY <1>1, <2>5, <2>6 DEF JourneyInv
<1>6. CASE \E p \in Procs, x \in Steps, approved \in BOOLEAN : Decides(p, x, approved)
  <2>1. PICK p \in Procs, y \in Steps, approved \in BOOLEAN : Decides(p, y, approved)
    BY <1>6
  <2> DEFINE next == IF approved THEN OnSuccess[y] ELSE OnFailure[y]
  <2>2. /\ Returned /\ evidence' = [evidence EXCEPT ![y] = Role[y]]
        /\ UNCHANGED <<loaded, phase, request>>
        /\ \/ \E h, s : Goes(p, "done", next, h, s, NoId)
           \/ \E h : Arrives(p, next, h, "running", NoId)
    BY <2>1 DEF Decides
  <2>3. PICK l, x : /\ pc' = [pc EXCEPT ![p] = l] /\ at' = [at EXCEPT ![p] = x]
                    /\ l \notin {"idle", "refused"} /\ Fits(l, x)
    <3> HIDE DEF next
    <3>1. CASE \E h, s : Goes(p, "done", next, h, s, NoId)
      <4>1. pc' = [pc EXCEPT ![p] = "done"] /\ at' = [at EXCEPT ![p] = next]
        BY <3>1 DEF Goes
      <4>2. Fits("done", next)
        BY DEF Fits
      <4> QED
        BY <4>1, <4>2
    <3>2. CASE \E h : Arrives(p, next, h, "running", NoId)
      BY <3>2, ArrivalFits
    <3> QED
      BY <2>2, <3>1, <3>2
  <2>4. Solo' /\ Placed'
    <3>1. \A q \in Procs : ~Active(q)
      BY <2>2, MoverIsAlone
    <3> QED
      BY <1>2, <2>2, <2>3, <3>1, Placing
  <2>5. Read' /\ Exchanged' /\ Quiet'
    <3>1. phase = "running" /\ phase' = "running"
      BY <2>2 DEF Returned
    <3>2. Exchanged'
      BY <1>2, <2>2 DEF Exchanged
    <3> QED
      BY <1>2, <2>2, <3>1, <3>2 DEF Read, Quiet, loaded
  <2> QED
    BY <1>1, <2>4, <2>5 DEF JourneyInv
<1>7. CASE \E p \in Procs : WorksOn(p)
  <2>1. PICK p \in Procs : WorksOn(p)
    BY <1>7
  <2>2. PICK l, x : /\ pc' = [pc EXCEPT ![p] = l] /\ at' = [at EXCEPT ![p] = x]
                    /\ l \notin {"idle", "refused"} /\ Fits(l, x)
    BY <2>1, WorkFits
  <2>3. phase = "running" /\ phase' = "running" /\ UNCHANGED <<loaded, evidence>>
    BY <2>1, MoverIsAlone DEF WorksOn
  <2>4. Solo' /\ Placed'
    BY <1>2, <2>1, <2>2, <2>3, MoverIsAlone, Placing
  <2>5. Exchanged'
    <3>1. request' \in {request, Gathered}
      BY <2>1 DEF WorksOn
    <3> QED
      BY <1>2, <2>3, <3>1, GatheredOk DEF Exchanged
  <2>6. Read' /\ Quiet'
    BY <1>2, <2>3 DEF Read, Quiet, loaded
  <2> QED
    BY <1>1, <2>4, <2>5, <2>6 DEF JourneyInv
<1>8. Load \/ Exit \/ UNCHANGED journeyVars \/ (phase' = phase /\ UNCHANGED loaded) \/ Begin
  BY DEF JourneyNext, Decide, EngineStep, CallTool, data
<1>9. CASE Rests /\ ~Load /\ ~Exit /\ ~ UNCHANGED journeyVars
  <2>1. CASE phase' = phase /\ UNCHANGED loaded
    BY <1>4, <1>9, <2>1 DEF Rests, journeyVars, data
  <2>2. CASE Begin
    <3>1. PICK id \in Ids : Begins(id)
      BY <1>2, <2>2, Beginning DEF Begin, Quiet
    <3> QED
      BY <1>5, <3>1
  <2> QED
    BY <1>8, <1>9, <2>1, <2>2
<1> QED
  BY <1>1, <1>3, <1>4, <1>5, <1>6, <1>7, <1>9 DEF Moves

LEMMA JourneyStart == JourneyInit => JourneyInv
<1> SUFFICES ASSUME JourneyInit PROVE JourneyInv
  OBVIOUS
<1>1. EngineInv
  BY EngineInit DEF JourneyInit
<1>2. \A p \in Procs : pc[p] = "idle"
  BY DEF JourneyInit, Init
<1>3. History = <<>> /\ Journey \in Calls
  BY DEF JourneyInit, Init, History
<1>4. Read
  BY DEF JourneyInit, Read
<1>5. Exchanged
  BY DEF JourneyInit, Exchanged
<1>6. Quiet /\ Solo /\ Placed
  BY <1>2, <1>3 DEF JourneyInit, Quiet, Solo, Placed, Active, Fits
<1> QED
  BY <1>1, <1>4, <1>5, <1>6 DEF JourneyInv

\* The engine keeps its invariant in the demo, which uses it alone.
THEOREM JourneyCorrect == JourneySpec => []JourneyInv
<1>1. JourneyInv /\ [JourneyNext]_journeyVars => JourneyInv'
  BY JourneyStep
<1> QED
  BY <1>1, JourneyStart, PTL DEF JourneySpec

-----------------------------------------------------------------------------
(* What is registered of the files *)

LEMMA KnownIsValue ==
  ASSUME NEW raw, NEW values, NEW default
  PROVE  /\ default \in values => Known(raw, values, default) \in values
         /\ \A v : Known(raw, values, default) = v /\ v # default => raw = v
BY DEF Known

\* Of the files with an id the last is kept.
LEMMA LastIsFile ==
  ASSUME NEW files, Len(files) \in Nat, NEW K \in SUBSET (1 .. Len(files))
  PROVE  /\ \A id : id \in DOMAIN LastById(files, K) <=> \E i \in K : files[i].id = id
         /\ \A id \in DOMAIN LastById(files, K) : \E i \in K :
              /\ LastById(files, K)[id] = files[i] /\ files[i].id = id
              /\ \A j \in K : files[j].id = id => j <= i
<1> DEFINE D == {files[i].id : i \in K}
           last(id) == CHOOSE i \in K : files[i].id = id /\ \A j \in K : files[j].id = id => j <= i
<1>1. LastById(files, K) = [id \in D |-> files[last(id)]]
  BY DEF LastById
<1>2. ASSUME NEW id \in D
      PROVE  /\ last(id) \in K /\ files[last(id)].id = id
             /\ \A j \in K : files[j].id = id => j <= last(id)
  <2> DEFINE S == {i \in K : files[i].id = id}
  <2>1. S \in SUBSET (1 .. Len(files)) /\ S # {}
    OBVIOUS
  <2>2. \E g \in S : \A j \in S : j <= g
    BY <2>1, GreatestNat
  <2>3. \E i \in K : files[i].id = id /\ \A j \in K : files[j].id = id => j <= i
    BY <2>2
  <2> QED
    BY <2>3
<1> HIDE DEF last
<1>3. DOMAIN LastById(files, K) = D
  BY <1>1
<1>4. \A id \in D : LastById(files, K)[id] = files[last(id)]
  BY <1>1
<1> QED
  BY <1>2, <1>3, <1>4

LEMMA FilePositions ==
  ASSUME NEW b \in DOMAIN Files, NEW kind
  PROVE  /\ Len(Files[b]) \in Nat /\ DOMAIN Files[b] = 1 .. Len(Files[b])
         /\ LoadAll(Files[b], kind) \subseteq OfKind(Files[b], kind)
         /\ OfKind(Files[b], kind) \in SUBSET (1 .. Len(Files[b]))
<1>1. Files[b] \in Seq(Range(Files[b]))
  OBVIOUS
<1>2. Len(Files[b]) \in Nat /\ DOMAIN Files[b] = 1 .. Len(Files[b])
  BY <1>1, LenProperties
<1> QED
  BY <1>2 DEF LoadAll, OfKind

\* What is registered under an id is what the last file with it is mapped to.
LEMMA RegisteredFile ==
  ASSUME NEW b \in DOMAIN Files, NEW kind \in Kinds
  PROVE  /\ \A id : id \in DOMAIN BuildRegistries(Files[b])[kind] <=>
                \E i \in LoadAll(Files[b], kind) : Files[b][i].id = id
         /\ \A id \in DOMAIN BuildRegistries(Files[b])[kind] : \E i \in OfKind(Files[b], kind) :
              BuildRegistries(Files[b])[kind][id] = Mapped(Files[b][i]) /\ Files[b][i].id = id
<1> DEFINE files == Files[b]
           K == LoadAll(files, kind)
           last == LastById(files, K)
           all == BuildRegistries(files)
<1>1. all[kind] = [id \in DOMAIN last |-> Mapped(last[id])]
  BY DEF BuildRegistries
<1>2. K \in SUBSET (1 .. Len(files)) /\ Len(files) \in Nat /\ K \subseteq OfKind(files, kind)
  BY FilePositions
<1> HIDE DEF K, files
<1>3. /\ \A id : id \in DOMAIN last <=> \E i \in K : files[i].id = id
      /\ \A id \in DOMAIN last : \E i \in K : last[id] = files[i] /\ files[i].id = id
  BY <1>2, LastIsFile
<1> HIDE DEF last, all
<1>4. DOMAIN all[kind] = DOMAIN last /\ \A id \in DOMAIN last : all[kind][id] = Mapped(last[id])
  BY <1>1
<1>5. \A id : id \in DOMAIN all[kind] <=> \E i \in K : files[i].id = id
  BY <1>3, <1>4
<1>6. \A id \in DOMAIN all[kind] : \E i \in OfKind(files, kind) :
        all[kind][id] = Mapped(files[i]) /\ files[i].id = id
  <2> SUFFICES ASSUME NEW id \in DOMAIN all[kind]
               PROVE  \E i \in OfKind(files, kind) :
                        all[kind][id] = Mapped(files[i]) /\ files[i].id = id
    OBVIOUS
  <2>1. PICK i \in K : last[id] = files[i] /\ files[i].id = id
    BY <1>3, <1>4
  <2> QED
    BY <1>2, <1>4, <2>1
<1> QED
  BY <1>5, <1>6 DEF K, all, files

\* Whatever a file says, it is mapped to a value of the type of its kind.
LEMMA MappedTypes ==
  ASSUME NEW kind \in Kinds, NEW m, m.kind = kind
  PROVE  /\ kind # "audit_events" => Mapped(m).status \in LifecycleStatuses
         /\ kind \in {"skills", "tools"} => Mapped(m).riskLevel \in RiskLevels
         /\ kind = "tools" => Mapped(m).adapter \in Adapters
         /\ kind = "policies" => Mapped(m).decisionType \in Outcomes
         /\ kind \in {"systems", "context_scopes"} => Mapped(m).dataClassification \in DataClasses
<1>1. \A raw : /\ LifecycleStatus(raw) \in LifecycleStatuses /\ RiskLevel(raw) \in RiskLevels
               /\ Adapter(raw) \in Adapters /\ DecisionType(raw) \in Outcomes
  BY DEF LifecycleStatus, LifecycleStatuses, RiskLevel, RiskLevels, Adapter, Adapters,
         DecisionType, Outcomes, Known
<1>2. CASE kind = "agents"
  <2>1. Mapped(m) = MapAgent(m)
    BY <1>2 DEF Mapped
  <2> QED
    BY <1>1, <1>2, <2>1 DEF MapAgent
<1>3. CASE kind = "skills"
  <2>1. Mapped(m) = MapSkill(m)
    BY <1>3 DEF Mapped
  <2> QED
    BY <1>1, <1>3, <2>1 DEF MapSkill
<1>4. CASE kind = "tools"
  <2>1. Mapped(m) = MapTool(m)
    BY <1>4 DEF Mapped
  <2> QED
    BY <1>1, <1>4, <2>1 DEF MapTool
<1>5. CASE kind = "policies"
  <2>1. Mapped(m) = MapPolicy(m)
    BY <1>5 DEF Mapped
  <2> QED
    BY <1>1, <1>5, <2>1 DEF MapPolicy
<1>6. CASE kind = "workflows"
  <2>1. Mapped(m) = MapWorkflow(m)
    BY <1>6 DEF Mapped
  <2> QED
    BY <1>1, <1>6, <2>1 DEF MapWorkflow
<1>7. CASE kind = "systems"
  <2>1. Mapped(m) = MapSystem(m)
    BY <1>7 DEF Mapped
  <2>2. MapSystem(m).dataClassification \in DataClasses
    BY DEF MapSystem, DataClasses
  <2>3. MapSystem(m).status \in LifecycleStatuses
    BY <1>1 DEF MapSystem
  <2> QED
    BY <1>7, <2>1, <2>2, <2>3
<1>8. CASE kind = "context_scopes"
  <2>1. Mapped(m) = MapContextScope(m)
    BY <1>8 DEF Mapped
  <2>2. \A raw : Known(raw, DataClasses, "internal") \in DataClasses
    BY DEF Known, DataClasses
  <2>3. /\ MapContextScope(m).dataClassification \in DataClasses
        /\ MapContextScope(m).status \in LifecycleStatuses
    BY <1>1, <2>2 DEF MapContextScope
  <2> QED
    BY <1>8, <2>1, <2>3
<1>9. CASE kind = "evaluations"
  <2>1. Mapped(m) = MapEvaluation(m)
    BY <1>9 DEF Mapped
  <2> QED
    BY <1>1, <1>9, <2>1 DEF MapEvaluation
<1>10. CASE kind = "audit_events"
  BY <1>10
<1> QED
  BY <1>2, <1>3, <1>4, <1>5, <1>6, <1>7, <1>8, <1>9, <1>10 DEF Kinds

\* What is registered has the types of core/types.ts, whatever the files say,
\* and the state of the demo is one that its code can be in.
THEOREM JourneyTypes == JourneySpec => []JourneyTypeOK
<1>1. JourneyInv => JourneyTypeOK
  <2> SUFFICES ASSUME JourneyInv PROVE JourneyTypeOK
    OBVIOUS
  <2>1. Read /\ Exchanged
    BY DEF JourneyInv
  <2>2. ASSUME registries # Absent, NEW kind \in Kinds, NEW id \in DOMAIN registries[kind]
        PROVE  LET m == registries[kind][id] IN
               /\ kind # "audit_events" => m.status \in LifecycleStatuses
               /\ kind \in {"skills", "tools"} => m.riskLevel \in RiskLevels
               /\ kind = "tools" => m.adapter \in Adapters
               /\ kind = "policies" => m.decisionType \in Outcomes
               /\ kind \in {"systems", "context_scopes"} => m.dataClassification \in DataClasses
    <3>1. registries = BuildRegistries(Files[bundle]) /\ bundle \in DOMAIN Files
      BY <2>1, <2>2 DEF Read
    <3>2. PICK i \in OfKind(Files[bundle], kind) : registries[kind][id] = Mapped(Files[bundle][i])
      BY <2>2, <3>1, RegisteredFile
    <3>3. Files[bundle][i].kind = kind
      BY DEF OfKind
    <3> QED
      BY <3>2, <3>3, MappedTypes
  <2> QED
    BY <2>1, <2>2 DEF JourneyTypeOK, Read, Exchanged
<1> QED
  BY <1>1, JourneyCorrect, PTL

-----------------------------------------------------------------------------
(* What is recorded *)

Records == [step : Steps, outcome : RecordOutcomes]

\* What the files say of a step that is recorded with this outcome
Justified(x, outcome) ==
  /\ Type[x] = "policy" /\ outcome = "completed" => HasPolicy(x) /\ Decision(x) = "allow"
  /\ outcome = "failed" => x \in HasRef
  /\ outcome = "failed" =>
       \/ Type[x] = "tool" /\ ~HasTool(x)
       \/ Type[x] = "policy" /\ ~HasPolicy(x)

\* A history goes on from that of the journey.
Continues(h) ==
  /\ h \in Seq(Records)
  /\ \A i \in DOMAIN h :
       \/ i \in DOMAIN History /\ h[i] = History[i]
       \/ \E x \in Steps, outcome \in RecordOutcomes :
            h[i] = Entry(x, outcome) /\ Justified(x, outcome)

LEMMA NotedContinues ==
  ASSUME NEW h, Continues(h), NEW x \in Steps, NEW outcome \in RecordOutcomes,
         Justified(x, outcome)
  PROVE  Continues(Append(h, Entry(x, outcome)))
<1> DEFINE e == Entry(x, outcome)
<1>1. h \in Seq(Records) /\ e \in Records
  BY DEF Continues, Records, Entry
<1> HIDE DEF e
<1>2. /\ Append(h, e) \in Seq(Records) /\ DOMAIN Append(h, e) = 1 .. Len(h) + 1
      /\ DOMAIN h = 1 .. Len(h) /\ Len(h) \in Nat
      /\ Append(h, e)[Len(h) + 1] = e
      /\ \A i \in 1 .. Len(h) : Append(h, e)[i] = h[i]
  BY <1>1
<1>3. \A i \in DOMAIN Append(h, e) : i \in DOMAIN h \/ i = Len(h) + 1
  BY <1>2
<1> QED
  BY <1>2, <1>3 DEF Continues, e

LEMMA ArrivalContinues ==
  ASSUME NEW p, NEW id, NEW h, NEW s, NEW w, Arrives(p, id, h, s, w), Continues(h)
  PROVE  Continues(History')
<1>1. PICK l : /\ l \notin {"idle", "refused"}
               /\ \/ History' = h
                  \/ /\ id \in Steps /\ Type[id] = "completion"
                     /\ History' = Append(h, Entry(id, "completed"))
  BY ArrivalFits
<1>2. Type[id] = "completion" => Justified(id, "completed")
  BY DEF Justified
<1>3. "completed" \in RecordOutcomes
  BY DEF RecordOutcomes
<1> QED
  BY <1>1, <1>2, <1>3, NotedContinues

LEMMA HistoryIs ==
  ASSUME TypeOK
  PROVE  History \in Seq(Records) /\ Continues(History)
<1>1. runs[Journey] \in Run
  BY Fields
<1>2. History \in Seq(Records)
  BY <1>1 DEF History, Run, Records, RecordOutcomes
<1> QED
  BY <1>2 DEF Continues

\* Every step of the journey records only what is justified.
LEMMA Recording ==
  ASSUME JourneyInv, [JourneyNext]_journeyVars
  PROVE  /\ Continues(History')
         /\ UNCHANGED <<bundle, passed, input>>
         /\ History' = History \/ UNCHANGED loaded
<1>1. Moves /\ TypeOK /\ Continues(History) /\ History \in Seq(Records)
  BY JourneyStep, HistoryIs DEF JourneyInv, EngineInv
<1>2. CASE Rests
  BY <1>1, <1>2 DEF Rests, History, vars
<1>3. CASE \E id \in Ids : Begins(id)
  BY <1>1, <1>3, ArrivalContinues DEF Begins, loaded
<1>4. CASE \E p \in Procs, x \in Steps, approved \in BOOLEAN : Decides(p, x, approved)
  <2>1. PICK p \in Procs, x \in Steps, approved \in BOOLEAN : Decides(p, x, approved)
    BY <1>4
  <2> DEFINE oc == IF approved THEN "approved" ELSE "rejected"
             next == IF approved THEN OnSuccess[x] ELSE OnFailure[x]
  <2>2. /\ UNCHANGED loaded
        /\ \/ \E s : Goes(p, "done", next, Noted(x, oc), s, NoId)
           \/ Arrives(p, next, Noted(x, oc), "running", NoId)
    BY <2>1 DEF Decides
  <2>3. Continues(Noted(x, oc))
    <3>1. oc \in RecordOutcomes /\ Justified(x, oc)
      BY DEF RecordOutcomes, Justified
    <3> HIDE DEF oc
    <3> QED
      BY <1>1, <3>1, NotedContinues DEF Noted
  <2> HIDE DEF oc, next
  <2>4. Continues(History')
    <3>1. CASE \E s : Goes(p, "done", next, Noted(x, oc), s, NoId)
      BY <2>3, <3>1 DEF Goes, History
    <3> QED
      BY <2>2, <2>3, <3>1, ArrivalContinues
  <2> QED
    BY <2>2, <2>4 DEF loaded
<1>5. CASE \E p \in Procs : WorksOn(p)
  <2>1. PICK p \in Procs : WorksOn(p)
    BY <1>5
  <2> DEFINE x == at[p]
             s == runs[Journey].status
             w == runs[Journey].pending
  <2>2. WorksAt(p, x, s, w) /\ UNCHANGED loaded /\ Fits(pc[p], x)
    BY <2>1 DEF WorksOn, JourneyInv, Placed
  <2>3. pc[p] \in AtStep => x \in Steps
    BY DEF JourneyInv, EngineInv, Owned
  <2>4. ASSUME NEW l, NEW y, NEW h, NEW t, NEW v, Goes(p, l, y, h, t, v), Continues(h)
        PROVE  Continues(History')
    BY <2>4 DEF Goes, History
  <2>5. ASSUME NEW oc \in RecordOutcomes, x \in Steps, Justified(x, oc)
        PROVE  Continues(Noted(x, oc))
    BY <1>1, <2>5, NotedContinues DEF Noted
  <2>6. /\ {"completed", "failed", "denied", "waiting"} \subseteq RecordOutcomes
        /\ Justified(x, "denied") /\ Justified(x, "waiting")
        /\ pc[p] = "lookup" /\ ~HasTool(x) => Justified(x, "failed")
        /\ pc[p] = "fetching" /\ ~HasPolicy(x) => Justified(x, "failed")
        /\ pc[p] = "calling" => Justified(x, "completed")
        /\ pc[p] = "evaluating" /\ Decision(x) = "allow" => Justified(x, "completed")
    <3> HIDE DEF x
    <3>1. {"completed", "failed", "denied", "waiting"} \subseteq RecordOutcomes
      BY DEF RecordOutcomes
    <3>2. Justified(x, "denied") /\ Justified(x, "waiting")
      BY DEF Justified
    <3>3. /\ pc[p] = "lookup" /\ ~HasTool(x) => Justified(x, "failed")
          /\ pc[p] = "fetching" /\ ~HasPolicy(x) => Justified(x, "failed")
      <4>1. /\ pc[p] = "lookup" => Type[x] = "tool" /\ x \in HasRef
            /\ pc[p] = "fetching" => Type[x] = "policy" /\ x \in HasRef
        BY <2>2 DEF Fits
      <4> QED
        BY <4>1 DEF Justified
    <3>4. /\ pc[p] = "calling" => Justified(x, "completed")
          /\ pc[p] = "evaluating" /\ Decision(x) = "allow" => Justified(x, "completed")
      BY <2>2 DEF Justified, Fits
    <3> QED
      BY <3>1, <3>2, <3>3, <3>4
  <2>7. pc[p] \in {"lookup", "calling", "fetching", "evaluating"} => x \in Steps
    BY <2>3 DEF AtStep
  <2> HIDE DEF x, s, w
  <2>8. Continues(History')
    <3>1. CASE pc[p] = "returning" /\ Arrives(p, x, History, s, w)
      BY <1>1, <3>1, ArrivalContinues
    <3>2. CASE pc[p] \in {"lookup", "calling"}
      BY <1>1, <2>2, <2>4, <2>5, <2>6, <2>7, <3>2 DEF WorksAt
    <3>3. CASE pc[p] = "fetching"
      BY <1>1, <2>2, <2>4, <2>5, <2>6, <2>7, <3>3 DEF WorksAt
    <3>4. CASE pc[p] = "evaluating"
      BY <1>1, <2>2, <2>4, <2>5, <2>6, <2>7, <3>4 DEF WorksAt
    <3>5. CASE pc[p] \in {"pausing", "parking"}
      BY <1>1, <2>2, <2>4, <3>5 DEF WorksAt
    <3> QED
      BY <2>2, <3>1, <3>2, <3>3, <3>4, <3>5 DEF WorksAt
  <2> QED
    BY <2>2, <2>8 DEF loaded
<1> QED
  BY <1>1, <1>2, <1>3, <1>4, <1>5 DEF Moves

\* What is recorded stays justified.
AllJustified == \A i \in DOMAIN History : Justified(History[i].step, History[i].outcome)

LEMMA JustifiedStep ==
  ASSUME JourneyInv, AllJustified, [JourneyNext]_journeyVars
  PROVE  AllJustified'
<1>1. /\ Continues(History')
      /\ History' = History \/ UNCHANGED loaded
  BY Recording
<1>2. CASE History = <<>> /\ History' = History
  BY <1>2 DEF AllJustified
<1>3. CASE UNCHANGED loaded
  <2>1. \A x, oc : Justified(x, oc)' <=> Justified(x, oc)
    <3> SUFFICES ASSUME NEW x, NEW oc PROVE Justified(x, oc)' <=> Justified(x, oc)
      OBVIOUS
    <3>1. HasTool(x)' <=> HasTool(x)
      BY <1>3 DEF loaded, HasTool, ToolRef
    <3>2. HasPolicy(x)' <=> HasPolicy(x)
      BY <1>3 DEF loaded, HasPolicy, PolicyRef
    <3>3. Decision(x)' = Decision(x)
      BY <1>3 DEF loaded, Decision, Policy, PolicyRef, PolicyRequest, PolicyContext, OrScope, Workflow
    <3> QED
      BY <3>1, <3>2, <3>3 DEF Justified
  <2>2. \A i \in DOMAIN History' : Justified(History'[i].step, History'[i].outcome)
    BY <1>1 DEF Continues, Entry, AllJustified
  <2> QED
    BY <2>1, <2>2 DEF AllJustified
<1>4. UNCHANGED loaded \/ (History = <<>> /\ History' = History)
  <2>1. CASE Load
    BY <2>1 DEF Load, JourneyInv, Quiet, History, vars
  <2>2. CASE ~Load
    BY <2>2 DEF JourneyNext, Begin, Exit, Decide, EngineStep, CallTool, data, journeyVars
  <2> QED
    BY <2>1, <2>2
<1> QED
  BY <1>2, <1>3, <1>4

LEMMA JustifiedCorrect == JourneySpec => []AllJustified
<1>1. JourneyInit => AllJustified
  <2> SUFFICES ASSUME JourneyInit PROVE AllJustified
    OBVIOUS
  <2>1. History = <<>>
    BY DEF JourneyInit, Init, History
  <2> QED
    BY <2>1 DEF AllJustified
<1>2. JourneyInv /\ AllJustified /\ [JourneyNext]_journeyVars => AllJustified'
  BY JustifiedStep
<1> QED
  BY <1>1, <1>2, JourneyCorrect, PTL DEF JourneySpec

\* A policy step is passed without a person only if a file says "active" and
\* "allow" in so many words for this request: from the file to the gate of
\* _policyStep() nothing is read as a permission.
THEOREM ClosedCorrect == JourneySpec => []FailsClosed
<1>1. JourneyInv /\ AllJustified => FailsClosed
  <2> SUFFICES ASSUME JourneyInv, AllJustified, NEW i \in DOMAIN History,
                      Type[History[i].step] = "policy", History[i].outcome = "completed"
               PROVE  LET x == History[i].step IN
                      \E k \in OfKind(Files[bundle], "policies") :
                        LET m == Files[bundle][k] IN
                        /\ m.id = PolicyRef(x)
                        /\ AsWritten(m).status = "active"
                        /\ Permits(AsWritten(m), PolicyRequest(Policy(x).scope))
    BY DEF FailsClosed
  <2> DEFINE x == History[i].step
             q == PolicyRequest(Policy(x).scope)
  <2>1. HasPolicy(x) /\ Decision(x) = "allow"
    BY DEF AllJustified, Justified
  <2>2. registries = BuildRegistries(Files[bundle]) /\ bundle \in DOMAIN Files
    <3>1. phase # "loading"
      <4>1. History # <<>>
        OBVIOUS
      <4> QED
        BY <4>1 DEF JourneyInv, Quiet
    <3> QED
      BY <3>1 DEF JourneyInv, Read
  <2>3. PICK k \in OfKind(Files[bundle], "policies") :
          Policy(x) = Mapped(Files[bundle][k]) /\ Files[bundle][k].id = PolicyRef(x)
    <3>1. "policies" \in Kinds
      BY DEF Kinds
    <3> QED
      BY <2>1, <2>2, <3>1, RegisteredFile DEF HasPolicy, Policy
  <2> DEFINE m == Files[bundle][k]
  <2>4. m.kind = "policies" /\ Policy(x) = MapPolicy(m)
    <3>1. m.kind = "policies"
      BY DEF OfKind
    <3> QED
      BY <2>3, <3>1 DEF Mapped
  <2>5. MapPolicy(m).rules \in Seq(Range(MapPolicy(m).rules))
    BY <2>2 DEF MapPolicy
  <2>6. Permits(MapPolicy(m), q)
    <3>1. Absent \notin Outcomes
      OBVIOUS
    <3> HIDE DEF q, m
    <3>2. Evaluate(MapPolicy(m), q) = "allow"
      BY <2>1, <2>4 DEF Decision, q
    <3> QED
      BY <2>5, <3>1, <3>2, EvaluatePermits
  <2> DEFINE pol == MapPolicy(m)
             asw == AsWritten(m)
  <2>7. /\ pol.rules = asw.rules /\ pol.tiers = asw.tiers
        /\ pol.status = LifecycleStatus(asw.status)
        /\ pol.decisionType = DecisionType(asw.decisionType)
    BY DEF MapPolicy, AsWritten
  <2> HIDE DEF q, m, pol, asw
  <2>8. pol.status \in {"active", Absent}
    BY <2>6 DEF Permits, pol
  <2>9. asw.status = "active"
    BY <2>7, <2>8 DEF LifecycleStatus, LifecycleStatuses, Known
  <2>10. pol.decisionType = "allow" => asw.decisionType = "allow"
    BY <2>7 DEF DecisionType, Known, Outcomes
  <2>11. Permits(asw, q)
    BY <2>6, <2>7, <2>9, <2>10 DEF Permits, pol
  <2> QED
    BY <2>3, <2>9, <2>11 DEF x, q, m, asw
<1> QED
  BY <1>1, JourneyCorrect, JustifiedCorrect, PTL

-----------------------------------------------------------------------------
(* The scripts *)

LEMMA ExampleLinksAreFewer ==
  \A kind \in DOMAIN ExampleLinks :
    /\ kind \in DOMAIN ReferenceLinks
    /\ \A f \in DOMAIN ExampleLinks[kind] :
         f \in DOMAIN ReferenceLinks[kind] /\ ReferenceLinks[kind][f] = ExampleLinks[kind][f]
<1> SUFFICES ASSUME NEW kind \in DOMAIN ExampleLinks
             PROVE  /\ kind \in DOMAIN ReferenceLinks
                    /\ \A f \in DOMAIN ExampleLinks[kind] :
                         /\ f \in DOMAIN ReferenceLinks[kind]
                         /\ ReferenceLinks[kind][f] = ExampleLinks[kind][f]
  OBVIOUS
<1>1. kind \in {"agents", "skills", "tools", "workflows", "policies", "context_scopes",
                "ui_manifests", "evaluations", "audit_events"}
  BY DEF ExampleLinks
<1>2. CASE kind = "agents"
  BY <1>2 DEF ExampleLinks, ReferenceLinks
<1>3. CASE kind = "skills"
  BY <1>3 DEF ExampleLinks, ReferenceLinks
<1>4. CASE kind = "tools"
  BY <1>4 DEF ExampleLinks, ReferenceLinks
<1>5. CASE kind = "workflows"
  BY <1>5 DEF ExampleLinks, ReferenceLinks
<1>6. CASE kind = "policies"
  BY <1>6 DEF ExampleLinks, ReferenceLinks
<1>7. CASE kind = "context_scopes"
  BY <1>7 DEF ExampleLinks, ReferenceLinks
<1>8. CASE kind = "ui_manifests"
  BY <1>8 DEF ExampleLinks, ReferenceLinks
<1>9. CASE kind = "evaluations"
  BY <1>9 DEF ExampleLinks, ReferenceLinks
<1>10. CASE kind = "audit_events"
  BY <1>10 DEF ExampleLinks, ReferenceLinks
<1> QED
  BY <1>1, <1>2, <1>3, <1>4, <1>5, <1>6, <1>7, <1>8, <1>9, <1>10

\* Who follows fewer references, and passes over the empty ones, finds fewer
\* that are broken.
LEMMA FewerLinks ==
  ASSUME NEW files, Resolves(files, ReferenceLinks, {})
  PROVE  Resolves(files, ExampleLinks, {""})
<1> DEFINE maps  == [kind \in Kinds \cup {"ui_manifests", "schemas"} |-> ById(files, kind)]
           names == [kind \in DOMAIN maps \cup {"objects"} |->
                       IF kind = "objects" THEN UNION {DOMAIN maps[k] : k \in Objects}
                       ELSE DOMAIN maps[kind]]
<1> HIDE DEF maps, names
<1>1. /\ \A kind \in DOMAIN ReferenceLinks : \A id \in names[kind] : \A f \in DOMAIN ReferenceLinks[kind] :
           Range(List(maps[kind][id], f)) \ {} \subseteq names[ReferenceLinks[kind][f]]
      /\ \A id \in names["tools"] : \A f \in {"input_schema", "output_schema"} :
           Range(List(maps["tools"][id], f)) \ {""} \subseteq names["schemas"]
  BY DEF Resolves, maps, names
<1>2. ASSUME NEW kind \in DOMAIN ExampleLinks, NEW id \in names[kind], NEW f \in DOMAIN ExampleLinks[kind]
      PROVE  Range(List(maps[kind][id], f)) \ {""} \subseteq names[ExampleLinks[kind][f]]
  <2>1. Range(List(maps[kind][id], f)) \ {} \subseteq names[ReferenceLinks[kind][f]]
    BY <1>1, ExampleLinksAreFewer
  <2>2. ReferenceLinks[kind][f] = ExampleLinks[kind][f]
    BY ExampleLinksAreFewer
  <2> QED
    BY <2>1, <2>2
<1> QED
  BY <1>1, <1>2 DEF Resolves, maps, names

\* An example with all its fields that validate-references.js passes is passed
\* by validate-examples.js too: the two scripts do not drift apart.
THEOREM ScriptsCorrect == JourneySpec => []ReferencesCoverExamples
<1>1. JourneyInv => ReferencesCoverExamples
  <2> SUFFICES ASSUME JourneyInv, "validate-references" \in passed, Shaped(Files[bundle])
               PROVE  "validate-examples" \in passed
    BY DEF ReferencesCoverExamples
  <2>1. passed = Validate(Files[bundle])
    BY DEF JourneyInv, Read
  <2>2. Resolves(Files[bundle], ReferenceLinks, {})
    BY <2>1 DEF Validate, ReferencesPass
  <2>3. Resolves(Files[bundle], ExampleLinks, {""})
    BY <2>2, FewerLinks
  <2> QED
    BY <2>1, <2>3 DEF Validate, ExamplesPass
<1> QED
  BY <1>1, JourneyCorrect, PTL

-----------------------------------------------------------------------------
(* The plan change *)

\* Who may confirm the request
Confirmers == {"customer_confirmation", "risk_review", "human_review"}

\* A step is recorded in h with one of these outcomes.
Recounts(h, x, outcomes) == \E i \in DOMAIN h : h[i].step = x /\ h[i].outcome \in outcomes

\* The last approval in h of a step in Confirmers is that of x.
Latest(h, x) ==
  \E i \in DOMAIN h :
    /\ h[i].step = x /\ h[i].outcome = "approved"
    /\ \A j \in DOMAIN h : i < j /\ h[j].outcome = "approved" => h[j].step \notin Confirmers

\* Of the evidence e, that of x is merged last.
Shows(e, x) ==
  /\ e[x] # NoId
  /\ x # "human_review" => e["human_review"] = NoId
  /\ x = "customer_confirmation" => e["risk_review"] = NoId

\* The gates that are behind a run that comes to step x
Gated(h, x) ==
  /\ x \notin {"read_limited_profile", "verify_data_access"} =>
       Recounts(h, "verify_data_access", {"completed", "approved"})
  /\ x \in {"confirm_consent", "risk_review", "human_review", "prepare_change_request",
             "complete"} =>
       Recounts(h, "customer_confirmation", {"approved"})
  /\ x \in {"risk_review", "human_review", "prepare_change_request", "complete"} =>
       Recounts(h, "confirm_consent", {"completed", "approved"})
  /\ x \in {"prepare_change_request", "complete"} =>
       \/ Recounts(h, "risk_review", {"completed", "approved"})
       \/ Recounts(h, "human_review", {"approved"})

\* What the request is to name, at step x, given the evidence e; r is what it
\* names, once it is prepared.
Confirmed(h, e, r, x) ==
  /\ x \notin {"confirm_consent", "risk_review", "human_review", "prepare_change_request",
               "complete"} => \A c \in Confirmers : e[c] = NoId
  /\ x \in {"confirm_consent", "risk_review"} =>
       Latest(h, "customer_confirmation") /\ Shows(e, "customer_confirmation")
  /\ x = "prepare_change_request" => \E c \in Confirmers : Latest(h, c) /\ Shows(e, c)
  /\ x # "complete" => r = NoId
  /\ x = "complete" => \E c \in Confirmers : Latest(h, c) /\ r = Role[c]

\* What is behind the run when it comes to step x.
Before(x, h, e, r) == Gated(h, x) /\ Confirmed(h, e, r, x)

\* Call p is at a step of the run, or about to be.
Under(p) ==
  /\ pc[p] \in {"lookup", "calling", "fetching", "evaluating", "returning"}
  /\ at[p] \in Steps

Finished == \E p \in Procs : pc[p] = "returning" /\ at[p] = "complete"

PlanInv ==
  /\ \A p \in Procs : Under(p) =>
       runs[Journey].status = "running" /\ Before(at[p], History, evidence, request)
  /\ runs[Journey].status = "waiting_for_approval" =>
       /\ runs[Journey].pending \in {x \in Steps : Type[x] \in {"policy", "approval"}}
       /\ Before(runs[Journey].pending, History, evidence, request)
  /\ request # NoId =>
       /\ Before("complete", History, evidence, request)
       /\ runs[Journey].status = "completed" \/ Finished

LEMMA PlanFacts ==
  ASSUME PlanChange
  PROVE  /\ Steps = {"read_limited_profile", "verify_data_access", "check_eligibility",
                     "calculate_price_delta", "customer_confirmation", "confirm_consent",
                     "risk_review", "human_review", "prepare_change_request", "complete"}
         /\ Unknown = {} /\ First = "read_limited_profile"
         /\ Prepare = "prepare_change_request"
         /\ FromSteps = <<"customer_confirmation", "risk_review", "human_review">>
         /\ HasRef = {x \in Steps : Type[x] \in {"tool", "policy"}}
         /\ Type["read_limited_profile"] = "tool" /\ Type["verify_data_access"] = "policy"
         /\ Type["check_eligibility"] = "tool" /\ Type["calculate_price_delta"] = "tool"
         /\ Type["customer_confirmation"] = "approval" /\ Type["confirm_consent"] = "policy"
         /\ Type["risk_review"] = "policy" /\ Type["human_review"] = "approval"
         /\ Type["prepare_change_request"] = "tool" /\ Type["complete"] = "completion"
         /\ OnSuccess["read_limited_profile"] = "verify_data_access"
         /\ OnSuccess["verify_data_access"] = "check_eligibility"
         /\ OnSuccess["check_eligibility"] = "calculate_price_delta"
         /\ OnSuccess["calculate_price_delta"] = "customer_confirmation"
         /\ OnSuccess["customer_confirmation"] = "confirm_consent"
         /\ OnSuccess["confirm_consent"] = "risk_review"
         /\ OnSuccess["risk_review"] = "prepare_change_request"
         /\ OnSuccess["human_review"] = "prepare_change_request"
         /\ OnSuccess["prepare_change_request"] = "complete"
         /\ OnFailure["risk_review"] = "human_review"
         /\ \A x \in Steps \ {"risk_review"} : OnFailure[x] \in {"stop", NoId}
         /\ "stop" \notin Steps /\ NoId \notin Steps /\ NoId # "stop"
<1>1. \A x \in Steps : /\ Type[x] = PlanSteps[x][1] /\ OnSuccess[x] = PlanSteps[x][2]
                      /\ OnFailure[x] = PlanSteps[x][3]
  BY DEF PlanChange
<1>2. Steps = {"read_limited_profile", "verify_data_access", "check_eligibility",
               "calculate_price_delta", "customer_confirmation", "confirm_consent",
               "risk_review", "human_review", "prepare_change_request", "complete"}
  BY DEF PlanChange, PlanSteps
<1>3. /\ Unknown = {} /\ First = "read_limited_profile" /\ Prepare = "prepare_change_request"
      /\ FromSteps = <<"customer_confirmation", "risk_review", "human_review">>
      /\ HasRef = {x \in Steps : Type[x] \in {"tool", "policy"}}
  BY DEF PlanChange
<1>4. \A x \in Steps \ {"risk_review"} : OnFailure[x] \in {"stop", NoId}
  BY <1>1, <1>2 DEF PlanSteps
<1>5. "stop" \notin Steps /\ NoId \notin Steps /\ NoId # "stop"
  BY EngineAssumption
<1> QED
  BY <1>1, <1>2, <1>3, <1>4, <1>5 DEF PlanSteps

\* What a history recounts when it has one more record
LEMMA Recounting ==
  ASSUME NEW h \in Seq(Records), NEW y \in Steps, NEW oc \in RecordOutcomes
  PROVE  /\ Append(h, Entry(y, oc)) \in Seq(Records)
         /\ \A x, S : Recounts(h, x, S) => Recounts(Append(h, Entry(y, oc)), x, S)
         /\ \A S : oc \in S => Recounts(Append(h, Entry(y, oc)), y, S)
         /\ oc # "approved" \/ y \notin Confirmers =>
              \A c : Latest(h, c) => Latest(Append(h, Entry(y, oc)), c)
         /\ oc = "approved" => Latest(Append(h, Entry(y, oc)), y)
<1> DEFINE e == Entry(y, oc)
           g == Append(h, e)
<1>1. e \in Records /\ e.step = y /\ e.outcome = oc
  BY DEF Records, Entry
<1> HIDE DEF e
<1>2. /\ g \in Seq(Records) /\ DOMAIN g = 1 .. Len(h) + 1 /\ DOMAIN h = 1 .. Len(h)
      /\ Len(h) \in Nat /\ g[Len(h) + 1] = e
      /\ \A i \in 1 .. Len(h) : g[i] = h[i]
  BY <1>1
<1> HIDE DEF g
<1>3. \A i \in DOMAIN g : (i \in DOMAIN h /\ i < Len(h) + 1) \/ i = Len(h) + 1
  BY <1>2
<1>4. \A i \in DOMAIN h : i \in DOMAIN g
  BY <1>2
<1>5. ASSUME NEW x, NEW S, Recounts(h, x, S) PROVE Recounts(g, x, S)
  BY <1>2, <1>4, <1>5 DEF Recounts
<1>6. ASSUME NEW S, oc \in S PROVE Recounts(g, y, S)
  BY <1>1, <1>2, <1>6 DEF Recounts
<1>7. ASSUME oc # "approved" \/ y \notin Confirmers, NEW c, Latest(h, c) PROVE Latest(g, c)
  <2>1. PICK i \in DOMAIN h :
          /\ h[i].step = c /\ h[i].outcome = "approved"
          /\ \A j \in DOMAIN h : i < j /\ h[j].outcome = "approved" => h[j].step \notin Confirmers
    BY <1>7 DEF Latest
  <2>2. /\ i \in DOMAIN g /\ g[i] = h[i]
        /\ \A j \in DOMAIN g : i < j /\ g[j].outcome = "approved" => g[j].step \notin Confirmers
    BY <1>1, <1>2, <1>3, <1>4, <1>7, <2>1
  <2> QED
    BY <2>1, <2>2 DEF Latest
<1>8. ASSUME oc = "approved" PROVE Latest(g, y)
  <2>1. Len(h) + 1 \in DOMAIN g /\ \A j \in DOMAIN g : ~(Len(h) + 1 < j)
    BY <1>2
  <2> QED
    BY <1>1, <1>2, <1>8, <2>1 DEF Latest
<1> QED
  BY <1>2, <1>5, <1>6, <1>7, <1>8 DEF g, e

\* A record that confirms nothing leaves what is behind the run.
LEMMA StaysBehind ==
  ASSUME NEW h \in Seq(Records), NEW y \in Steps, NEW oc \in RecordOutcomes, NEW x, NEW e, NEW r,
         Before(x, h, e, r), oc # "approved" \/ y \notin Confirmers
  PROVE  Before(x, Append(h, Entry(y, oc)), e, r)
<1> DEFINE g == Append(h, Entry(y, oc))
<1>1. /\ \A z, S : Recounts(h, z, S) => Recounts(g, z, S)
      /\ \A c : Latest(h, c) => Latest(g, c)
  BY Recounting
<1> HIDE DEF g
<1>2. Gated(g, x)
  BY <1>1 DEF Before, Gated
<1>3. Confirmed(g, e, r, x)
  BY <1>1 DEF Before, Confirmed
<1> QED
  BY <1>2, <1>3 DEF Before, g

\* A tool or a policy step that is completed leads to what may come next.
LEMMA AfterWork ==
  ASSUME PlanChange, NEW h \in Seq(Records), NEW x \in Steps, Type[x] \in {"tool", "policy"},
         NEW e, NEW r, Before(x, h, e, r), x # Prepare
  PROVE  /\ OnSuccess[x] \in Steps
         /\ Before(OnSuccess[x], Append(h, Entry(x, "completed")), e, r)
<1> DEFINE g == Append(h, Entry(x, "completed"))
<1>1. "completed" \in RecordOutcomes
  BY DEF RecordOutcomes
<1>2. /\ \A z, S : Recounts(h, z, S) => Recounts(g, z, S)
      /\ \A c : Latest(h, c) => Latest(g, c)
      /\ \A S : "completed" \in S => Recounts(g, x, S)
  BY <1>1, Recounting
<1>3. x \in {"read_limited_profile", "verify_data_access", "check_eligibility",
             "calculate_price_delta", "confirm_consent", "risk_review"}
  BY PlanFacts
<1> HIDE DEF g
<1>4. Gated(g, OnSuccess[x])
  BY <1>2, <1>3, PlanFacts DEF Before, Gated
<1>5. Confirmed(g, e, r, OnSuccess[x])
  BY <1>2, <1>3, PlanFacts DEF Before, Confirmed, Confirmers
<1> QED
  BY <1>3, <1>4, <1>5, PlanFacts DEF Before, g

\* One that is not leads to the end, or from risk_review to a person.
LEMMA AfterRefusal ==
  ASSUME PlanChange, NEW h \in Seq(Records), NEW x \in Steps,
         NEW oc \in {"failed", "denied"}, NEW e, NEW r, Before(x, h, e, r),
         OnFailure[x] \in Steps
  PROVE  Before(OnFailure[x], Append(h, Entry(x, oc)), e, r)
<1>1. x = "risk_review" /\ OnFailure[x] = "human_review"
  BY PlanFacts
<1>2. Before("human_review", h, e, r)
  BY <1>1 DEF Before, Gated, Confirmed
<1>3. oc \in RecordOutcomes /\ oc # "approved"
  BY DEF RecordOutcomes
<1> QED
  BY <1>1, <1>2, <1>3, StaysBehind

\* The request is prepared from the evidence of the last who confirmed it.
LEMMA AfterPrepare ==
  ASSUME PlanChange, Exchanged, NEW h \in Seq(Records), NEW r,
         Before("prepare_change_request", h, evidence, r)
  PROVE  /\ Gathered # NoId
         /\ Before("complete", Append(h, Entry("prepare_change_request", "completed")),
                   evidence, Gathered)
<1>1. PICK c \in Confirmers : Latest(h, c) /\ Shows(evidence, c)
  BY DEF Before, Confirmed
<1>2. DOMAIN FromSteps = 1 .. 3 /\ FromSteps[1] = "customer_confirmation"
      /\ FromSteps[2] = "risk_review" /\ FromSteps[3] = "human_review"
  BY PlanFacts
<1>3. Given # {}
  BY <1>1, <1>2 DEF Given, Shows, Confirmers
<1>4. PICK k \in Given : (\A j \in Given : j <= k) /\ Gathered = evidence[FromSteps[k]]
  BY <1>3, GatheredOk
<1>5. FromSteps[k] = c
  <2>1. k \in 1 .. 3 /\ \A j \in 1 .. 3 : evidence[FromSteps[j]] # NoId => j <= k
    BY <1>2, <1>4 DEF Given
  <2>2. evidence[FromSteps[k]] # NoId
    BY DEF Given
  <2>3. CASE c = "customer_confirmation"
    BY <1>1, <1>2, <2>1, <2>2, <2>3 DEF Shows
  <2>4. CASE c = "risk_review"
    <3>1. ~(2 <= 1) /\ 2 \in 1 .. 3
      OBVIOUS
    <3> QED
      BY <1>1, <1>2, <2>1, <2>2, <2>4, <3>1 DEF Shows
  <2>5. CASE c = "human_review"
    <3>1. ~(3 <= 1) /\ ~(3 <= 2) /\ 3 \in 1 .. 3
      OBVIOUS
    <3> QED
      BY <1>1, <1>2, <2>1, <2>2, <2>5, <3>1 DEF Shows
  <2> QED
    BY <2>3, <2>4, <2>5 DEF Confirmers
<1>6. c \in Steps
  BY PlanFacts DEF Confirmers
<1>7. Gathered = Role[c] /\ Role[c] # NoId
  BY <1>1, <1>4, <1>5, <1>6 DEF Exchanged, Shows
<1>8. Before("complete", h, evidence, Gathered)
  <2>1. Gated(h, "complete")
    BY DEF Before, Gated
  <2>2. Confirmed(h, evidence, Gathered, "complete")
    BY <1>1, <1>7 DEF Confirmed
  <2> QED
    BY <2>1, <2>2 DEF Before
<1>9. "prepare_change_request" \in Steps /\ "completed" \in RecordOutcomes
  BY PlanFacts DEF RecordOutcomes
<1> QED
  BY <1>7, <1>8, <1>9, StaysBehind

\* A person who approves lets the run go on, and is the last who confirmed.
LEMMA AfterApproval ==
  ASSUME PlanChange, Exchanged, NEW h \in Seq(Records), NEW x \in Steps,
         Type[x] \in {"policy", "approval"}, NEW r, Before(x, h, evidence, r)
  PROVE  /\ OnSuccess[x] \in Steps
         /\ Before(OnSuccess[x], Append(h, Entry(x, "approved")),
                   [evidence EXCEPT ![x] = Role[x]], r)
<1> DEFINE g == Append(h, Entry(x, "approved"))
           e == [evidence EXCEPT ![x] = Role[x]]
<1>1. "approved" \in RecordOutcomes
  BY DEF RecordOutcomes
<1>2. /\ \A z, S : Recounts(h, z, S) => Recounts(g, z, S)
      /\ \A S : "approved" \in S => Recounts(g, x, S)
      /\ Latest(g, x)
      /\ x \notin Confirmers => \A c : Latest(h, c) => Latest(g, c)
  BY <1>1, Recounting
<1>3. /\ e[x] = Role[x] /\ Role[x] # NoId
      /\ \A y \in Steps : y # x => e[y] = evidence[y]
  BY DEF Exchanged
<1>4. x \in {"verify_data_access", "customer_confirmation", "confirm_consent", "risk_review",
             "human_review"}
  BY PlanFacts
<1> HIDE DEF g, e
<1>5. Gated(g, OnSuccess[x])
  BY <1>2, <1>4, PlanFacts DEF Before, Gated
<1>6. Confirmers \subseteq Steps
  BY PlanFacts DEF Confirmers
<1>7. r = NoId
  BY <1>4 DEF Before, Confirmed
<1>8. Confirmed(g, e, r, OnSuccess[x])
  <2>1. CASE x = "verify_data_access"
    <3>1. OnSuccess[x] = "check_eligibility" /\ \A c \in Confirmers : c # x
      BY <2>1, PlanFacts DEF Confirmers
    <3>2. \A c \in Confirmers : evidence[c] = NoId
      BY <2>1 DEF Before, Confirmed
    <3> QED
      BY <1>3, <1>6, <1>7, <3>1, <3>2 DEF Confirmed
  <2>2. CASE x = "customer_confirmation"
    <3>1. OnSuccess[x] = "confirm_consent" /\ "risk_review" \in Steps /\ "human_review" \in Steps
      BY <2>2, PlanFacts
    <3>2. evidence["risk_review"] = NoId /\ evidence["human_review"] = NoId
      BY <2>2 DEF Before, Confirmed, Confirmers
    <3>3. Shows(e, x)
      BY <1>3, <2>2, <3>1, <3>2 DEF Shows
    <3> QED
      BY <1>2, <1>7, <2>2, <3>1, <3>3 DEF Confirmed
  <2>3. CASE x = "confirm_consent"
    <3>1. OnSuccess[x] = "risk_review" /\ x \notin Confirmers
      BY <2>3, PlanFacts DEF Confirmers
    <3>2. Latest(h, "customer_confirmation") /\ Shows(evidence, "customer_confirmation")
      BY <2>3 DEF Before, Confirmed
    <3>3. Shows(e, "customer_confirmation")
      BY <1>3, <1>6, <3>1, <3>2 DEF Shows, Confirmers
    <3> QED
      BY <1>2, <1>7, <3>1, <3>2, <3>3 DEF Confirmed
  <2>4. CASE x = "risk_review"
    <3>1. /\ OnSuccess[x] = "prepare_change_request" /\ x \in Confirmers
          /\ "human_review" \in Steps
      BY <2>4, PlanFacts DEF Confirmers
    <3>2. evidence["human_review"] = NoId
      BY <2>4 DEF Before, Confirmed, Shows
    <3>3. Shows(e, x)
      BY <1>3, <2>4, <3>1, <3>2 DEF Shows
    <3> QED
      BY <1>2, <1>7, <3>1, <3>3 DEF Confirmed
  <2>5. CASE x = "human_review"
    <3>1. OnSuccess[x] = "prepare_change_request" /\ x \in Confirmers
      BY <2>5, PlanFacts DEF Confirmers
    <3>2. Shows(e, x)
      BY <1>3, <2>5 DEF Shows
    <3> QED
      BY <1>2, <1>7, <3>1, <3>2 DEF Confirmed
  <2> QED
    BY <1>4, <2>1, <2>2, <2>3, <2>4, <2>5
<1> QED
  BY <1>4, <1>5, <1>8, PlanFacts DEF Before, g, e

\* One who rejects ends the run, or from risk_review passes it to another.
LEMMA AfterRejection ==
  ASSUME PlanChange, NEW h \in Seq(Records), NEW x \in Steps, NEW e, NEW f, NEW r,
         Before(x, h, e, r), OnFailure[x] \in Steps
  PROVE  Before(OnFailure[x], Append(h, Entry(x, "rejected")), f, r)
<1>1. x = "risk_review" /\ OnFailure[x] = "human_review"
  BY PlanFacts
<1>2. Before("human_review", h, f, r)
  BY <1>1 DEF Before, Gated, Confirmed
<1>3. "rejected" \in RecordOutcomes
  BY DEF RecordOutcomes
<1> QED
  BY <1>1, <1>2, <1>3, StaysBehind

\* What a call may come to, when no other is under way
Fine(l, x, h, s, w) ==
  /\ l \in {"lookup", "calling", "fetching", "evaluating", "returning"} /\ x \in Steps =>
       s = "running" /\ Before(x, h, evidence', request')
  /\ s = "waiting_for_approval" =>
       /\ w \in {y \in Steps : Type[y] \in {"policy", "approval"}}
       /\ Before(w, h, evidence', request')
  /\ request' # NoId =>
       /\ Before("complete", h, evidence', request')
       /\ s = "completed" \/ (l = "returning" /\ x = "complete")

LEMMA PlanGoes ==
  ASSUME JourneyInv, NEW p \in Procs, \A q \in Procs \ {p} : ~Active(q),
         NEW l, NEW x, NEW h, NEW s, NEW w, Goes(p, l, x, h, s, w), Fine(l, x, h, s, w)
  PROVE  PlanInv'
<1>1. /\ pc'[p] = l /\ at'[p] = x
      /\ \A q \in Procs \ {p} : pc'[q] = pc[q]
  <2>1. DOMAIN pc = Procs /\ DOMAIN at = Procs
    BY DEF JourneyInv, EngineInv, TypeOK
  <2>2. pc' = [pc EXCEPT ![p] = l] /\ at' = [at EXCEPT ![p] = x]
    BY DEF Goes
  <2> QED
    BY <2>1, <2>2
<1>2. /\ History' = h /\ runs'[Journey].status = s /\ runs'[Journey].pending = w
  BY DEF Goes, History
<1>3. \A q \in Procs : Under(q)' => q = p
  BY <1>1 DEF Under, Active
<1>4. ASSUME NEW q \in Procs, Under(q)'
      PROVE  s = "running" /\ Before(at'[q], History', evidence', request')
  BY <1>1, <1>2, <1>3, <1>4 DEF Fine, Under
<1>5. ASSUME s = "waiting_for_approval"
      PROVE  /\ w \in {y \in Steps : Type[y] \in {"policy", "approval"}}
             /\ Before(w, History', evidence', request')
  BY <1>2, <1>5 DEF Fine
<1>6. ASSUME request' # NoId
      PROVE  /\ Before("complete", History', evidence', request')
             /\ s = "completed" \/ Finished'
  BY <1>1, <1>2, <1>6 DEF Fine, Finished
<1> QED
  BY <1>2, <1>4, <1>5, <1>6 DEF PlanInv

LEMMA PlanArrives ==
  ASSUME PlanChange, JourneyInv, NEW p \in Procs, \A q \in Procs \ {p} : ~Active(q),
         NEW id \in Ids, NEW h \in Seq(Records), NEW s, NEW w, Arrives(p, id, h, s, w),
         Fine("returning", id, h, s, w)
  PROVE  PlanInv'
<1>1. CASE id \in Steps
  <2>1. s = "running" /\ Before(id, h, evidence', request')
    BY <1>1 DEF Fine
  <2>2. request' # NoId => id = "complete"
    BY <2>1 DEF Fine
  <2>3. CASE Type[id] \in {"tool", "policy"}
    <3>1. id \in HasRef /\ id # "complete"
      BY <1>1, <2>3, PlanFacts
    <3>2. \/ Goes(p, "lookup", id, h, s, w)
          \/ Goes(p, "fetching", id, h, s, w)
      <4>1. ~Ends(id) /\ id \notin Unknown
        BY <1>1, PlanFacts DEF Ends
      <4> QED
        BY <2>3, <3>1, <4>1 DEF Arrives
    <3>3. Fine("lookup", id, h, s, w) /\ Fine("fetching", id, h, s, w)
      BY <2>1, <2>2, <3>1 DEF Fine
    <3> QED
      BY <3>2, <3>3, PlanGoes
  <2>4. CASE Type[id] = "approval"
    <3>1. Goes(p, "pausing", id, h, "waiting_for_approval", id) /\ id # "complete"
      <4>1. ~Ends(id) /\ id \notin Unknown /\ id # "complete"
        BY <1>1, <2>4, PlanFacts DEF Ends
      <4> QED
        BY <2>4, <4>1 DEF Arrives
    <3>2. Fine("pausing", id, h, "waiting_for_approval", id)
      BY <1>1, <2>1, <2>2, <2>4, <3>1 DEF Fine
    <3> QED
      BY <3>1, <3>2, PlanGoes
  <2>5. CASE Type[id] = "completion"
    <3>1. id = "complete"
      BY <1>1, <2>5, PlanFacts
    <3> DEFINE g == Append(h, Entry(id, "completed"))
    <3>2. Goes(p, "done", id, g, "completed", w)
      <4>1. ~Ends(id) /\ id \notin Unknown
        BY <1>1, PlanFacts DEF Ends
      <4> QED
        BY <2>5, <4>1 DEF Arrives
    <3>3. Before("complete", g, evidence', request')
      <4>1. "completed" \in RecordOutcomes
        BY DEF RecordOutcomes
      <4> QED
        BY <1>1, <2>1, <3>1, <4>1, StaysBehind
    <3> HIDE DEF g
    <3>4. Fine("done", id, g, "completed", w)
      BY <3>3 DEF Fine
    <3> QED
      BY <3>2, <3>4, PlanGoes
  <2> QED
    BY <1>1, <2>3, <2>4, <2>5, PlanFacts
<1>2. CASE id \notin Steps
  <2> DEFINE t == IF s = "running" THEN "completed" ELSE s
  <2>1. Goes(p, "done", id, h, t, w)
    BY <1>2, PlanFacts DEF Arrives
  <2>2. Fine("done", id, h, t, w)
    <3>1. id # "complete"
      BY <1>2, PlanFacts
    <3> QED
      BY <3>1 DEF Fine
  <2> HIDE DEF t
  <2> QED
    BY <2>1, <2>2, PlanGoes
<1> QED
  BY <1>1, <1>2

LEMMA PlanBegins ==
  ASSUME PlanChange, JourneyInv, NEW id \in Ids, Begins(id)
  PROVE  PlanInv'
<1>1. /\ History = <<>> /\ request = NoId /\ evidence = [x \in Steps |-> NoId]
      /\ UNCHANGED <<evidence, request>> /\ Journey \in Procs
      /\ \A q \in Procs : ~Active(q)
      /\ Arrives(Journey, id, History, "running", NoId)
      /\ id = First \/ id = NoId
  BY MoverIsAlone DEF Begins, JourneyInv, Quiet, Procs
<1>2. Fine("returning", id, History, "running", NoId)
  <2>1. CASE id = First
    <3>1. id = "read_limited_profile" /\ Confirmers \subseteq Steps
      BY <2>1, PlanFacts DEF Confirmers
    <3>2. Before(id, History, evidence', request')
      BY <1>1, <3>1 DEF Before, Gated, Confirmed
    <3> QED
      BY <1>1, <3>2 DEF Fine
  <2>2. CASE id = NoId
    <3>1. id \notin Steps
      BY <2>2, PlanFacts
    <3> QED
      BY <1>1, <3>1 DEF Fine
  <2> QED
    BY <1>1, <2>1, <2>2
<1>3. History \in Seq(Records)
  BY HistoryIs DEF JourneyInv, EngineInv
<1> QED
  BY <1>1, <1>2, <1>3, PlanArrives

LEMMA PlanDecides ==
  ASSUME PlanChange, JourneyInv, PlanInv, NEW p \in Procs, NEW x \in Steps,
         NEW approved \in BOOLEAN, Decides(p, x, approved)
  PROVE  PlanInv'
<1> DEFINE next == IF approved THEN OnSuccess[x] ELSE OnFailure[x]
           g == Noted(x, IF approved THEN "approved" ELSE "rejected")
<1>1. /\ Type[x] \in {"policy", "approval"} /\ Before(x, History, evidence, request)
      /\ evidence' = [evidence EXCEPT ![x] = Role[x]] /\ request' = request
      /\ \A q \in Procs : ~Active(q)
      /\ \/ /\ Ends(next)
            /\ Goes(p, "done", next, g, IF approved THEN "completed" ELSE "failed", NoId)
         \/ ~Ends(next) /\ Arrives(p, next, g, "running", NoId)
  BY MoverIsAlone DEF Decides, PlanInv
<1>2. /\ Exchanged /\ History \in Seq(Records) /\ next \in Ids
  <2>1. OnSuccess[x] \in Ids /\ OnFailure[x] \in Ids
    BY EngineAssumption
  <2> QED
    BY <2>1, HistoryIs DEF JourneyInv, EngineInv
<1>3. x # "complete" /\ request = NoId
  <2>1. x # "complete"
    BY <1>1, PlanFacts
  <2> QED
    BY <1>1, <2>1 DEF Before, Confirmed
<1>4. g \in Seq(Records)
  <2>1. {"approved", "rejected"} \subseteq RecordOutcomes
    BY DEF RecordOutcomes
  <2> QED
    BY <1>2, <2>1, Recounting DEF Noted
<1>5. CASE approved
  <2>1. /\ OnSuccess[x] \in Steps
        /\ Before(OnSuccess[x], g, evidence', request')
    BY <1>1, <1>2, <1>5, AfterApproval DEF Noted
  <2>2. ~Ends(next) /\ next = OnSuccess[x]
    BY <1>5, <2>1, PlanFacts DEF Ends
  <2> HIDE DEF g, next
  <2>3. Fine("returning", next, g, "running", NoId)
    BY <1>1, <1>3, <2>1, <2>2 DEF Fine
  <2> QED
    BY <1>1, <1>2, <1>4, <2>2, <2>3, PlanArrives
<1>6. CASE ~approved
  <2>1. next = OnFailure[x] /\ (next \in Steps => Before(next, g, evidence', request'))
    BY <1>1, <1>2, <1>6, AfterRejection DEF Noted
  <2> HIDE DEF g, next
  <2>2. CASE Ends(next)
    <3>1. Goes(p, "done", next, g, "failed", NoId)
      BY <1>1, <1>6, <2>2
    <3>2. Fine("done", next, g, "failed", NoId)
      BY <1>1, <1>3 DEF Fine
    <3> QED
      BY <1>1, <3>1, <3>2, PlanGoes
  <2>3. CASE ~Ends(next)
    <3>1. Fine("returning", next, g, "running", NoId)
      BY <1>1, <1>3, <2>1 DEF Fine
    <3> QED
      BY <1>1, <1>2, <1>4, <2>3, <3>1, PlanArrives
  <2> QED
    BY <2>2, <2>3
<1> QED
  BY <1>5, <1>6

LEMMA PlanWorks ==
  ASSUME PlanChange, JourneyInv, PlanInv, NEW p \in Procs, WorksOn(p)
  PROVE  PlanInv'
<1> DEFINE x == at[p]
           s == runs[Journey].status
           w == runs[Journey].pending
<1>1. /\ WorksAt(p, x, s, w) /\ Fits(pc[p], x) /\ x \in Ids
      /\ evidence' = evidence
      /\ request' = IF pc[p] = "calling" /\ x = Prepare THEN Gathered ELSE request
      /\ \A q \in Procs \ {p} : ~Active(q)
      /\ pc[p] \in AtStep => x \in Steps
  BY MoverIsAlone DEF WorksOn, JourneyInv, Placed, EngineInv, TypeOK, Owned
<1>2. /\ Exchanged /\ History \in Seq(Records)
      /\ {"completed", "failed", "denied", "waiting"} \subseteq RecordOutcomes
  BY HistoryIs DEF JourneyInv, EngineInv, RecordOutcomes
<1>3. /\ Under(p) => s = "running" /\ Before(x, History, evidence, request)
      /\ s = "waiting_for_approval" =>
           /\ w \in {y \in Steps : Type[y] \in {"policy", "approval"}}
           /\ Before(w, History, evidence, request)
      /\ request # NoId =>
           /\ Before("complete", History, evidence, request)
           /\ s = "completed" \/ (pc[p] = "returning" /\ x = "complete")
  <2>1. Finished => pc[p] = "returning" /\ x = "complete"
    BY <1>1 DEF Finished, Active
  <2> QED
    BY <2>1 DEF PlanInv
<1>4. pc[p] \in {"lookup", "calling", "fetching", "evaluating"} =>
        /\ x \in Steps /\ s = "running" /\ Before(x, History, evidence, request)
        /\ request = NoId
  <2>1. pc[p] \in {"lookup", "calling", "fetching", "evaluating"} => Under(p) /\ x \in Steps
    BY <1>1 DEF Under, AtStep
  <2> QED
    BY <1>3, <2>1
<1> HIDE DEF x, s, w
<1>5. CASE pc[p] = "returning" /\ Arrives(p, x, History, s, w)
  <2>1. request' = request
    BY <1>1, <1>5
  <2>2. x \in Steps => s = "running" /\ Before(x, History, evidence, request)
    BY <1>3, <1>5 DEF Under, x
  <2>3. Fine("returning", x, History, s, w)
    BY <1>1, <1>3, <2>1, <2>2 DEF Fine
  <2> QED
    BY <1>1, <1>2, <1>5, <2>3, PlanArrives
<1>6. CASE pc[p] = "pausing" /\ Goes(p, "done", x, History, s, w)
  <2>1. request' = request
    BY <1>1, <1>6
  <2>2. Fine("done", x, History, s, w)
    BY <1>1, <1>3, <1>6, <2>1 DEF Fine
  <2> QED
    BY <1>1, <1>6, <2>2, PlanGoes
<1>7. CASE \/ pc[p] = "lookup" /\ Goes(p, "calling", x, History, s, w)
           \/ pc[p] = "fetching" /\ Goes(p, "evaluating", x, History, s, w)
  <2>1. request' = request
    BY <1>1, <1>7
  <2>2. Fine("calling", x, History, s, w) /\ Fine("evaluating", x, History, s, w)
    BY <1>1, <1>4, <1>7, <2>1 DEF Fine
  <2> QED
    BY <1>1, <1>7, <2>2, PlanGoes
<1>8. ASSUME NEW oc \in {"failed", "denied"}, NEW t,
             pc[p] \in {"lookup", "fetching", "evaluating"},
             t \in {s, "failed"}, OnFailure[x] \in Steps => t = s,
             Goes(p, "returning", OrStop(OnFailure[x]), Noted(x, oc), t, w)
      PROVE  PlanInv'
  <2> DEFINE y == OrStop(OnFailure[x])
             g == Noted(x, oc)
  <2>1. request' = NoId /\ t \in {"running", "failed"}
    BY <1>1, <1>4, <1>8
  <2>2. y \in Steps => y = OnFailure[x]
    BY PlanFacts DEF OrStop
  <2>3. y \in Steps => Before(y, g, evidence, request)
    BY <1>2, <1>4, <1>8, <2>2, AfterRefusal DEF Noted
  <2> HIDE DEF y, g
  <2>4. Fine("returning", y, g, t, w)
    BY <1>1, <1>4, <1>8, <2>1, <2>2, <2>3 DEF Fine
  <2>5. Goes(p, "returning", y, g, t, w)
    BY <1>8 DEF y, g
  <2> QED
    BY <1>1, <2>4, <2>5, PlanGoes
<1>9. ASSUME pc[p] \in {"calling", "evaluating"},
             Goes(p, "returning", OnSuccess[x], Noted(x, "completed"), s, w)
      PROVE  PlanInv'
  <2> DEFINE g == Noted(x, "completed")
  <2>1. Type[x] \in {"tool", "policy"}
    BY <1>1, <1>9 DEF Fits
  <2>2. CASE x = Prepare
    <3>1. pc[p] = "calling" /\ x = "prepare_change_request" /\ OnSuccess[x] = "complete"
      BY <1>1, <1>9, <2>2, PlanFacts DEF Fits
    <3>2. request' = Gathered
      BY <1>1, <2>2, <3>1
    <3>3. Before("complete", g, evidence', request')
      BY <1>1, <1>2, <1>4, <3>1, <3>2, AfterPrepare DEF Noted
    <3> HIDE DEF g
    <3>4. Fine("returning", "complete", g, s, w)
      BY <1>4, <3>1, <3>3 DEF Fine
    <3> QED
      BY <1>1, <1>9, <3>1, <3>4, PlanGoes DEF g
  <2>3. CASE x # Prepare
    <3>1. request' = NoId /\ request = NoId
      BY <1>1, <1>4, <1>9, <2>3
    <3>2. Before(OnSuccess[x], g, evidence, request)
      BY <1>2, <1>4, <1>9, <2>1, <2>3, AfterWork DEF Noted
    <3> HIDE DEF g
    <3>3. Fine("returning", OnSuccess[x], g, s, w)
      BY <1>1, <1>4, <1>9, <3>1, <3>2 DEF Fine
    <3> QED
      BY <1>1, <1>9, <3>3, PlanGoes DEF g
  <2> QED
    BY <2>2, <2>3
<1>10. CASE pc[p] = "evaluating" /\ Goes(p, "parking", x, Noted(x, "waiting"), "waiting_for_approval", x)
  <2> DEFINE g == Noted(x, "waiting")
  <2>1. Type[x] = "policy" /\ x \in Steps /\ Before(x, History, evidence, request) /\ request = NoId
    BY <1>1, <1>4, <1>10 DEF Fits
  <2>2. Before(x, g, evidence, request)
    BY <1>2, <2>1, StaysBehind DEF Noted
  <2> HIDE DEF g
  <2>3. Fine("parking", x, g, "waiting_for_approval", x)
    BY <1>1, <1>10, <2>1, <2>2 DEF Fine
  <2> QED
    BY <1>1, <1>10, <2>3, PlanGoes DEF g
<1>11. CASE pc[p] = "parking" /\ Goes(p, "returning", NoId, History, s, w)
  <2>1. request' = request /\ NoId \notin Steps
    BY <1>1, <1>11, PlanFacts
  <2>2. Fine("returning", NoId, History, s, w)
    BY <1>1, <1>3, <1>11, <2>1 DEF Fine
  <2> QED
    BY <1>1, <1>11, <2>2, PlanGoes
<1>12. OnFailure[x] \in Steps => ~Ends(OnFailure[x])
  BY PlanFacts DEF Ends
<1>13. CASE /\ \/ pc[p] = "fetching" /\ ~HasPolicy(x)
               \/ pc[p] = "evaluating" /\ Decision(x) # "allow"
            /\ \E outcome \in {"failed", "denied"} :
                 /\ outcome = "failed" => pc[p] = "fetching"
                 /\ Goes(p, "returning", OrStop(OnFailure[x]), Noted(x, outcome),
                         IF Ends(OnFailure[x]) THEN "failed" ELSE s, w)
  <2>1. PICK oc \in {"failed", "denied"} :
          Goes(p, "returning", OrStop(OnFailure[x]), Noted(x, oc),
               IF Ends(OnFailure[x]) THEN "failed" ELSE s, w)
    BY <1>13
  <2> QED
    BY <1>8, <1>12, <1>13, <2>1
<1>14. CASE /\ pc[p] = "lookup" /\ ~HasTool(x)
            /\ Goes(p, "returning", OrStop(OnFailure[x]), Noted(x, "failed"), s, w)
  BY <1>8, <1>14
<1> QED
  BY <1>1, <1>5, <1>6, <1>7, <1>9, <1>10, <1>11, <1>13, <1>14 DEF WorksAt

LEMMA PlanStep ==
  ASSUME PlanChange, JourneyInv, PlanInv, [JourneyNext]_journeyVars
  PROVE  PlanInv'
<1>1. Moves
  BY JourneyStep
<1>2. CASE Rests
  BY <1>2 DEF Rests, PlanInv, Under, Finished, History, vars
<1> QED
  BY <1>1, <1>2, PlanBegins, PlanDecides, PlanWorks DEF Moves

LEMMA PlanCorrect == ASSUME PlanChange PROVE JourneySpec => []PlanInv
<1>1. JourneyInit => PlanInv
  <2> SUFFICES ASSUME JourneyInit PROVE PlanInv
    OBVIOUS
  <2>1. /\ \A p \in Procs : pc[p] = "idle"
        /\ runs[Journey].status = "none" /\ request = NoId
    BY DEF JourneyInit, Init
  <2> QED
    BY <2>1 DEF PlanInv, Under
<1>2. JourneyInv /\ PlanInv /\ [JourneyNext]_journeyVars => PlanInv'
  BY PlanStep
<1> QED
  BY <1>1, <1>2, JourneyCorrect, PTL DEF JourneySpec

\* In the plan change no request is prepared without the confirmation of the
\* customer and every gate before it, whatever the files, the input and the
\* approvers say: _executeFrom() has no way around them.
THEOREM PreparedCorrect == ASSUME PlanChange PROVE JourneySpec => []PreparedIsAuthorised
<1>1. PlanInv => PreparedIsAuthorised
  BY DEF PlanInv, Before, Gated, Recounts, PreparedIsAuthorised, Outcome
<1> QED
  BY <1>1, PlanCorrect, PTL

\* What _gatherInputs() merges last names the one who decided last: the order
\* of from_steps is that of the decisions.
THEOREM ApproverCorrect == ASSUME PlanChange PROVE JourneySpec => []RequestNamesApprover
<1>1. JourneyInv /\ PlanInv => RequestNamesApprover
  <2> SUFFICES ASSUME JourneyInv, PlanInv, request # NoId
               PROVE  \E i \in DOMAIN History :
                        /\ History[i].outcome = "approved"
                        /\ \E k \in DOMAIN FromSteps : FromSteps[k] = History[i].step
                        /\ request = Role[History[i].step]
                        /\ \A j \in i + 1 .. Len(History) :
                             History[j].outcome = "approved" =>
                               \A k \in DOMAIN FromSteps : FromSteps[k] # History[j].step
    BY DEF RequestNamesApprover
  <2>1. PICK c \in Confirmers : Latest(History, c) /\ request = Role[c]
    BY DEF PlanInv, Before, Confirmed
  <2>2. PICK i \in DOMAIN History :
          /\ History[i].step = c /\ History[i].outcome = "approved"
          /\ \A j \in DOMAIN History :
               i < j /\ History[j].outcome = "approved" => History[j].step \notin Confirmers
    BY <2>1 DEF Latest
  <2>3. \A y : (\E k \in DOMAIN FromSteps : FromSteps[k] = y) <=> y \in Confirmers
    <3>1. FromSteps = <<"customer_confirmation", "risk_review", "human_review">>
      BY PlanFacts
    <3> QED
      BY <3>1 DEF Confirmers
  <2>4. ASSUME NEW j \in i + 1 .. Len(History) PROVE j \in DOMAIN History /\ i < j
    <3>1. History \in Seq(Records)
      BY HistoryIs DEF JourneyInv, EngineInv
    <3>2. DOMAIN History = 1 .. Len(History) /\ Len(History) \in Nat
      BY <3>1, LenProperties
    <3> QED
      BY <3>2
  <2> QED
    BY <2>1, <2>2, <2>3, <2>4
<1> QED
  BY <1>1, JourneyCorrect, PlanCorrect, PTL

-----------------------------------------------------------------------------
(* What the scripts have passed *)

Unnamed == ""

LEMMA LoadedFile ==
  ASSUME NEW files, NEW kind, NEW i \in OfKind(files, kind),
         files[i].id # Absent, files[i].id # Unnamed
  PROVE  i \in LoadAll(files, kind)
BY Zenon DEF LoadAll, Unnamed

\* The references of the workflow, as RefsAssumption has them
Names(m, field, type) ==
  /\ DOMAIN List(m, field) = {x \in HasRef : Type[x] = type}
  /\ Unnamed \notin Range(List(m, field))

LEMMA WorkflowNames ==
  ASSUME NEW b \in DOMAIN Files, NEW k \in OfKind(Files[b], "workflows"),
         Files[b][k].id = JourneyId, "steps" \in DOMAIN Files[b][k].fields
  PROVE  /\ Names(Files[b][k], "tool_ref", "tool")
         /\ Names(Files[b][k], "policy_ref", "policy")
BY RefsAssumption, Zenon DEF Names, Unnamed

\* What the scripts find under an id
LEMMA ScriptFile ==
  ASSUME NEW b \in DOMAIN Files, NEW kind
  PROVE  /\ \A id : id \in DOMAIN ById(Files[b], kind) <=>
                \E i \in OfKind(Files[b], kind) : Files[b][i].id # Absent /\ Files[b][i].id = id
         /\ \A id \in DOMAIN ById(Files[b], kind) : \E i \in OfKind(Files[b], kind) :
              ById(Files[b], kind)[id] = Files[b][i] /\ Files[b][i].id = id
<1> DEFINE files == Files[b]
           K == {i \in OfKind(files, kind) : files[i].id # Absent}
           last == LastById(files, K)
<1>1. K \in SUBSET (1 .. Len(files)) /\ Len(files) \in Nat /\ K \subseteq OfKind(files, kind)
  BY FilePositions
<1>2. \A i : i \in K <=> i \in OfKind(files, kind) /\ files[i].id # Absent
  OBVIOUS
<1>3. ById(files, kind) = last
  BY DEF ById
<1> HIDE DEF K, files
<1>4. /\ \A id : id \in DOMAIN last <=> \E i \in K : files[i].id = id
      /\ \A id \in DOMAIN last : \E i \in K : last[id] = files[i] /\ files[i].id = id
  BY <1>1, LastIsFile
<1> HIDE DEF last
<1>5. \A id : id \in DOMAIN last <=>
        \E i \in OfKind(files, kind) : files[i].id # Absent /\ files[i].id = id
  BY <1>2, <1>4
<1>6. \A id \in DOMAIN last : \E i \in OfKind(files, kind) :
        last[id] = files[i] /\ files[i].id = id
  BY <1>2, <1>4
<1> QED
  BY <1>3, <1>5, <1>6 DEF files

\* A reference that the scripts have followed leads to what is registered.
LEMMA Followed ==
  ASSUME NEW b \in DOMAIN Files, Resolves(Files[b], ReferenceLinks, {}),
         NEW kind \in DOMAIN ReferenceLinks, kind \in Kinds,
         NEW f \in DOMAIN ReferenceLinks[kind],
         NEW target \in Kinds, target = ReferenceLinks[kind][f],
         NEW id \in DOMAIN ById(Files[b], kind),
         NEW x \in DOMAIN List(ById(Files[b], kind)[id], f),
         List(ById(Files[b], kind)[id], f)[x] # Unnamed
  PROVE  List(ById(Files[b], kind)[id], f)[x] \in DOMAIN BuildRegistries(Files[b])[target]
<1> DEFINE maps  == [k \in Kinds \cup {"ui_manifests", "schemas"} |-> ById(Files[b], k)]
           names == [k \in DOMAIN maps \cup {"objects"} |->
                       IF k = "objects" THEN UNION {DOMAIN maps[y] : y \in Objects}
                       ELSE DOMAIN maps[k]]
           v == List(ById(Files[b], kind)[id], f)[x]
<1>1. "objects" \notin Kinds
  BY DEF Kinds
<1>2. \A k \in Kinds : maps[k] = ById(Files[b], k) /\ names[k] = DOMAIN ById(Files[b], k)
  BY <1>1
<1> HIDE DEF maps, names
<1>3. \A k \in DOMAIN ReferenceLinks : \A i \in names[k] : \A g \in DOMAIN ReferenceLinks[k] :
        Range(List(maps[k][i], g)) \ {} \subseteq names[ReferenceLinks[k][g]]
  BY DEF Resolves, maps, names
<1>4. Range(List(maps[kind][id], f)) \ {} \subseteq names[target]
  BY <1>2, <1>3
<1>5. v \in DOMAIN ById(Files[b], target)
  BY <1>2, <1>4 DEF Range
<1>6. PICK i \in OfKind(Files[b], target) : Files[b][i].id # Absent /\ Files[b][i].id = v
  BY <1>5, ScriptFile
<1>7. i \in LoadAll(Files[b], target)
  BY <1>6, LoadedFile
<1> QED
  BY <1>6, <1>7, RegisteredFile

\* The workflow that the demo runs is the only one of its id.
LEMMA RawWorkflow ==
  ASSUME JourneyInv, Validated, phase # "loading"
  PROVE  \E k \in OfKind(Files[bundle], "workflows") :
           /\ rawWorkflow = Files[bundle][k] /\ rawWorkflow.id = JourneyId
           /\ JourneyId \in DOMAIN ById(Files[bundle], "workflows")
           /\ ById(Files[bundle], "workflows")[JourneyId] = rawWorkflow
           /\ "steps" \in DOMAIN rawWorkflow.fields
<1> DEFINE files == Files[bundle]
           found == {i \in OfKind(files, "workflows") : files[i].id = JourneyId}
<1>1. /\ bundle \in DOMAIN Files /\ rawWorkflow = LoadRawWorkflow(files)
      /\ passed = Validate(files)
  BY DEF JourneyInv, Read
<1>2. found = {i \in DOMAIN files : files[i].kind = "workflows" /\ files[i].id = JourneyId}
  BY DEF OfKind
<1>3. Cardinality(found) = 1
  BY <1>2 DEF Validated, OneWorkflow
<1>4. IsFiniteSet(found)
  <2>1. IsFiniteSet(1 .. Len(files))
    BY <1>1, FilePositions, FS_Interval
  <2>2. found \subseteq 1 .. Len(files)
    BY <1>1, FilePositions
  <2> QED
    BY <2>1, <2>2, FS_Subset
<1>5. PICK k : found = {k}
  <2> HIDE DEF found
  <2> QED
    BY <1>3, <1>4, FS_Singleton
<1>6. k \in OfKind(files, "workflows") /\ files[k].id = JourneyId
  <2>1. k \in found
    BY <1>5
  <2> QED
    BY <2>1
<1>7. rawWorkflow = files[k]
  <2>1. (CHOOSE i \in found : \A j \in found : i <= j) = k
    <3> HIDE DEF found
    <3>1. k \in Nat
      BY <1>1, <1>6, FilePositions
    <3>2. k <= k
      BY <3>1
    <3> QED
      BY <1>5, <3>2
  <2>2. found # {}
    BY <1>5
  <2> QED
    BY <1>1, <2>1, <2>2 DEF LoadRawWorkflow
<1>8. JourneyId \in DOMAIN ById(files, "workflows")
  BY <1>1, <1>6, ScriptFile
<1>9. ById(files, "workflows")[JourneyId] = files[k]
  <2>1. PICK i \in OfKind(files, "workflows") :
          ById(files, "workflows")[JourneyId] = files[i] /\ files[i].id = JourneyId
    BY <1>1, <1>8, ScriptFile
  <2>2. i \in found
    BY <2>1
  <2> QED
    BY <1>5, <2>1, <2>2
<1>10. "steps" \in DOMAIN files[k].fields
  <2>1. Shaped(files)
    <3>1. "validate-examples" \in Validate(files)
      BY <1>1 DEF Validated
    <3>2. ExamplesPass(files)
      BY <3>1 DEF Validate
    <3> QED
      BY <3>2, Zenon DEF ExamplesPass
  <2>2. k \in DOMAIN files /\ files[k].kind = "workflows"
    BY <1>6 DEF OfKind
  <2>3. "workflows" \in DOMAIN RequiredFields /\ "steps" \in RequiredFields["workflows"]
    BY DEF RequiredFields
  <2> QED
    BY <2>1, <2>2, <2>3 DEF Shaped
<1> QED
  BY <1>6, <1>7, <1>8, <1>9, <1>10

\* In a validated example every step finds the tool or the policy it names.
LEMMA Reachable ==
  ASSUME JourneyInv, Validated, phase # "loading", NEW x \in HasRef
  PROVE  /\ Type[x] = "tool" => HasTool(x)
         /\ Type[x] = "policy" => HasPolicy(x)
<1> DEFINE files == Files[bundle]
           flow == ById(files, "workflows")[JourneyId]
<1>1. /\ bundle \in DOMAIN Files /\ passed = Validate(files)
      /\ registries = BuildRegistries(files)
  BY DEF JourneyInv, Read
<1>2. Resolves(files, ReferenceLinks, {})
  <2>1. "validate-references" \in Validate(files)
    BY <1>1 DEF Validated
  <2>2. ReferencesPass(files)
    BY <2>1 DEF Validate
  <2> QED
    BY <2>2 DEF ReferencesPass
<1>3. PICK k \in OfKind(files, "workflows") :
        /\ rawWorkflow = files[k] /\ rawWorkflow.id = JourneyId
        /\ JourneyId \in DOMAIN ById(files, "workflows")
        /\ flow = rawWorkflow
        /\ "steps" \in DOMAIN rawWorkflow.fields
  BY RawWorkflow
<1>4. /\ Names(rawWorkflow, "tool_ref", "tool")
      /\ Names(rawWorkflow, "policy_ref", "policy")
  BY <1>1, <1>3, WorkflowNames
<1>5. {"workflows", "tools", "policies"} \subseteq Kinds
  BY DEF Kinds
<1>6. /\ "workflows" \in DOMAIN ReferenceLinks
      /\ "tool_ref" \in DOMAIN ReferenceLinks["workflows"]
      /\ ReferenceLinks["workflows"]["tool_ref"] = "tools"
      /\ "policy_ref" \in DOMAIN ReferenceLinks["workflows"]
      /\ ReferenceLinks["workflows"]["policy_ref"] = "policies"
  BY DEF ReferenceLinks
<1> HIDE DEF flow, files
<1>7. ASSUME NEW f, x \in DOMAIN List(flow, f)
      PROVE  List(flow, f) = flow.fields[f]
  BY <1>7 DEF List
<1>8. ASSUME Type[x] = "tool" PROVE HasTool(x)
  <2>1. x \in DOMAIN List(flow, "tool_ref") /\ Unnamed \notin Range(List(flow, "tool_ref"))
    BY <1>3, <1>4, <1>8 DEF Names
  <2>2. List(flow, "tool_ref")[x] # Unnamed
    BY <2>1 DEF Range
  <2>3. List(flow, "tool_ref")[x] \in DOMAIN registries["tools"]
    BY <1>1, <1>2, <1>3, <1>5, <1>6, <2>1, <2>2, Followed DEF flow, files
  <2>4. List(flow, "tool_ref")[x] = ToolRef(x)
    BY <1>3, <1>7, <2>1 DEF ToolRef
  <2> QED
    BY <2>3, <2>4 DEF HasTool
<1>9. ASSUME Type[x] = "policy" PROVE HasPolicy(x)
  <2>1. x \in DOMAIN List(flow, "policy_ref") /\ Unnamed \notin Range(List(flow, "policy_ref"))
    BY <1>3, <1>4, <1>9 DEF Names
  <2>2. List(flow, "policy_ref")[x] # Unnamed
    BY <2>1 DEF Range
  <2>3. List(flow, "policy_ref")[x] \in DOMAIN registries["policies"]
    BY <1>1, <1>2, <1>3, <1>5, <1>6, <2>1, <2>2, Followed DEF flow, files
  <2>4. List(flow, "policy_ref")[x] = PolicyRef(x)
    BY <1>3, <1>7, <2>1 DEF PolicyRef
  <2> QED
    BY <2>3, <2>4 DEF HasPolicy
<1> QED
  BY <1>8, <1>9

\* In an example that both scripts pass, with one file for the workflow, no step
\* fails for a tool or a policy that is not there: what validate-references.js
\* has followed is what buildRegistries() registers.
THEOREM ResolvesCorrect == JourneySpec => []ValidatedResolves
<1>1. JourneyInv /\ AllJustified => ValidatedResolves
  <2> SUFFICES ASSUME JourneyInv, AllJustified, Validated,
                      NEW i \in DOMAIN History, History[i].outcome = "failed"
               PROVE  FALSE
    BY DEF ValidatedResolves, Outcome
  <2> DEFINE x == History[i].step
  <2>1. /\ x \in HasRef
        /\ \/ Type[x] = "tool" /\ ~HasTool(x)
           \/ Type[x] = "policy" /\ ~HasPolicy(x)
    BY DEF AllJustified, Justified
  <2>2. phase # "loading"
    <3>1. History # <<>>
      OBVIOUS
    <3> QED
      BY <3>1 DEF JourneyInv, Quiet
  <2> QED
    BY <2>1, <2>2, Reachable
<1> QED
  BY <1>1, JourneyCorrect, JustifiedCorrect, PTL

-----------------------------------------------------------------------------
(* What the demo reports *)

\* In a validated example the run is completed only with its request, and its
\* steps end otherwise only where it has failed or is parked.
EndInv ==
  Validated =>
    /\ runs[Journey].status = "completed" => request # NoId
    /\ \A p \in Procs : pc[p] = "returning" /\ at[p] \notin Steps =>
         runs[Journey].status \in {"failed", "waiting_for_approval"}
    /\ \A p \in Procs : pc[p] = "parking" => runs[Journey].status = "waiting_for_approval"

\* What a call may come to, with a run of this status
Closes(l, x, s) ==
  Validated =>
    /\ s = "completed" => request' # NoId
    /\ l = "returning" /\ x \notin Steps => s \in {"failed", "waiting_for_approval"}
    /\ l = "parking" => s = "waiting_for_approval"

LEMMA EndGoes ==
  ASSUME JourneyInv, Validated' <=> Validated, NEW p \in Procs, \A q \in Procs \ {p} : ~Active(q),
         NEW l, NEW x, NEW h, NEW s, NEW w, Goes(p, l, x, h, s, w), Closes(l, x, s)
  PROVE  EndInv'
<1>1. /\ pc'[p] = l /\ at'[p] = x
      /\ \A q \in Procs \ {p} : pc'[q] = pc[q]
  <2>1. DOMAIN pc = Procs /\ DOMAIN at = Procs
    BY DEF JourneyInv, EngineInv, TypeOK
  <2>2. pc' = [pc EXCEPT ![p] = l] /\ at' = [at EXCEPT ![p] = x]
    BY DEF Goes
  <2> QED
    BY <2>1, <2>2
<1>2. runs'[Journey].status = s
  BY DEF Goes
<1>3. \A q \in Procs : pc'[q] \in {"returning", "parking"} => q = p
  BY <1>1 DEF Active
<1> QED
  BY <1>1, <1>2, <1>3 DEF EndInv, Closes

LEMMA EndArrives ==
  ASSUME PlanChange, JourneyInv, Validated' <=> Validated,
         NEW p \in Procs, \A q \in Procs \ {p} : ~Active(q),
         NEW id \in Ids, NEW h, NEW s, NEW w, Arrives(p, id, h, s, w),
         Closes("returning", id, s), id = "complete" => request' # NoId
  PROVE  EndInv'
<1>1. CASE id \in Steps
  <2>1. \E l, g, t, v : /\ Goes(p, l, id, g, t, v)
                        /\ \/ l \in {"lookup", "fetching"} /\ t = s
                           \/ l = "pausing" /\ t = "waiting_for_approval"
                           \/ l = "done" /\ t = "completed" /\ id = "complete"
    <3>1. /\ ~Ends(id) /\ id \notin Unknown
          /\ Type[id] \in {"tool", "policy", "approval", "completion"}
          /\ Type[id] \in {"tool", "policy"} => id \in HasRef
          /\ Type[id] = "completion" => id = "complete"
      BY <1>1, PlanFacts DEF Ends
    <3> QED
      BY <3>1 DEF Arrives
  <2>2. PICK l, g, t, v : /\ Goes(p, l, id, g, t, v)
                          /\ \/ l \in {"lookup", "fetching"} /\ t = s
                             \/ l = "pausing" /\ t = "waiting_for_approval"
                             \/ l = "done" /\ t = "completed" /\ id = "complete"
    BY <2>1
  <2>3. Closes(l, id, t)
    BY <2>2 DEF Closes
  <2> QED
    BY <2>2, <2>3, EndGoes
<1>2. CASE id \notin Steps
  <2> DEFINE t == IF s = "running" THEN "completed" ELSE s
  <2>1. Goes(p, "done", id, h, t, w)
    BY <1>2, PlanFacts DEF Arrives
  <2>2. Closes("done", id, t)
    BY <1>2 DEF Closes
  <2> HIDE DEF t
  <2> QED
    BY <2>1, <2>2, EndGoes
<1> QED
  BY <1>1, <1>2

\* The run that comes to its completion has its request.
LEMMA CompleteHasRequest ==
  ASSUME PlanChange, NEW h, NEW e, NEW r, Before("complete", h, e, r)
  PROVE  r # NoId
<1>1. PICK c \in Confirmers : r = Role[c]
  BY DEF Before, Confirmed
<1>2. c \in Steps
  BY PlanFacts DEF Confirmers
<1> QED
  BY <1>1, <1>2

LEMMA EndBegins ==
  ASSUME PlanChange, JourneyInv, Validated' <=> Validated, NEW id \in Ids, Begins(id)
  PROVE  EndInv'
<1>1. /\ Journey \in Procs /\ \A q \in Procs : ~Active(q)
      /\ Arrives(Journey, id, History, "running", NoId)
      /\ phase = "ready"
      /\ id = IF "steps" \in DOMAIN rawWorkflow.fields THEN First ELSE NoId
  BY MoverIsAlone DEF Begins, Procs
<1>2. Validated => id \in Steps
  <2>1. Validated => "steps" \in DOMAIN rawWorkflow.fields
    BY <1>1, RawWorkflow
  <2> QED
    BY <1>1, <2>1, PlanFacts
<1>3. id # "complete"
  BY <1>1, PlanFacts
<1>4. Closes("returning", id, "running")
  BY <1>2 DEF Closes
<1> QED
  BY <1>1, <1>3, <1>4, EndArrives

LEMMA EndDecides ==
  ASSUME PlanChange, JourneyInv, PlanInv, Validated' <=> Validated,
         NEW p \in Procs, NEW x \in Steps, NEW approved \in BOOLEAN, Decides(p, x, approved)
  PROVE  EndInv'
<1> DEFINE next == IF approved THEN OnSuccess[x] ELSE OnFailure[x]
           g == Noted(x, IF approved THEN "approved" ELSE "rejected")
<1>1. /\ Type[x] \in {"policy", "approval"}
      /\ \A q \in Procs : ~Active(q)
      /\ \/ /\ Ends(next)
            /\ Goes(p, "done", next, g, IF approved THEN "completed" ELSE "failed", NoId)
         \/ ~Ends(next) /\ Arrives(p, next, g, "running", NoId)
  BY MoverIsAlone DEF Decides, PlanInv
<1>2. /\ next \in Ids /\ next # "complete"
      /\ approved => ~Ends(next)
      /\ ~Ends(next) => next \in Steps
  <2>1. OnSuccess[x] \in Ids /\ OnFailure[x] \in Ids
    BY EngineAssumption
  <2>2. /\ OnSuccess[x] \in Steps \ {"complete"}
        /\ OnFailure[x] # "complete"
    BY <1>1, PlanFacts
  <2>3. \A id \in Ids : ~Ends(id) => id \in Steps
    BY PlanFacts DEF Ids, Ends
  <2>4. \A id \in Steps : ~Ends(id)
    BY PlanFacts DEF Ends
  <2> QED
    BY <2>1, <2>2, <2>3, <2>4
<1> HIDE DEF next, g
<1>3. CASE Ends(next)
  <2>1. Goes(p, "done", next, g, "failed", NoId)
    BY <1>1, <1>2, <1>3
  <2>2. Closes("done", next, "failed")
    BY DEF Closes
  <2> QED
    BY <1>1, <2>1, <2>2, EndGoes
<1>4. CASE ~Ends(next)
  <2>1. Closes("returning", next, "running")
    BY <1>2, <1>4 DEF Closes
  <2> QED
    BY <1>1, <1>2, <1>4, <2>1, EndArrives
<1> QED
  BY <1>3, <1>4

LEMMA EndWorks ==
  ASSUME PlanChange, JourneyInv, PlanInv, EndInv, Validated' <=> Validated,
         NEW p \in Procs, WorksOn(p)
  PROVE  EndInv'
<1> DEFINE x == at[p]
           s == runs[Journey].status
           w == runs[Journey].pending
<1>1. /\ WorksAt(p, x, s, w) /\ Fits(pc[p], x) /\ x \in Ids
      /\ request' = IF pc[p] = "calling" /\ x = Prepare THEN Gathered ELSE request
      /\ \A q \in Procs \ {p} : ~Active(q)
      /\ pc[p] \in AtStep => x \in Steps
      /\ phase # "loading"
  BY MoverIsAlone DEF WorksOn, JourneyInv, Placed, EngineInv, TypeOK, Owned
<1>2. Validated =>
        /\ s = "completed" => request # NoId
        /\ pc[p] = "returning" /\ x \notin Steps => s \in {"failed", "waiting_for_approval"}
        /\ pc[p] = "parking" => s = "waiting_for_approval"
  BY DEF EndInv
<1>3. /\ pc[p] \in {"lookup", "calling", "fetching", "evaluating"} => x \in Steps /\ s = "running"
      /\ pc[p] = "returning" /\ x = "complete" => request # NoId
  <2>1. pc[p] \in {"lookup", "calling", "fetching", "evaluating"} => Under(p) /\ x \in Steps
    BY <1>1 DEF Under, AtStep
  <2>2. "complete" \in Steps
    BY PlanFacts
  <2>3. pc[p] = "returning" /\ x = "complete" => Before("complete", History, evidence, request)
    BY <2>2 DEF PlanInv, Under
  <2> QED
    BY <2>1, <2>3, CompleteHasRequest DEF PlanInv
<1>4. Validated => /\ pc[p] = "lookup" => HasTool(x)
                   /\ pc[p] = "fetching" => HasPolicy(x)
  BY <1>1, Reachable DEF Fits
<1> HIDE DEF x, s, w
<1>5. CASE pc[p] = "returning" /\ Arrives(p, x, History, s, w)
  <2>1. request' = request
    BY <1>1, <1>5
  <2>2. Closes("returning", x, s)
    BY <1>2, <1>5, <2>1 DEF Closes
  <2> QED
    BY <1>1, <1>3, <1>5, <2>1, <2>2, EndArrives
<1>6. ASSUME NEW l, NEW y, NEW h, NEW t, NEW v, Goes(p, l, y, h, t, v), Closes(l, y, t)
      PROVE  EndInv'
  BY <1>1, <1>6, EndGoes
<1>7. CASE pc[p] = "pausing" /\ Goes(p, "done", x, History, s, w)
  <2>1. Closes("done", x, s)
    BY <1>1, <1>2, <1>7 DEF Closes
  <2> QED
    BY <1>6, <1>7, <2>1
<1>8. CASE \/ pc[p] = "lookup" /\ Goes(p, "calling", x, History, s, w)
           \/ pc[p] = "fetching" /\ Goes(p, "evaluating", x, History, s, w)
  <2>1. Closes("calling", x, s) /\ Closes("evaluating", x, s)
    BY <1>3, <1>8 DEF Closes
  <2> QED
    BY <1>6, <1>8, <2>1
<1>9. CASE /\ \/ pc[p] = "lookup" /\ ~HasTool(x)
              \/ pc[p] = "fetching" /\ ~HasPolicy(x)
           /\ \E y, h, t : Goes(p, "returning", y, h, t, w)
  <2>1. ~Validated
    BY <1>4, <1>9
  <2>2. \A y, t : Closes("returning", y, t)
    BY <2>1 DEF Closes
  <2> QED
    BY <1>6, <1>9, <2>2
<1>10. CASE /\ pc[p] \in {"calling", "evaluating"}
            /\ Goes(p, "returning", OnSuccess[x], Noted(x, "completed"), s, w)
  <2>1. OnSuccess[x] \in Steps /\ s = "running"
    BY <1>1, <1>3, <1>10, PlanFacts DEF Fits
  <2>2. Closes("returning", OnSuccess[x], s)
    BY <2>1 DEF Closes
  <2> QED
    BY <1>6, <1>10, <2>2
<1>11. CASE /\ pc[p] = "evaluating"
            /\ \E h : Goes(p, "returning", OrStop(OnFailure[x]), h,
                           IF Ends(OnFailure[x]) THEN "failed" ELSE s, w)
  <2> DEFINE t == IF Ends(OnFailure[x]) THEN "failed" ELSE s
  <2>1. x \in Steps /\ s = "running"
    BY <1>3, <1>11
  <2>2. OrStop(OnFailure[x]) \notin Steps => Ends(OnFailure[x])
    BY <2>1, PlanFacts DEF OrStop, Ends
  <2>3. Closes("returning", OrStop(OnFailure[x]), t)
    BY <2>1, <2>2 DEF Closes
  <2> QED
    BY <1>6, <1>11, <2>3
<1>12. CASE \E h : Goes(p, "parking", x, h, "waiting_for_approval", x)
  <2>1. Closes("parking", x, "waiting_for_approval")
    BY DEF Closes
  <2> QED
    BY <1>6, <1>12, <2>1
<1>13. CASE pc[p] = "parking" /\ Goes(p, "returning", NoId, History, s, w)
  <2>1. Closes("returning", NoId, s)
    BY <1>2, <1>13 DEF Closes
  <2> QED
    BY <1>6, <1>13, <2>1
<1> QED
  BY <1>1, <1>5, <1>7, <1>8, <1>9, <1>10, <1>11, <1>12, <1>13 DEF WorksAt

\* main() exits with the status of the run.
Told ==
  /\ phase = "exit 0" => runs[Journey].status = "completed"
  /\ phase = "exit 1" => runs[Journey].status # "completed"

LEMMA ToldStep ==
  ASSUME JourneyInv, Told, [JourneyNext]_journeyVars
  PROVE  Told'
<1>1. CASE Load
  <2>1. phase' # "exit 0" /\ runs' = runs /\ phase = "loading"
    BY <1>1 DEF Load, Goto, vars
  <2>2. runs[Journey].status = "none"
    BY <2>1 DEF JourneyInv, Quiet, EngineInv, Fresh, Procs
  <2> QED
    BY <2>1, <2>2 DEF Told
<1>2. CASE Exit
  BY <1>2 DEF Exit, Goto, vars, Told
<1>3. CASE Begin
  BY <1>3 DEF Begin, Goto, Told
<1>4. CASE \E approved \in Approvals : Decide(approved)
  BY <1>4 DEF Decide, Returned, Told
<1>5. CASE \E p \in Procs : EngineStep(p)
  <2>1. PICK p \in Procs : EngineStep(p)
    BY <1>5
  <2>2. WorksOn(p)
    BY <2>1, Working DEF JourneyInv
  <2>3. phase' = phase /\ phase = "running"
    BY <2>2, MoverIsAlone DEF WorksOn
  <2> QED
    BY <2>3 DEF Told
<1>6. CASE UNCHANGED journeyVars
  BY <1>6 DEF Told, journeyVars, vars, data
<1> QED
  BY <1>1, <1>2, <1>3, <1>4, <1>5, <1>6 DEF JourneyNext

LEMMA EndStep ==
  ASSUME PlanChange, JourneyInv, PlanInv, EndInv, [JourneyNext]_journeyVars
  PROVE  EndInv'
<1>1. Moves /\ (Validated' <=> Validated)
  <2>1. UNCHANGED <<bundle, passed>>
    BY Recording
  <2> QED
    BY <2>1, JourneyStep DEF Validated, OneWorkflow
<1>2. CASE Rests
  BY <1>1, <1>2 DEF Rests, EndInv, vars
<1> QED
  BY <1>1, <1>2, EndBegins, EndDecides, EndWorks DEF Moves

\* The demo exits with success, for a validated example, exactly when the change
\* request has been prepared: the tail of _executeFrom(), which completes every
\* run whose steps have ended, reports no other as completed.
THEOREM ExitCorrect == ASSUME PlanChange PROVE JourneySpec => []ExitTellsOutcome
<1>1. JourneyInit => EndInv /\ Told
  <2> SUFFICES ASSUME JourneyInit PROVE EndInv /\ Told
    OBVIOUS
  <2>1. /\ \A p \in Procs : pc[p] = "idle"
        /\ runs[Journey].status = "none" /\ phase = "loading"
    BY DEF JourneyInit, Init
  <2> QED
    BY <2>1 DEF EndInv, Told
<1>2. JourneyInv /\ PlanInv /\ EndInv /\ [JourneyNext]_journeyVars => EndInv'
  BY EndStep
<1>3. JourneyInv /\ Told /\ [JourneyNext]_journeyVars => Told'
  BY ToldStep
<1>4. JourneyInv /\ PlanInv /\ EndInv /\ Told => ExitTellsOutcome
  <2> SUFFICES ASSUME JourneyInv, PlanInv, EndInv, Told, Validated,
                      phase \in {"exit 0", "exit 1"}
               PROVE  phase = "exit 0" <=> request # NoId
    BY DEF ExitTellsOutcome
  <2>1. ~Finished
    BY DEF JourneyInv, Quiet, Active, Finished
  <2> QED
    BY <2>1 DEF PlanInv, EndInv, Told
<1> QED
  BY <1>1, <1>2, <1>3, <1>4, JourneyCorrect, PlanCorrect, PTL DEF JourneySpec

=============================================================================
