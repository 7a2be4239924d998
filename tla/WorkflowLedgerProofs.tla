------------------------ MODULE WorkflowLedgerProofs ------------------------
(***************************************************************************)
(* Theorems about the compensation of WorkflowRunner's runs: the ledger of *)
(* compensation calls, the empty stack of a run stored as failed, what the *)
(* history tells of it all, and that the runs implement Saga.              *)
(*                                                                         *)
(* They rest on what a copy of the state tells of the start() whose arrays *)
(* it shares, however old the copy is: a copy that says waiting, and one   *)
(* that says compensating or failed, exists only once that start() has     *)
(* stopped executing steps.  Thus nobody pushes on a stack that somebody   *)
(* pops.                                                                   *)
(***************************************************************************)
EXTENDS WorkflowRunnerProofs

\* start() has parked the run.
Parking(s) == pc[s] \in {"parking", "done"}

\* start() executes no more steps.
Ended(s) == pc[s] \in {"parking", "unwind", "undoing", "failing", "done"}

CopyOK(x) ==
  /\ x.status = "waiting_for_approval" => Parking(x.obj)
  /\ x.status \in {"compensating", "failed"} => Ended(x.obj)
  /\ x.status = "failed" => stack[x.obj] = <<>>

\* Every copy tells the truth about its start(), a call that compensates holds
\* a copy that says so, and nothing is compensated before start() has ended.
CopiesOK ==
  /\ \A p \in Procs : st[p] # NoState => CopyOK(st[p])
  /\ \A r \in RunIds : store[r] # NoState => CopyOK(store[r])
  /\ \A p \in Procs : pc[p] = "idle" => st[p] = NoState
  /\ \A p \in Procs : pc[p] \in {"unwind", "undoing"} => st[p].status = "compensating"
  /\ \A s \in Calls : ~Ended(s) => undone[s] = <<>>

LedgerInv == TypeInv /\ CopiesOK /\ UndoLedger

-----------------------------------------------------------------------------
(* What the actions have in common, as far as compensation is concerned.   *)

\* Only call p moves, and what it stores is its own copy.
Alone(p) ==
  /\ \A q \in Procs : q # p => pc'[q] = pc[q] /\ st'[q] = st[q]
  /\ \A r \in RunIds : store'[r] \in {store[r], st'[p]}

Quiet == UNCHANGED <<stack, done, undone>>

\* p holds a state of the same start() as before, with one of these statuses.
Holds(p, s, statuses) ==
  st'[p] \in State /\ st'[p].obj = s /\ st'[p].status \in statuses

\* start() goes on, and may complete a step.
Forwards(s) ==
  /\ ~Ended(s) /\ pc'[s] \in {"begin", "checking", "calling", "backoff", "advance", "finishing"}
  /\ Holds(s, s, {"running", "completed"})
  /\ undone' = undone
  /\ \/ UNCHANGED <<stack, done>>
     \/ \E x \in Steps : /\ stack' = [stack EXCEPT ![s] = Append(@, x)]
                         /\ done' = [done EXCEPT ![s] = Append(@, x)]

Parks(s) ==
  /\ ~Ended(s) /\ pc'[s] = "parking"
  /\ Holds(s, s, {"waiting_for_approval"})
  /\ Quiet

Fails(s) ==
  /\ ~Ended(s) /\ pc'[s] = "unwind"
  /\ Holds(s, s, {"compensating"})
  /\ Quiet

\* A call returns or throws.
Leaves(p) ==
  /\ pc'[p] \in {"done", "refused"} /\ (p \in Calls => pc'[p] = "done")
  /\ UNCHANGED <<st, store>>
  /\ Quiet

Pops(p) ==
  LET s == st[p].obj
      n == Len(stack[s])
  IN
  /\ pc[p] = "unwind" /\ pc'[p] = "undoing"
  /\ n > 0
  /\ stack' = [stack EXCEPT ![s] = SubSeq(@, 1, n - 1)]
  /\ undone' = [undone EXCEPT ![s] = Append(@, stack[s][n])]
  /\ UNCHANGED <<st, store, done>>

Empties(p) ==
  /\ pc[p] = "unwind" /\ pc'[p] = "failing"
  /\ stack[st[p].obj] = <<>>
  /\ Holds(p, st[p].obj, {"failed"})
  /\ Quiet

Resumes(p) ==
  /\ pc[p] = "undoing" /\ pc'[p] = "unwind"
  /\ st'[p] = st[p]
  /\ Quiet

Reads(d) ==
  /\ d \in Decisions /\ pc[d] = "idle" /\ pc'[d] \in {"approve", "reject", "refused"}
  /\ \E r \in RunIds : st'[d] = store[r]
  /\ UNCHANGED store
  /\ Quiet

Accepts(d) ==
  /\ d \in Decisions
  /\ \/ /\ st[d].status = "waiting_for_approval" /\ pc'[d] = "approving"
        /\ Holds(d, st[d].obj, {"running"})
     \/ /\ pc[d] = "approving" /\ pc'[d] = "approved"
        /\ Holds(d, st[d].obj, {"completed"})
  /\ Quiet

Rejects(d) ==
  /\ d \in Decisions /\ pc[d] = "reject" /\ pc'[d] = "unwind"
  /\ st[d].status = "waiting_for_approval"
  /\ Holds(d, st[d].obj, {"compensating"})
  /\ Quiet

\* Tools and events only.
Aside == UNCHANGED <<pc, st, store, stack, done, undone>>

\* The part of a step by p that matters to compensation.
Move(p) ==
  /\ Alone(p)
  /\ \/ p \in Calls /\ (Forwards(p) \/ Parks(p) \/ Fails(p))
     \/ Leaves(p) \/ Pops(p) \/ Empties(p) \/ Resumes(p)
     \/ Reads(p) \/ Accepts(p) \/ Rejects(p)

-----------------------------------------------------------------------------
(* Every step of the system is a move, or leaves compensation alone.       *)

USE RunnerAssumption

\* A start() that still executes steps has never seen the run waiting,
\* compensating or failed.
LEMMA StatusForward ==
  ASSUME TypeInv, CopiesOK, NEW s \in Calls, ~Ended(s), pc[s] # "idle"
  PROVE  st[s] \in State /\ st[s].obj = s /\ st[s].status \in {"running", "completed"}
<1>1. st[s] \in State /\ st[s].obj = s /\ s \in Procs
  BY StateOfCall DEF Procs
<1>2. st[s].status \in Statuses
  BY <1>1 DEF State
<1>3. CopyOK(st[s])
  BY <1>1 DEF CopiesOK
<1>4. ~Parking(s)
  BY DEF Ended, Parking
<1> QED
  BY <1>1, <1>2, <1>3, <1>4 DEF CopyOK, Statuses

LEMMA PutAlone ==
  ASSUME TypeInv, NEW p \in Procs, NEW x \in State, NEW l \in Locations,
         Put(p, x), Goto(p, l)
  PROVE  Alone(p) /\ pc'[p] = l /\ st'[p] = x
<1>1. TypeOK
  BY DEF TypeInv
<1>2. st'[p] = x /\ (\A q \in Procs : q # p => st'[q] = st[q])
      /\ \A r \in RunIds : store'[r] \in {x, store[r]}
  BY <1>1, PutType
<1>3. pc'[p] = l /\ \A q \in Procs : q # p => pc'[q] = pc[q]
  BY <1>1, GotoType
<1> QED
  BY <1>2, <1>3 DEF Alone

LEMMA GotoAlone ==
  ASSUME TypeInv, NEW p \in Procs, NEW l \in Locations, Goto(p, l), UNCHANGED <<st, store>>
  PROVE  Alone(p) /\ pc'[p] = l
<1>1. TypeOK
  BY DEF TypeInv
<1>2. pc'[p] = l /\ \A q \in Procs : q # p => pc'[q] = pc[q]
  BY <1>1, GotoType
<1> QED
  BY <1>2 DEF Alone

LEMMA LoopMove ==
  ASSUME TypeInv, CopiesOK, NEW s \in Calls, ~Ended(s), pc[s] # "idle",
         NEW f \in Seq(Frame), Len(f) > 0, f[Len(f)].at > 0,
         \A i \in 1 .. Len(f) - 1 : InBlock(f[i]),
         Loop(s, f), UNCHANGED <<shared, logs>>
  PROVE  Move(s)
<1>1. st[s].status \in {"running", "completed"}
  BY StatusForward
<1>2. /\ \A p \in Procs : p # s => pc'[p] = pc[p] /\ st'[p] = st[p]
      /\ pc'[s] \in {"checking", "finishing"}
      /\ st'[s] \in State /\ st'[s].obj = s
      /\ st'[s].status \in {st[s].status, "completed"}
      /\ \A r \in RunIds : store'[r] \in {store[r], st'[s]}
  BY LoopType
<1>3. Alone(s)
  BY <1>2 DEF Alone
<1>4. Forwards(s)
  BY <1>1, <1>2 DEF Forwards, Holds, shared, logs
<1> QED
  BY <1>3, <1>4 DEF Move, Procs

LEMMA CompleteMove ==
  ASSUME TypeInv, CopiesOK, NEW s \in Calls, ~Ended(s), pc[s] # "idle",
         NEW x \in Steps, CompleteStep(s, x)
  PROVE  Move(s)
<1>1. st[s] \in State /\ st[s].obj = s /\ st[s].status \in {"running", "completed"}
  BY StatusForward
<1>2. /\ pc'[s] = "advance"
      /\ st'[s] = st[s]
      /\ \A p \in Procs : p # s => pc'[p] = pc[p] /\ st'[p] = st[p]
      /\ \A r \in RunIds : store'[r] \in {store[r], st'[s]}
      /\ undone' = undone
      /\ \/ UNCHANGED <<stack, done>>
         \/ /\ stack' = [stack EXCEPT ![s] = Append(@, x)]
            /\ done' = [done EXCEPT ![s] = Append(@, x)]
  BY CompleteStepType
<1>3. Alone(s)
  BY <1>2 DEF Alone
<1>4. Forwards(s)
  BY <1>1, <1>2 DEF Forwards, Holds
<1> QED
  BY <1>3, <1>4 DEF Move, Procs

LEMMA FailMove ==
  ASSUME TypeInv, NEW s \in Calls,
         pc[s] \in {"checking", "calling"}, FailStep(s)
  PROVE  Move(s)
<1>1. /\ pc'[s] = "unwind"
      /\ st'[s] \in State /\ st'[s].obj = s /\ st'[s].status = "compensating"
      /\ \A p \in Procs : p # s => pc'[p] = pc[p] /\ st'[p] = st[p]
      /\ \A r \in RunIds : store'[r] \in {store[r], st'[s]}
      /\ UNCHANGED <<stack, logs>>
  BY FailStepType
<1>2. Alone(s)
  BY <1>1 DEF Alone
<1>3. Fails(s)
  BY <1>1 DEF Fails, Ended, Holds, Quiet, logs
<1> QED
  BY <1>2, <1>3 DEF Move, Procs

\* Another suspension point of the same attempt.
LEMMA AttemptMove ==
  ASSUME TypeInv, CopiesOK, NEW s \in Calls, ~Ended(s), pc[s] # "idle",
         NEW l \in {"calling", "backoff"}, Goto(s, l),
         UNCHANGED <<st, store, shared, logs>>
  PROVE  Move(s)
<1>1. st[s] \in State /\ st[s].obj = s /\ st[s].status \in {"running", "completed"}
  BY StatusForward
<1>2. s \in Procs /\ l \in Locations
  BY DEF Procs, Locations
<1>3. Alone(s) /\ pc'[s] = l
  BY <1>2, GotoAlone
<1>4. Forwards(s)
  BY <1>1, <1>3 DEF Forwards, Holds, shared, logs
<1> QED
  BY <1>2, <1>3, <1>4 DEF Move

LEMMA StartMove ==
  ASSUME TypeInv, NEW s \in Calls, Start(s)
  PROVE  Move(s)
<1>1. PICK r \in RunIds :
        Put(s, [run |-> r, obj |-> s, status |-> "running", cur |-> NoStep])
  BY DEF Start
<1> DEFINE x == [run |-> r, obj |-> s, status |-> "running", cur |-> NoStep]
<1>2. x \in State /\ x.obj = s /\ x.status = "running"
  BY DEF State, Statuses
<1>3. Put(s, x) /\ Goto(s, "begin") /\ pc[s] = "idle" /\ UNCHANGED <<shared, logs>>
  BY <1>1 DEF Start
<1> HIDE DEF x
<1>4. s \in Procs /\ "begin" \in Locations
  BY DEF Procs, Locations
<1>5. Alone(s) /\ pc'[s] = "begin" /\ st'[s] = x
  BY <1>2, <1>3, <1>4, PutAlone
<1>6. Forwards(s)
  BY <1>2, <1>3, <1>5 DEF Forwards, Holds, Ended, shared, logs
<1> QED
  BY <1>4, <1>5, <1>6 DEF Move

LEMMA BeginMove ==
  ASSUME TypeInv, CopiesOK, NEW s \in Calls, Begin(s)
  PROVE  Move(s)
<1> DEFINE g == [block |-> Root, at |-> 1]
           f == <<g>>
<1>1. g \in Frame /\ g.at > 0
  BY DEF Frame
<1>2. f \in Seq(Frame) /\ Len(f) = 1 /\ f[1] = g
  <2>1. \A h \in Frame : <<h>> \in Seq(Frame) /\ Len(<<h>>) = 1 /\ <<h>>[1] = h
    OBVIOUS
  <2> HIDE DEF g
  <2> QED BY <1>1, <2>1
<1>3. Loop(s, f) /\ UNCHANGED <<shared, logs>> /\ pc[s] # "idle" /\ ~Ended(s)
  BY DEF Begin, Ended
<1> HIDE DEF f, g
<1>4. Len(f) > 0 /\ f[Len(f)].at > 0 /\ \A i \in 1 .. Len(f) - 1 : InBlock(f[i])
  BY <1>1, <1>2
<1> QED
  BY <1>2, <1>3, <1>4, LoopMove

LEMMA AdvanceMove ==
  ASSUME TypeInv, CopiesOK, NEW s \in Calls, Advance(s)
  PROVE  Move(s)
<1> DEFINE f == [frames[s] EXCEPT ![Len(frames[s])].at = @ + 1]
<1>1. /\ f \in Seq(Frame) /\ Len(f) > 0 /\ f[Len(f)].at > 0
      /\ \A i \in 1 .. Len(f) - 1 : InBlock(f[i])
  BY AdvanceFrames DEF Advance
<1>2. Loop(s, f) /\ UNCHANGED <<shared, logs>> /\ pc[s] # "idle" /\ ~Ended(s)
  BY DEF Advance, Ended
<1> HIDE DEF f
<1> QED
  BY <1>1, <1>2, LoopMove

LEMMA BranchMove ==
  ASSUME TypeInv, CopiesOK, NEW s \in Calls, Branch(s)
  PROVE  Move(s)
<1> DEFINE x == StepOf(Top(s))
<1>1. pc[s] = "checking" /\ ~Ended(s)
  BY DEF Branch, Ended
<1>2. x \in Steps
  BY <1>1, TopType
<1>3. PICK holds \in BOOLEAN :
        \/ /\ Loop(s, Append(frames[s], [block |-> Arm[x][holds], at |-> 1]))
           /\ UNCHANGED <<shared, logs>>
        \/ CompleteStep(s, x)
  BY DEF Branch
<1>4. Arm[x][holds] \in Blocks
  BY <1>2
<1>5. CASE CompleteStep(s, x)
  BY <1>1, <1>2, <1>5, CompleteMove
<1> DEFINE f == Append(frames[s], [block |-> Arm[x][holds], at |-> 1])
<1>6. CASE Loop(s, f) /\ UNCHANGED <<shared, logs>>
  <2>1. /\ f \in Seq(Frame) /\ Len(f) > 0 /\ f[Len(f)].at > 0
        /\ \A i \in 1 .. Len(f) - 1 : InBlock(f[i])
    BY <1>1, <1>4, BranchFrames
  <2> HIDE DEF f
  <2> QED
    BY <1>1, <1>6, <2>1, LoopMove
<1> QED
  BY <1>3, <1>5, <1>6

LEMMA FinishMove ==
  ASSUME TypeInv, CopiesOK, NEW s \in Calls, Finish(s)
  PROVE  Move(s)
<1>1. pc[s] = "finishing" /\ ~Ended(s) /\ s \in Procs
  BY DEF Finish, Ended, Procs
<1>2. CASE /\ Goto(s, "done")
           /\ UNCHANGED <<st, store, shared, logs>>
  <2>1. Alone(s) /\ pc'[s] = "done"
    BY <1>1, <1>2, GotoAlone DEF Locations
  <2> QED
    BY <1>1, <1>2, <2>1 DEF Move, Leaves, Quiet, shared, logs
<1> DEFINE outer == SubSeq(frames[s], 1, Len(frames[s]) - 1)
<1>3. CASE /\ Len(frames[s]) > 1
           /\ CompleteStep(s, StepOf(outer[Len(outer)]))
  <2>1. StepOf(outer[Len(outer)]) \in Steps
    BY <1>1, <1>3, FinishFrames
  <2> QED
    BY <1>1, <1>3, <2>1, CompleteMove
<1> QED
  BY <1>2, <1>3 DEF Finish

LEMMA ParkMove ==
  ASSUME TypeInv, NEW s \in Calls, Park(s)
  PROVE  Move(s)
<1> DEFINE x == [st[s] EXCEPT !.status = "waiting_for_approval"]
<1>1. pc[s] = "checking" /\ s \in Procs
  BY DEF Park, Procs
<1>2. x \in State /\ x.obj = s /\ x.status = "waiting_for_approval"
  <2>1. st[s] \in State /\ st[s].obj = s
    BY <1>1, StateOfCall
  <2> QED
    BY <2>1 DEF State, Statuses
<1>3. Put(s, x) /\ Goto(s, "parking") /\ UNCHANGED <<shared, logs>>
  BY DEF Park
<1> HIDE DEF x
<1>4. Alone(s) /\ pc'[s] = "parking" /\ st'[s] = x
  <2>1. "parking" \in Locations
    BY DEF Locations
  <2> QED
    BY <1>1, <1>2, <1>3, <2>1, PutAlone
<1>5. Parks(s)
  BY <1>1, <1>2, <1>3, <1>4 DEF Parks, Ended, Holds, Quiet, shared, logs
<1> QED
  BY <1>1, <1>4, <1>5 DEF Move

\* The calls that return or throw at once.
LEMMA LeaveMove ==
  ASSUME TypeInv, NEW p \in Procs, NEW l \in {"done", "refused"},
         p \in Calls => l = "done",
         Goto(p, l), UNCHANGED <<st, store, shared, logs>>
  PROVE  Move(p)
<1>1. l \in Locations
  BY DEF Locations
<1>2. Alone(p) /\ pc'[p] = l
  BY <1>1, GotoAlone
<1> QED
  BY <1>2 DEF Move, Leaves, Quiet, shared, logs

LEMMA ToolMove ==
  ASSUME TypeInv, CopiesOK, NEW s \in Calls,
         Deny(s) \/ CallTool(s) \/ ToolOk(s) \/ ToolError(s) \/ Timeout(s) \/ Retry(s)
  PROVE  Move(s)
<1>1. pc[s] \in {"checking", "calling", "backoff"} /\ ~Ended(s)
  BY DEF Deny, CallTool, ToolOk, ToolError, Timeout, Retry, Ended
<1>2. StepOf(Top(s)) \in Steps
  BY <1>1, TopType
<1>3. CASE pc[s] \in {"checking", "calling"} /\ FailStep(s)
  BY <1>3, FailMove
<1>4. CASE CompleteStep(s, StepOf(Top(s)))
  BY <1>1, <1>2, <1>4, CompleteMove
<1>5. CASE \E l \in {"calling", "backoff"} : Goto(s, l) /\ UNCHANGED <<st, store, shared, logs>>
  BY <1>1, <1>5, AttemptMove
<1>6. CASE Deny(s)
  BY <1>3, <1>6 DEF Deny
<1>7. CASE CallTool(s)
  BY <1>3, <1>5, <1>7 DEF CallTool
<1>8. CASE ToolOk(s)
  BY <1>4, <1>8 DEF ToolOk
<1>9. CASE ToolError(s) \/ Timeout(s)
  BY <1>3, <1>5, <1>9 DEF ToolError, Timeout, AfterFailure
<1>10. CASE Retry(s)
  BY <1>5, <1>10 DEF Retry
<1> QED
  BY <1>6, <1>7, <1>8, <1>9, <1>10

LEMMA UnwindMove ==
  ASSUME TypeInv, NEW p \in Procs, Unwind(p)
  PROVE  Move(p)
<1> DEFINE s == st[p].obj
           n == Len(stack[s])
           x == [st[p] EXCEPT !.status = "failed"]
<1>1. /\ st[p] \in State /\ s \in Calls
      /\ UNCHANGED done
      /\ pc[p] = "unwind"
  BY StateOfEnding DEF Unwind
<1>2. CASE /\ n > 0
           /\ stack' = [stack EXCEPT ![s] = SubSeq(@, 1, n - 1)]
           /\ undone' = [undone EXCEPT ![s] = Append(@, stack[s][n])]
           /\ Goto(p, "undoing")
           /\ UNCHANGED <<st, store>>
  <2>1. "undoing" \in Locations
    BY DEF Locations
  <2>2. Alone(p) /\ pc'[p] = "undoing"
    BY <1>2, <2>1, GotoAlone
  <2>3. Pops(p)
    BY <1>1, <1>2, <2>2 DEF Pops
  <2> QED
    BY <2>2, <2>3 DEF Move
<1>3. CASE /\ n = 0
           /\ Put(p, x)
           /\ Goto(p, "failing")
           /\ UNCHANGED <<stack, undone>>
  <2>1. x \in State /\ x.obj = s /\ x.status = "failed"
    BY <1>1 DEF State, Statuses
  <2>2. stack[s] = <<>>
    <3>1. stack[s] \in Seq(Steps)
      BY <1>1 DEF TypeInv, TypeOK
    <3> QED
      BY <1>3, <3>1, EmptySeq
  <2> HIDE DEF x
  <2>3. "failing" \in Locations
    BY DEF Locations
  <2>4. Alone(p) /\ pc'[p] = "failing" /\ st'[p] = x
    BY <1>3, <2>1, <2>3, PutAlone
  <2>5. Empties(p)
    BY <1>1, <1>3, <2>1, <2>2, <2>4 DEF Empties, Holds, Quiet
  <2> QED
    BY <2>4, <2>5 DEF Move
<1> QED
  BY <1>2, <1>3 DEF Unwind

LEMMA UndoneMove ==
  ASSUME TypeInv, NEW p \in Procs, UndoOk(p) \/ UndoError(p)
  PROVE  Move(p)
<1>1. /\ Put(p, st[p]) /\ Goto(p, "unwind") /\ pc[p] = "undoing"
      /\ UNCHANGED <<stack, done, undone>>
  BY DEF UndoOk, UndoError, Undone
<1>2. st[p] \in State /\ "unwind" \in Locations
  BY <1>1, StateOfEnding DEF Locations
<1>3. Alone(p) /\ pc'[p] = "unwind" /\ st'[p] = st[p]
  BY <1>1, <1>2, PutAlone
<1> QED
  BY <1>1, <1>3 DEF Move, Resumes, Quiet

LEMMA FailingMove ==
  ASSUME TypeInv, NEW p \in Procs, Failing(p)
  PROVE  Move(p)
<1>1. Goto(p, "done") /\ UNCHANGED <<st, store, shared, logs>>
  BY DEF Failing
<1> QED
  BY <1>1, LeaveMove

LEMMA DecideMove ==
  ASSUME TypeInv, CopiesOK, NEW d \in Decisions,
         NEW kind \in {"approve", "reject"}, Decide(d, kind)
  PROVE  Move(d)
<1>1. /\ pc[d] = "idle" /\ d \in Procs /\ st[d] = NoState
      /\ UNCHANGED <<store, stack, done, undone>>
  BY DEF Decide, Procs, CopiesOK, shared, logs
<1>2. PICK r \in RunIds :
        \/ /\ store[r] # NoState
           /\ st' = [st EXCEPT ![d] = store[r]]
           /\ Goto(d, kind)
        \/ /\ store[r] = NoState
           /\ Goto(d, "refused")
           /\ UNCHANGED st
  BY DEF Decide
<1>3. /\ st'[d] = store[r]
      /\ \A q \in Procs : q # d => st'[q] = st[q]
  BY <1>1, <1>2 DEF TypeInv, TypeOK
<1>4. /\ pc'[d] \in {"approve", "reject", "refused"}
      /\ \A q \in Procs : q # d => pc'[q] = pc[q]
  BY <1>1, <1>2 DEF TypeInv, TypeOK, Goto
<1>5. Alone(d)
  BY <1>1, <1>3, <1>4 DEF Alone
<1> QED
  BY <1>1, <1>3, <1>4, <1>5 DEF Move, Reads, Quiet

LEMMA DecisionMove ==
  ASSUME TypeInv, NEW d \in Decisions,
         Refuse(d) \/ Approve(d) \/ Approved(d) \/ ApprovedDone(d) \/ Reject(d)
  PROVE  Move(d)
<1>1. st[d] \in State /\ d \in Procs /\ d \notin Calls
  BY StateOfDecision DEF Refuse, Approve, Approved, ApprovedDone, Reject
<1>2. ASSUME NEW status \in Statuses, NEW cur \in Steps \cup {NoStep}, NEW l \in Locations,
             Put(d, [st[d] EXCEPT !.status = status, !.cur = cur]), Goto(d, l)
      PROVE  Alone(d) /\ pc'[d] = l /\ Holds(d, st[d].obj, {status})
  <2> DEFINE x == [st[d] EXCEPT !.status = status, !.cur = cur]
  <2>1. x \in State /\ x.obj = st[d].obj /\ x.status = status
    BY <1>1 DEF State
  <2> HIDE DEF x
  <2>2. Alone(d) /\ pc'[d] = l /\ st'[d] = x
    BY <1>1, <1>2, <2>1, PutAlone DEF x
  <2> QED
    BY <2>1, <2>2 DEF Holds
<1>3. ASSUME NEW status \in Statuses
      PROVE  [st[d] EXCEPT !.status = status]
               = [st[d] EXCEPT !.status = status, !.cur = st[d].cur]
  BY <1>1 DEF State
<1>4. st[d].cur \in Steps \cup {NoStep}
  BY <1>1 DEF State
<1>5. CASE Refuse(d) \/ ApprovedDone(d)
  BY <1>1, <1>5, LeaveMove DEF Refuse, ApprovedDone
<1>6. CASE Approve(d)
  <2>1. "running" \in Statuses /\ "approving" \in Locations
    BY DEF Statuses, Locations
  <2>2. /\ Put(d, [st[d] EXCEPT !.status = "running"]) /\ Goto(d, "approving")
        /\ st[d].status = "waiting_for_approval" /\ UNCHANGED <<stack, done, undone>>
    BY <1>6 DEF Approve, Waiting, shared, logs
  <2>3. Put(d, [st[d] EXCEPT !.status = "running", !.cur = st[d].cur])
    BY <1>3, <2>1, <2>2
  <2>4. Alone(d) /\ pc'[d] = "approving" /\ Holds(d, st[d].obj, {"running"})
    BY <1>2, <1>4, <2>1, <2>2, <2>3
  <2> QED
    BY <1>1, <2>2, <2>4 DEF Move, Accepts, Holds, Quiet
<1>7. CASE Approved(d)
  <2>1. "completed" \in Statuses /\ "approved" \in Locations
    BY DEF Statuses, Locations
  <2>2. /\ Put(d, [st[d] EXCEPT !.status = "completed", !.cur = NoStep])
        /\ Goto(d, "approved") /\ pc[d] = "approving"
        /\ UNCHANGED <<stack, done, undone>>
    BY <1>7 DEF Approved, logs
  <2>3. Alone(d) /\ pc'[d] = "approved" /\ Holds(d, st[d].obj, {"completed"})
    BY <1>2, <2>1, <2>2
  <2> QED
    BY <1>1, <2>2, <2>3 DEF Move, Accepts, Holds, Quiet
<1>8. CASE Reject(d)
  <2>1. "compensating" \in Statuses /\ "unwind" \in Locations
    BY DEF Statuses, Locations
  <2>2. /\ Put(d, [st[d] EXCEPT !.status = "compensating"]) /\ Goto(d, "unwind")
        /\ pc[d] = "reject" /\ st[d].status = "waiting_for_approval"
        /\ UNCHANGED <<stack, done, undone>>
    BY <1>8 DEF Reject, Waiting, logs
  <2>3. Put(d, [st[d] EXCEPT !.status = "compensating", !.cur = st[d].cur])
    BY <1>3, <2>1, <2>2
  <2>4. Alone(d) /\ pc'[d] = "unwind" /\ Holds(d, st[d].obj, {"compensating"})
    BY <1>2, <1>4, <2>1, <2>2, <2>3
  <2> QED
    BY <1>1, <2>2, <2>4 DEF Move, Rejects, Quiet
<1> QED
  BY <1>5, <1>6, <1>7, <1>8

LEMMA StepMoves ==
  ASSUME TypeInv, CopiesOK, [Next]_vars
  PROVE  Aside \/ \E p \in Procs : Move(p)
<1>1. ASSUME NEW s \in Calls, Start(s) \/ Timer(s) \/ Answer(s)
      PROVE  Move(s)
  BY <1>1, StartMove, ToolMove DEF Timer, Answer
<1>2. ASSUME NEW s \in Calls, NEW x \in Steps, LateAnswer(s, x)
      PROVE  Aside
  BY <1>2 DEF LateAnswer, Aside, control, shared, logs
<1>3. ASSUME NEW p \in Procs, Segment(p) \/ UndoAnswer(p)
      PROVE  Move(p)
  <2>1. CASE p \in Calls /\ Parked(p)
    <3>1. Goto(p, "done") /\ UNCHANGED <<st, store, shared, logs>>
      BY <2>1 DEF Parked
    <3> QED
      BY <3>1, LeaveMove
  <2>2. CASE p \in Calls /\
               (Begin(p) \/ Advance(p) \/ Deny(p) \/ Park(p) \/ CallTool(p)
                 \/ Branch(p) \/ Finish(p))
    BY <2>2, BeginMove, AdvanceMove, ToolMove, ParkMove, BranchMove, FinishMove
  <2>3. CASE p \in Decisions /\
               (Refuse(p) \/ Approve(p) \/ Approved(p) \/ ApprovedDone(p) \/ Reject(p))
    BY <2>3, DecisionMove
  <2>4. CASE Unwind(p) \/ Failing(p) \/ UndoAnswer(p)
    BY <2>4, UnwindMove, FailingMove, UndoneMove DEF UndoAnswer
  <2> QED
    BY <1>3, <2>1, <2>2, <2>3, <2>4 DEF Segment
<1>4. ASSUME NEW d \in Decisions, NEW kind \in {"approve", "reject"}, Decide(d, kind)
      PROVE  Move(d)
  BY <1>4, DecideMove
<1>5. CASE UNCHANGED vars
  BY <1>5 DEF vars, control, shared, logs, Aside
<1> QED
  BY <1>1, <1>2, <1>3, <1>4, <1>5 DEF Next, Procs

-----------------------------------------------------------------------------
(* The copies of a state tell the truth, always.                           *)

\* A call that compensates: the start() whose arrays it pops has ended.
LEMMA PopsEnded ==
  ASSUME TypeInv, CopiesOK, NEW p \in Procs, pc[p] \in {"unwind", "undoing"}
  PROVE  /\ st[p] \in State /\ st[p].obj \in Calls /\ Ended(st[p].obj)
         /\ st[p].status = "compensating"
<1>1. st[p] \in State /\ st[p].obj \in Calls
  BY StateOfEnding
<1>2. CopyOK(st[p]) /\ st[p].status = "compensating"
  BY <1>1 DEF CopiesOK
<1> QED
  BY <1>1, <1>2 DEF CopyOK

\* start() does not come back once it has ended, or parked the run.
LEMMA EndedStable ==
  ASSUME NEW p \in Procs, Move(p), NEW s \in Calls
  PROVE  (Ended(s) => Ended(s)') /\ (Parking(s) => Parking(s)')
<1>1. CASE s # p
  <2>1. pc'[s] = pc[s]
    BY <1>1 DEF Move, Alone, Procs
  <2> QED
    BY <2>1 DEF Ended, Parking
<1>2. CASE s = p
  <2>1. CASE Forwards(p) \/ Parks(p) \/ Fails(p)
    BY <1>2, <2>1 DEF Forwards, Parks, Fails, Ended, Parking
  <2>2. CASE Leaves(p) \/ Pops(p) \/ Empties(p) \/ Resumes(p)
    BY <1>2, <2>2 DEF Leaves, Pops, Empties, Resumes, Ended, Parking
  <2>3. p \notin Decisions
    BY <1>2
  <2> QED
    BY <2>1, <2>2, <2>3 DEF Move, Reads, Accepts, Rejects
<1> QED
  BY <1>1, <1>2

\* Nobody pushes on the stack of a start() that has ended, and nobody undoes
\* anything before.
LEMMA StackStable ==
  ASSUME TypeInv, CopiesOK, NEW p \in Procs, Move(p), NEW s \in Calls
  PROVE  /\ Ended(s) /\ stack[s] = <<>> => stack'[s] = <<>>
         /\ ~Ended(s) => undone'[s] = undone[s]
<1>1. CASE Quiet
  BY <1>1 DEF Quiet
<1>2. CASE p \in Calls /\ Forwards(p)
  <2>1. CASE stack' = stack
    BY <1>2, <2>1 DEF Forwards
  <2>2. CASE \E x \in Steps : stack' = [stack EXCEPT ![p] = Append(@, x)]
    <3>1. Ended(s) => stack'[s] = stack[s]
      BY <1>2, <2>2 DEF Forwards, TypeInv, TypeOK
    <3> QED
      BY <1>2, <3>1 DEF Forwards
  <2> QED
    BY <1>2, <2>1, <2>2 DEF Forwards
<1>3. CASE Pops(p)
  <2> DEFINE q == st[p].obj
             n == Len(stack[q])
  <2>1. q \in Calls /\ Ended(q)
    BY <1>3, PopsEnded DEF Pops
  <2>2. s # q => stack'[s] = stack[s] /\ undone'[s] = undone[s]
    BY <1>3, <2>1 DEF Pops, TypeInv, TypeOK
  <2>3. stack[q] # <<>>
    BY <1>3 DEF Pops
  <2> QED
    BY <2>1, <2>2, <2>3
<1> QED
  BY <1>1, <1>2, <1>3 DEF Move, Parks, Fails, Leaves, Empties, Resumes, Reads, Accepts, Rejects

\* A copy stays true when nobody touches it.
LEMMA CopyStable ==
  ASSUME TypeInv, CopiesOK, NEW p \in Procs, Move(p), NEW x \in State, CopyOK(x)
  PROVE  CopyOK(x)'
<1>1. x.obj \in Calls
  BY DEF State
<1>2. /\ Ended(x.obj) => Ended(x.obj)'
      /\ Parking(x.obj) => Parking(x.obj)'
      /\ Ended(x.obj) /\ stack[x.obj] = <<>> => stack'[x.obj] = <<>>
  BY <1>1, EndedStable, StackStable
<1> QED
  BY <1>2 DEF CopyOK

\* The copy that a move leaves with its call is true.
LEMMA CopyMoved ==
  ASSUME TypeInv, CopiesOK, NEW p \in Procs, Move(p), st'[p] # NoState
  PROVE  st'[p] \in State /\ CopyOK(st[p])'
<1>0. /\ st[p] \in State \cup {NoState}
      /\ \A r \in RunIds : store[r] \in State \cup {NoState}
  BY DEF TypeInv, TypeOK
<1>1. CASE st'[p] = st[p] \/ \E r \in RunIds : st'[p] = store[r]
  <2>1. st'[p] \in State /\ CopyOK(st'[p])
    BY <1>0, <1>1 DEF CopiesOK
  <2>2. \A y \in State : CopyOK(y) => CopyOK(y)'
    BY CopyStable
  <2>3. PICK y \in State : y = st'[p]
    BY <2>1
  <2>4. CopyOK(y)'
    BY <2>1, <2>2, <2>3
  <2> QED
    BY <2>1, <2>3, <2>4 DEF CopyOK
<1>2. CASE p \in Calls /\ Forwards(p)
  BY <1>2 DEF Forwards, Holds, CopyOK
<1>3. CASE p \in Calls /\ Parks(p)
  BY <1>3 DEF Parks, Holds, CopyOK, Parking
<1>4. CASE p \in Calls /\ Fails(p)
  BY <1>4 DEF Fails, Holds, CopyOK, Ended
<1>5. CASE Empties(p)
  <2>0. PICK s \in Calls : s = st[p].obj
    BY <1>5, PopsEnded DEF Empties
  <2>1. Ended(s)
    BY <1>5, <2>0, PopsEnded DEF Empties
  <2>2. Ended(s)'
    BY <2>1, EndedStable
  <2>3. st'[p] \in State /\ st'[p].obj = s /\ st'[p].status = "failed" /\ stack'[s] = <<>>
    BY <1>5, <2>0 DEF Empties, Holds, Quiet
  <2> QED
    BY <2>2, <2>3 DEF CopyOK, Ended
<1>6. CASE Accepts(p)
  BY <1>6 DEF Accepts, Holds, CopyOK
<1>7. CASE Rejects(p)
  <2>1. st[p] \in State
    BY <1>7, StateOfDecision DEF Rejects
  <2>2. PICK s \in Calls : s = st[p].obj
    BY <2>1 DEF State
  <2>3. CopyOK(st[p])
    BY <1>0, <2>1 DEF CopiesOK
  <2>4. Parking(s)'
    BY <1>7, <2>2, <2>3, EndedStable DEF Rejects, CopyOK
  <2> QED
    BY <1>7, <2>2, <2>4 DEF Rejects, Holds, CopyOK, Parking, Ended
<1> QED
  BY <1>1, <1>2, <1>3, <1>4, <1>5, <1>6, <1>7
  DEF Move, Leaves, Pops, Resumes, Reads

LEMMA CopiesInit == Init => CopiesOK
BY DEF Init, CopiesOK, Procs

LEMMA CopiesStep ==
  ASSUME TypeInv, CopiesOK, NEW p \in Procs, Move(p)
  PROVE  CopiesOK'
<1>1. \A y \in State : CopyOK(y) => CopyOK(y)'
  BY CopyStable
<1>2. /\ st \in [Procs -> State \cup {NoState}]
      /\ store \in [RunIds -> State \cup {NoState}]
      /\ Alone(p)
  BY DEF TypeInv, TypeOK, Move
<1>3. st'[p] # NoState => CopyOK(st[p])'
  BY CopyMoved
<1>4. ASSUME NEW q \in Procs, st'[q] # NoState
      PROVE  CopyOK(st[q])'
  <2>1. CASE q = p
    BY <1>3, <1>4, <2>1
  <2>2. CASE q # p
    <3>1. st'[q] = st[q] /\ st[q] \in State /\ CopyOK(st[q])
      BY <1>2, <1>4, <2>2 DEF Alone, CopiesOK
    <3>2. PICK y \in State : y = st[q]
      BY <3>1
    <3>3. CopyOK(y)' /\ y = st'[q]
      BY <1>1, <3>1, <3>2
    <3> QED
      BY <3>3 DEF CopyOK
  <2> QED
    BY <2>1, <2>2
<1>5. ASSUME NEW r \in RunIds, store'[r] # NoState
      PROVE  CopyOK(store[r])'
  <2>1. CASE store'[r] = st'[p]
    BY <1>3, <1>5, <2>1 DEF CopyOK
  <2>2. CASE store'[r] = store[r]
    <3>1. store[r] \in State /\ CopyOK(store[r])
      BY <1>2, <1>5, <2>2 DEF CopiesOK
    <3>2. PICK y \in State : y = store[r]
      BY <3>1
    <3>3. CopyOK(y)' /\ y = store'[r]
      BY <1>1, <2>2, <3>1, <3>2
    <3> QED
      BY <3>3 DEF CopyOK
  <2> QED
    BY <1>2, <2>1, <2>2 DEF Alone
<1>6. ASSUME NEW q \in Procs
      PROVE  /\ pc'[q] = "idle" => st'[q] = NoState
             /\ pc'[q] \in {"unwind", "undoing"} => st'[q].status = "compensating"
  <2>1. CASE q # p
    BY <1>2, <1>6, <2>1 DEF Alone, CopiesOK
  <2>2. pc'[p] # "idle"
    BY DEF Move, Forwards, Parks, Fails, Leaves, Pops, Empties, Resumes, Reads, Accepts, Rejects
  <2>3. pc'[p] \in {"unwind", "undoing"} => st'[p].status = "compensating"
    <3>1. CASE Fails(p) \/ Rejects(p)
      BY <3>1 DEF Fails, Rejects, Holds
    <3>2. CASE Pops(p) \/ Resumes(p)
      BY <3>2, PopsEnded DEF Pops, Resumes
    <3> QED
      BY <3>1, <3>2 DEF Move, Forwards, Parks, Leaves, Empties, Reads, Accepts
  <2> QED
    BY <2>1, <2>2, <2>3
<1>7. ASSUME NEW s \in Calls, ~Ended(s)'
      PROVE  undone'[s] = <<>>
  <2>1. ~Ended(s)
    BY <1>7, EndedStable
  <2>2. undone'[s] = undone[s] /\ undone[s] = <<>>
    BY <2>1, StackStable DEF CopiesOK
  <2> QED
    BY <2>2
<1> QED
  BY <1>4, <1>5, <1>6, <1>7 DEF CopiesOK

LEMMA CopiesAside == CopiesOK /\ Aside => CopiesOK'
BY DEF CopiesOK, Aside, CopyOK, Ended, Parking

-----------------------------------------------------------------------------
(* The ledger of compensation.                                             *)

\* Three sequences of steps form a ledger: what is done is what is left on the
\* stack, followed by what is undone in reverse.
Balanced(d, k, u) ==
  /\ Len(d) = Len(k) + Len(u)
  /\ \A i \in 1 .. Len(k) : k[i] = d[i]
  /\ \A i \in 1 .. Len(u) : u[i] = d[Len(d) - i + 1]

LEMMA BalancedPush ==
  ASSUME NEW d \in Seq(Steps), NEW k \in Seq(Steps), NEW x \in Steps,
         Balanced(d, k, <<>>)
  PROVE  Balanced(Append(d, x), Append(k, x), <<>>)
<1>1. Len(d) \in Nat /\ Len(k) \in Nat /\ Len(d) = Len(k)
  BY LenProperties, EmptySeq DEF Balanced
<1>2. /\ Len(Append(d, x)) = Len(d) + 1 /\ Len(Append(k, x)) = Len(k) + 1
      /\ \A i \in 1 .. Len(d) : Append(d, x)[i] = d[i]
      /\ \A i \in 1 .. Len(k) : Append(k, x)[i] = k[i]
      /\ Append(d, x)[Len(d) + 1] = x
      /\ Append(k, x)[Len(k) + 1] = x
  BY AppendProperties
<1>3. \A i \in 1 .. Len(k) : k[i] = d[i]
  BY DEF Balanced
<1>4. \A i \in 1 .. Len(k) + 1 : i \in 1 .. Len(k) \/ i = Len(k) + 1
  <2>1. \A m \in Nat : \A i \in 1 .. m + 1 : i \in 1 .. m \/ i = m + 1
    OBVIOUS
  <2> QED
    BY <1>1, <2>1
<1>5. \A i \in 1 .. Len(k) + 1 : Append(k, x)[i] = Append(d, x)[i]
  BY <1>1, <1>2, <1>3, <1>4
<1>6. Len(<<>>) = 0 /\ 1 .. Len(<<>>) = {}
  BY EmptySeq
<1>7. Len(Append(d, x)) = Len(Append(k, x)) + Len(<<>>)
  BY <1>1, <1>2, <1>6
<1>8. \A i \in 1 .. Len(Append(k, x)) : Append(k, x)[i] = Append(d, x)[i]
  BY <1>2, <1>5
<1> QED
  BY <1>6, <1>7, <1>8 DEF Balanced

LEMMA BalancedPop ==
  ASSUME NEW d \in Seq(Steps), NEW k \in Seq(Steps), NEW u \in Seq(Steps),
         Len(k) > 0, Balanced(d, k, u)
  PROVE  Balanced(d, SubSeq(k, 1, Len(k) - 1), Append(u, k[Len(k)]))
<1> DEFINE n == Len(k)
           f == SubSeq(k, 1, n - 1)
           v == Append(u, k[n])
<1>1. Len(d) \in Nat /\ n \in Nat \ {0} /\ Len(u) \in Nat /\ Len(d) = n + Len(u)
  BY LenProperties DEF Balanced
<1>2. k[n] \in Steps /\ Len(f) = n - 1 /\ \A i \in 1 .. n - 1 : f[i] = k[i]
  BY PopType
<1>3. /\ Len(v) = Len(u) + 1 /\ v[Len(u) + 1] = k[n]
      /\ \A i \in 1 .. Len(u) : v[i] = u[i]
  BY <1>2, AppendProperties
<1>4. /\ \A i \in 1 .. n : k[i] = d[i]
      /\ \A i \in 1 .. Len(u) : u[i] = d[Len(d) - i + 1]
  BY DEF Balanced
<1> HIDE DEF f, v, n
<1>5. \A i \in 1 .. n - 1 : f[i] = d[i]
  <2>1. \A i \in 1 .. n - 1 : i \in 1 .. n
    BY <1>1
  <2> QED
    BY <1>2, <1>4, <2>1
<1>6. v[Len(u) + 1] = d[Len(d) - (Len(u) + 1) + 1]
  <2>1. n \in 1 .. n /\ Len(d) - (Len(u) + 1) + 1 = n
    BY <1>1
  <2> QED
    BY <1>3, <1>4, <2>1
<1>7. \A i \in 1 .. Len(u) + 1 : i \in 1 .. Len(u) \/ i = Len(u) + 1
  <2>1. \A m \in Nat : \A i \in 1 .. m + 1 : i \in 1 .. m \/ i = m + 1
    OBVIOUS
  <2> QED
    BY <1>1, <2>1
<1>8. \A i \in 1 .. Len(u) + 1 : v[i] = d[Len(d) - i + 1]
  BY <1>3, <1>4, <1>6, <1>7
<1>9. Len(d) = Len(f) + Len(v)
  BY <1>1, <1>2, <1>3
<1>10. Balanced(d, f, v)
  BY <1>2, <1>3, <1>5, <1>8, <1>9 DEF Balanced
<1> QED
  BY <1>10 DEF f, v, n

LEMMA LedgerIsBalanced ==
  UndoLedger <=> \A s \in Calls : Balanced(done[s], stack[s], undone[s])
BY DEF UndoLedger, Balanced

LEMMA LedgerStep ==
  ASSUME TypeInv, CopiesOK, UndoLedger, NEW p \in Procs, Move(p)
  PROVE  UndoLedger'
<1>1. TypeOK /\ \A s \in Calls : Balanced(done[s], stack[s], undone[s])
  BY LedgerIsBalanced DEF TypeInv
<1> SUFFICES ASSUME NEW s \in Calls
             PROVE  Balanced(done[s], stack[s], undone[s])'
  BY DEF UndoLedger, Balanced
<1>2. done[s] \in Seq(Steps) /\ stack[s] \in Seq(Steps) /\ undone[s] \in Seq(Steps)
  BY <1>1 DEF TypeOK
<1>3. CASE done'[s] = done[s] /\ stack'[s] = stack[s] /\ undone'[s] = undone[s]
  <2>1. Balanced(done[s], stack[s], undone[s])
    BY <1>1
  <2> QED
    BY <1>3, <2>1 DEF Balanced
<1>4. CASE p \in Calls /\ Forwards(p)
  <2>1. CASE s # p
    <3>1. done'[s] = done[s] /\ stack'[s] = stack[s] /\ undone'[s] = undone[s]
      BY <1>1, <1>4, <2>1 DEF Forwards, TypeOK
    <3> QED
      BY <1>3, <3>1
  <2>2. CASE s = p
    <3>1. undone[s] = <<>> /\ undone'[s] = <<>>
      BY <1>4, <2>2 DEF Forwards, CopiesOK
    <3>2. CASE UNCHANGED <<stack, done>>
      BY <1>3, <3>1, <3>2
    <3>3. CASE \E x \in Steps : /\ stack' = [stack EXCEPT ![p] = Append(@, x)]
                                /\ done' = [done EXCEPT ![p] = Append(@, x)]
      <4>1. PICK x \in Steps : /\ stack'[s] = Append(stack[s], x)
                               /\ done'[s] = Append(done[s], x)
        BY <1>1, <2>2, <3>3 DEF TypeOK
      <4>2. Balanced(Append(done[s], x), Append(stack[s], x), <<>>)
        BY <1>1, <1>2, <3>1, BalancedPush
      <4> QED
        BY <3>1, <4>1, <4>2 DEF Balanced
    <3> QED
      BY <1>4, <3>2, <3>3 DEF Forwards
  <2> QED
    BY <2>1, <2>2
<1>5. CASE Pops(p)
  <2>1. PICK q \in Calls : q = st[p].obj
    BY <1>5, PopsEnded DEF Pops
  <2>2. /\ done' = done
        /\ Len(stack[q]) > 0
        /\ stack' = [stack EXCEPT ![q] = SubSeq(@, 1, Len(@) - 1)]
        /\ undone' = [undone EXCEPT ![q] = Append(@, stack[q][Len(stack[q])])]
    BY <1>5, <2>1 DEF Pops
  <2>3. CASE s # q
    <3>1. done'[s] = done[s] /\ stack'[s] = stack[s] /\ undone'[s] = undone[s]
      BY <1>1, <2>2, <2>3 DEF TypeOK
    <3> QED
      BY <1>3, <3>1
  <2>4. CASE s = q
    <3>1. /\ done'[s] = done[s]
          /\ stack'[s] = SubSeq(stack[s], 1, Len(stack[s]) - 1)
          /\ undone'[s] = Append(undone[s], stack[s][Len(stack[s])])
      BY <1>1, <2>2, <2>4 DEF TypeOK
    <3>2. Balanced(done[s], SubSeq(stack[s], 1, Len(stack[s]) - 1),
                   Append(undone[s], stack[s][Len(stack[s])]))
      BY <1>1, <1>2, <2>2, <2>4, BalancedPop
    <3> QED
      BY <3>1, <3>2 DEF Balanced
  <2> QED
    BY <2>3, <2>4
<1>6. CASE Quiet
  BY <1>3, <1>6 DEF Quiet
<1> QED
  BY <1>4, <1>5, <1>6
  DEF Move, Parks, Fails, Leaves, Empties, Resumes, Reads, Accepts, Rejects

LEMMA LedgerInit == Init => UndoLedger
BY EmptySeq DEF Init, UndoLedger

LEMMA LedgerInvInit == Init => LedgerInv
BY TypeInit, CopiesInit, LedgerInit DEF LedgerInv

LEMMA LedgerInvStep == LedgerInv /\ [Next]_vars => LedgerInv'
<1> SUFFICES ASSUME LedgerInv, [Next]_vars PROVE LedgerInv'
  OBVIOUS
<1>1. TypeInv /\ CopiesOK /\ UndoLedger
  BY DEF LedgerInv
<1>2. TypeInv'
  BY <1>1, TypeStep
<1>3. CASE Aside
  BY <1>1, <1>2, <1>3, CopiesAside DEF LedgerInv, UndoLedger, Aside
<1>4. CASE \E p \in Procs : Move(p)
  BY <1>1, <1>2, <1>4, CopiesStep, LedgerStep DEF LedgerInv
<1> QED
  BY <1>1, <1>3, <1>4, StepMoves

\* However the pops of compensate() interleave with each other, with the
\* timers and with the tools' answers, for whatever number of start() and
\* reject() calls on colliding run ids: every completed step that has a
\* compensation is either still on the stack or was compensated once, latest
\* first.
THEOREM LedgerCorrect == Spec => []UndoLedger
<1>1. LedgerInv => UndoLedger
  BY DEF LedgerInv
<1> QED
  BY <1>1, LedgerInvInit, LedgerInvStep, PTL DEF Spec

\* A run stored as failed has nothing left to compensate, and never will have.
THEOREM FailedCorrect == Spec => []FailedIsUnwound
<1>1. LedgerInv => FailedIsUnwound
  BY DEF LedgerInv, CopiesOK, CopyOK, FailedIsUnwound
<1> QED
  BY <1>1, LedgerInvInit, LedgerInvStep, PTL DEF Spec
-----------------------------------------------------------------------------
(* The history tells which compensations succeeded.                        *)

\* A record of step x is in a history.
Has(h, x) == \E i \in DOMAIN h : h[i].step = x

\* Every step that is recorded has a first record.
Firsts(h) ==
  \A i \in DOMAIN h :
    \E j \in 1 .. i : /\ h[j].step = h[i].step
                      /\ \A k \in 1 .. j - 1 : h[k].step # h[i].step

\* The first record is the one that compensate() finds; every step on the
\* stack, and every one that is being undone, was recorded when it completed.
RecordsOK ==
  /\ \A s \in Calls : Firsts(history[s])
  /\ \A s \in Calls : \A k \in 1 .. Len(done[s]) : Has(history[s], done[s][k])
  /\ \A p \in Procs : pc[p] = "undoing" => Has(history[st[p].obj], entry[p])

HistoryInv == LedgerInv /\ RecordsOK /\ HistoryTellsUndo

\* A step of the run is recorded, and perhaps completed with a compensation.
Records(s) ==
  /\ \E x \in Steps, outcome \in {"completed", "failed", "rejected"} :
       /\ history' = [history EXCEPT ![s] = Append(@, [step |-> x, outcome |-> outcome])]
       /\ done' \in {done, [done EXCEPT ![s] = Append(@, x)]}
  /\ undoOk' = undoOk

\* A compensation has succeeded.
Marks(p) ==
  LET s == st[p].obj IN
  /\ pc[p] = "undoing"
  /\ history' = [history EXCEPT ![s] = Mark(@, entry[p])]
  /\ undoOk' = [undoOk EXCEPT ![s] = @ \cup {entry[p]}]
  /\ done' = done

LEMMA StepRecords ==
  ASSUME TypeInv, [Next]_vars
  PROVE  \/ UNCHANGED <<history, done, undoOk>>
         \/ \E s \in Calls : Records(s)
         \/ \E p \in Procs : Marks(p)
<1>1. ASSUME NEW s \in Calls, NEW x \in Steps, CompleteStep(s, x)
      PROVE  Records(s)
  BY <1>1 DEF CompleteStep, Push, Records
<1>2. ASSUME NEW s \in Calls, pc[s] \in {"checking", "calling"}, FailStep(s)
      PROVE  Records(s)
  <2>1. StepOf(Top(s)) \in Steps
    BY <1>2, TopType
  <2> QED
    BY <1>2, <2>1 DEF FailStep, Push, Records, logs
<1>3. ASSUME NEW s \in Calls, Timer(s) \/ Answer(s) \/ Deny(s) \/ CallTool(s)
      PROVE  Records(s) \/ UNCHANGED <<history, done, undoOk>>
  <2>1. CASE ToolOk(s)
    <3>1. StepOf(Top(s)) \in Steps /\ CompleteStep(s, StepOf(Top(s)))
      BY <2>1, TopType DEF ToolOk
    <3> QED
      BY <1>1, <3>1
  <2>2. CASE ToolError(s) \/ Timeout(s)
    BY <1>2, <2>2 DEF ToolError, Timeout, AfterFailure, shared, logs
  <2>3. CASE Deny(s) \/ CallTool(s)
    BY <1>2, <2>3 DEF Deny, CallTool, shared, logs
  <2>4. CASE Retry(s)
    BY <2>4 DEF Retry, shared, logs
  <2> QED
    BY <1>3, <2>1, <2>2, <2>3, <2>4 DEF Timer, Answer
<1>4. ASSUME NEW s \in Calls, Branch(s) \/ Finish(s)
      PROVE  Records(s) \/ UNCHANGED <<history, done, undoOk>>
  <2>1. CASE Branch(s)
    <3>1. StepOf(Top(s)) \in Steps
      BY <2>1, TopType DEF Branch
    <3> QED
      BY <1>1, <2>1, <3>1 DEF Branch, shared, logs
  <2>2. CASE Finish(s)
    <3> DEFINE outer == SubSeq(frames[s], 1, Len(frames[s]) - 1)
    <3>1. Len(frames[s]) > 1 => StepOf(outer[Len(outer)]) \in Steps
      BY <2>2, FinishFrames DEF Finish
    <3> QED
      BY <1>1, <2>2, <3>1 DEF Finish, shared, logs
  <2> QED
    BY <1>4, <2>1, <2>2
<1>5. ASSUME NEW d \in Decisions, Approved(d) \/ Reject(d)
      PROVE  UNCHANGED <<history, done, undoOk>> \/ \E s \in Calls : Records(s)
  <2>1. st[d] \in State /\ st[d].obj \in Calls /\ st[d].cur \in Steps \cup {NoStep}
    BY <1>5, StateOfDecision DEF Approved, Reject, State
  <2> QED
    BY <1>5, <2>1 DEF Approved, Reject, Record, Records, logs
<1>6. ASSUME NEW p \in Procs, UndoAnswer(p)
      PROVE  Marks(p) \/ UNCHANGED <<history, done, undoOk>>
  BY <1>6 DEF UndoAnswer, UndoOk, UndoError, Undone, Marks
<1>7. ASSUME NEW p \in Procs,
             \/ p \in Calls /\ (Begin(p) \/ Advance(p) \/ Park(p) \/ Parked(p) \/ Start(p))
             \/ p \in Decisions /\ (Refuse(p) \/ Approve(p) \/ ApprovedDone(p))
             \/ Unwind(p) \/ Failing(p)
      PROVE  UNCHANGED <<history, done, undoOk>>
  BY <1>7 DEF Begin, Advance, Park, Parked, Start, Refuse, Approve, ApprovedDone,
              Unwind, Failing, shared, logs
<1>8. ASSUME \/ \E s \in Calls, x \in Steps : LateAnswer(s, x)
             \/ \E d \in Decisions, kind \in {"approve", "reject"} : Decide(d, kind)
             \/ UNCHANGED vars
      PROVE  UNCHANGED <<history, done, undoOk>>
  BY <1>8 DEF LateAnswer, Decide, vars, shared, logs
<1> QED
  BY <1>3, <1>4, <1>5, <1>6, <1>7, <1>8 DEF Next, Segment, Procs

\* What a call undoes is what it has popped, and stays so until it is undone.
LEMMA StepEntry ==
  ASSUME TypeInv, [Next]_vars, NEW p \in Procs, pc'[p] = "undoing"
  PROVE  \/ pc[p] = "undoing" /\ entry'[p] = entry[p]
         \/ LET s == st[p].obj IN
            /\ pc[p] = "unwind" /\ Len(stack[s]) > 0
            /\ entry'[p] = stack[s][Len(stack[s])]
<1> DEFINE Same == pc[p] = "undoing" /\ entry'[p] = entry[p]
<1>1. TypeOK
  BY DEF TypeInv
<1>2. ASSUME NEW q \in Procs, NEW l \in Locations, Goto(q, l), l # "undoing", UNCHANGED entry
      PROVE  Same
  BY <1>1, <1>2, GotoType
<1>3. ASSUME UNCHANGED pc, UNCHANGED entry
      PROVE  Same
  BY <1>3
<1>4. ASSUME NEW s \in Calls,
             \/ Start(s) \/ Timer(s) \/ Answer(s) \/ Begin(s) \/ Advance(s) \/ Deny(s)
             \/ Park(s) \/ Parked(s) \/ CallTool(s) \/ Branch(s) \/ Finish(s)
      PROVE  \E l \in Locations : l # "undoing" /\ Goto(s, l) /\ UNCHANGED entry
  <2>1. CASE Timer(s) \/ Answer(s) \/ Deny(s) \/ CallTool(s)
    BY <2>1 DEF Timer, Answer, ToolOk, ToolError, Timeout, Retry, Deny, CallTool,
                AfterFailure, FailStep, CompleteStep, Locations
  <2>2. CASE Start(s) \/ Begin(s) \/ Advance(s) \/ Park(s) \/ Parked(s)
    BY <2>2 DEF Start, Begin, Advance, Loop, Park, Parked, Locations
  <2>3. CASE Branch(s) \/ Finish(s)
    BY <2>3 DEF Branch, Finish, Loop, CompleteStep, Locations
  <2> QED
    BY <1>4, <2>1, <2>2, <2>3
<1>5. ASSUME NEW d \in Decisions,
             \/ Refuse(d) \/ Approve(d) \/ Approved(d) \/ ApprovedDone(d) \/ Reject(d)
             \/ \E kind \in {"approve", "reject"} : Decide(d, kind)
      PROVE  \E l \in Locations : l # "undoing" /\ Goto(d, l) /\ UNCHANGED entry
  BY <1>5 DEF Refuse, Approve, Approved, ApprovedDone, Reject, Decide, Locations
<1>6. ASSUME NEW q \in Procs, Failing(q)
      PROVE  \E l \in Locations : l # "undoing" /\ Goto(q, l) /\ UNCHANGED entry
  BY <1>6 DEF Failing, Locations
<1>7. ASSUME NEW q \in Procs, UndoAnswer(q)
      PROVE  Same
  <2>1. Goto(q, "unwind") /\ entry' = [entry EXCEPT ![q] = NoStep] /\ "unwind" \in Locations
    BY <1>7 DEF UndoAnswer, UndoOk, UndoError, Undone, Locations
  <2>2. pc'[q] = "unwind" /\ \A r \in Procs : r # q => pc'[r] = pc[r]
    BY <1>1, <2>1, GotoType
  <2> QED
    BY <1>1, <2>1, <2>2 DEF TypeOK
<1>8. ASSUME NEW q \in Procs, Unwind(q)
      PROVE  \/ Same
             \/ /\ q = p /\ pc[p] = "unwind" /\ Len(stack[st[p].obj]) > 0
                /\ entry'[p] = stack[st[p].obj][Len(stack[st[p].obj])]
  <2> DEFINE s == st[q].obj
             n == Len(stack[s])
  <2>1. CASE /\ n > 0 /\ pc[q] = "unwind" /\ Goto(q, "undoing")
             /\ entry' = [entry EXCEPT ![q] = stack[s][n]]
    <3>1. \A r \in Procs : r # q => pc'[r] = pc[r]
      BY <1>1, <2>1, GotoType DEF Locations
    <3> QED
      BY <1>1, <2>1, <3>1 DEF TypeOK
  <2>2. CASE Goto(q, "failing") /\ UNCHANGED entry
    BY <1>2, <2>2 DEF Locations
  <2> QED
    BY <1>8, <2>1, <2>2 DEF Unwind
<1>9. ASSUME (\E s \in Calls, x \in Steps : LateAnswer(s, x)) \/ UNCHANGED vars
      PROVE  UNCHANGED <<pc, entry>>
  BY <1>9 DEF LateAnswer, vars, control
<1>10. ASSUME NEW q \in Procs, \E l \in Locations : l # "undoing" /\ Goto(q, l) /\ UNCHANGED entry
       PROVE  Same
  BY <1>2, <1>10
<1> HIDE DEF Same
<1>11. CASE \E s \in Calls : Start(s) \/ Timer(s) \/ Answer(s)
  BY <1>4, <1>10, <1>11 DEF Procs, Same
<1>12. CASE \E d \in Decisions, kind \in {"approve", "reject"} : Decide(d, kind)
  BY <1>5, <1>10, <1>12 DEF Procs, Same
<1>13. CASE \E q \in Procs : Segment(q) \/ UndoAnswer(q)
  <2>1. PICK q \in Procs : Segment(q) \/ UndoAnswer(q)
    BY <1>13
  <2>2. CASE UndoAnswer(q)
    BY <1>7, <2>2 DEF Same
  <2>3. CASE Unwind(q)
    BY <1>8, <2>3 DEF Same
  <2>4. CASE Segment(q) /\ ~Unwind(q)
    BY <1>4, <1>5, <1>6, <1>10, <2>4 DEF Segment, Same
  <2> QED
    BY <2>1, <2>2, <2>3, <2>4
<1> QED
  BY <1>3, <1>9, <1>11, <1>12, <1>13 DEF Next, Same

\* What a new record adds to a history, and what it leaves.
LEMMA AppendRecord ==
  ASSUME NEW h \in Seq(StepRecord), NEW r \in StepRecord
  PROVE  /\ DOMAIN h = 1 .. Len(h) /\ Len(h) \in Nat
         /\ DOMAIN Append(h, r) = 1 .. Len(h) + 1
         /\ \A i \in 1 .. Len(h) : Append(h, r)[i] = h[i]
         /\ Append(h, r)[Len(h) + 1] = r
         /\ \A i \in 1 .. Len(h) + 1 : i \in 1 .. Len(h) \/ i = Len(h) + 1
<1>1. Len(h) \in Nat /\ DOMAIN h = 1 .. Len(h)
  BY LenProperties
<1>2. /\ Append(h, r) \in Seq(StepRecord) /\ Len(Append(h, r)) = Len(h) + 1
      /\ \A i \in 1 .. Len(h) : Append(h, r)[i] = h[i]
      /\ Append(h, r)[Len(h) + 1] = r
  BY AppendProperties
<1>3. DOMAIN Append(h, r) = 1 .. Len(h) + 1
  BY <1>2, LenProperties
<1>4. \A n \in Nat : \A i \in 1 .. n + 1 : i \in 1 .. n \/ i = n + 1
  OBVIOUS
<1> QED
  BY <1>1, <1>2, <1>3, <1>4

\* Marking a step that was recorded adds it to the compensated ones, and
\* changes nobody's step.
LEMMA MarkTells ==
  ASSUME NEW h \in Seq(StepRecord), NEW x \in Steps,
         NEW f \in DOMAIN h, h[f].step = x, \A k \in 1 .. f - 1 : h[k].step # x
  PROVE  /\ DOMAIN Mark(h, x) = DOMAIN h
         /\ \A i \in DOMAIN h : Mark(h, x)[i].step = h[i].step
         /\ \A y \in Steps :
              (\E i \in DOMAIN h : Mark(h, x)[i] = [step |-> y, outcome |-> "compensated"])
              <=> \/ y = x
                  \/ \E i \in DOMAIN h : h[i] = [step |-> y, outcome |-> "compensated"]
<1> DEFINE c(y) == [step |-> y, outcome |-> "compensated"]
<1>1. DOMAIN h = 1 .. Len(h) /\ Len(h) \in Nat /\ \A i \in DOMAIN h : h[i] \in StepRecord
  BY LenProperties, ElementOfSeq
<1>2. \A i \in DOMAIN h : [h[i] EXCEPT !.outcome = "compensated"] = c(h[i].step)
  <2>1. \A q \in StepRecord : [q EXCEPT !.outcome = "compensated"] = c(q.step)
    BY DEF StepRecord
  <2> QED
    BY <1>1, <2>1
<1>3. /\ DOMAIN Mark(h, x) = DOMAIN h
      /\ \A i \in DOMAIN h : Mark(h, x)[i] =
           IF h[i].step = x /\ \A j \in 1 .. i - 1 : h[j].step # x THEN c(h[i].step) ELSE h[i]
  BY <1>2 DEF Mark
<1>4. \A y : c(y).step = y
  OBVIOUS
<1> HIDE DEF c
<1>5. \A i \in DOMAIN h : Mark(h, x)[i].step = h[i].step
  BY <1>3, <1>4
<1>6. Mark(h, x)[f] = c(x)
  BY <1>3
<1>7. \A i \in DOMAIN h : Mark(h, x)[i] = h[i] \/ Mark(h, x)[i] = c(x)
  BY <1>3
<1>8. \A i \in DOMAIN h : \A y \in Steps : h[i] = c(y) /\ y # x => Mark(h, x)[i] = h[i]
  BY <1>3, <1>4
<1>9. ASSUME NEW y \in Steps
      PROVE  (\E i \in DOMAIN h : Mark(h, x)[i] = c(y)) <=> (y = x \/ \E i \in DOMAIN h : h[i] = c(y))
  <2>1. y = x => \E i \in DOMAIN h : Mark(h, x)[i] = c(y)
    BY <1>6
  <2>2. ASSUME NEW i \in DOMAIN h, h[i] = c(y), y # x
        PROVE  Mark(h, x)[i] = c(y)
    BY <1>8, <2>2
  <2>3. ASSUME NEW i \in DOMAIN h, Mark(h, x)[i] = c(y), y # x
        PROVE  h[i] = c(y)
    <3>1. c(y) # c(x)
      BY <1>4, <2>3
    <3> QED
      BY <1>7, <2>3, <3>1
  <2> QED
    BY <2>1, <2>2, <2>3
<1> QED
  BY <1>3, <1>5, <1>9 DEF c

LEMMA HistoryInvInit == Init => HistoryInv
<1> SUFFICES ASSUME Init PROVE HistoryInv
  OBVIOUS
<1>1. LedgerInv
  BY LedgerInvInit
<1>2. /\ \A s \in Calls : history[s] = <<>> /\ done[s] = <<>> /\ undoOk[s] = {}
      /\ \A p \in Procs : pc[p] = "idle"
  BY DEF Init
<1>3. DOMAIN <<>> = {} /\ 1 .. Len(<<>>) = {}
  BY EmptySeq, LenProperties
<1> QED
  BY <1>1, <1>2, <1>3 DEF HistoryInv, RecordsOK, Firsts, HistoryTellsUndo

\* Nobody loses a record.
LEMMA RecordedStable ==
  ASSUME HistoryInv, [Next]_vars, NEW s \in Calls, NEW x, Has(history[s], x)
  PROVE  Has(history'[s], x)
<1>1. TypeInv /\ history \in [Calls -> Seq(StepRecord)]
  BY DEF HistoryInv, LedgerInv, TypeInv, TypeOK
<1>2. PICK i \in DOMAIN history[s] : history[s][i].step = x
  BY DEF Has
<1>3. CASE history' = history
  BY <1>2, <1>3 DEF Has
<1>4. ASSUME NEW q \in Calls, Records(q)
      PROVE  Has(history'[s], x)
  <2>1. PICK r \in StepRecord : history' = [history EXCEPT ![q] = Append(@, r)]
    BY <1>4 DEF Records, StepRecord
  <2>2. CASE q # s
    BY <1>1, <1>2, <2>1, <2>2 DEF Has
  <2>3. CASE q = s
    <3>1. history'[s] = Append(history[s], r)
      BY <1>1, <2>1, <2>3
    <3>2. i \in 1 .. Len(history[s]) /\ i \in 1 .. Len(history[s]) + 1
      BY <1>1, <1>2, AppendRecord
    <3> QED
      BY <1>1, <1>2, <3>1, <3>2, AppendRecord DEF Has
  <2> QED
    BY <2>2, <2>3
<1>5. ASSUME NEW p \in Procs, Marks(p)
      PROVE  Has(history'[s], x)
  <2> DEFINE q == st[p].obj
  <2>1. history' = [history EXCEPT ![q] = Mark(@, entry[p])]
    BY <1>5 DEF Marks
  <2>2. CASE q # s
    BY <1>1, <1>2, <2>1, <2>2 DEF Has
  <2>3. CASE q = s
    <3>1. history'[s] = Mark(history[s], entry[p])
      BY <1>1, <2>1, <2>3
    <3>2. history[s][i] \in StepRecord
      BY <1>1, <1>2, ElementOfSeq, LenProperties
    <3>3. i \in DOMAIN history'[s] /\ history'[s][i].step = x
      BY <1>2, <3>1, <3>2 DEF Mark, StepRecord
    <3> QED
      BY <3>3 DEF Has
  <2> QED
    BY <2>2, <2>3
<1> QED
  BY <1>1, <1>3, <1>4, <1>5, StepRecords

\* The first record of a step stays the first.
LEMMA FirstsAppend ==
  ASSUME NEW h \in Seq(StepRecord), NEW r \in StepRecord, Firsts(h)
  PROVE  Firsts(Append(h, r))
<1> DEFINE n == Len(h)
           g == Append(h, r)
<1>1. /\ DOMAIN h = 1 .. n /\ n \in Nat /\ DOMAIN g = 1 .. n + 1
      /\ \A i \in 1 .. n : g[i] = h[i]
      /\ g[n + 1] = r
      /\ \A i \in 1 .. n + 1 : i \in 1 .. n \/ i = n + 1
  BY AppendRecord
<1> HIDE DEF n, g
<1>2. ASSUME NEW i \in 1 .. n
      PROVE  \E j \in 1 .. i : g[j].step = g[i].step /\ \A k \in 1 .. j - 1 : g[k].step # g[i].step
  <2>1. PICK j \in 1 .. i : h[j].step = h[i].step /\ \A k \in 1 .. j - 1 : h[k].step # h[i].step
    BY <1>1 DEF Firsts
  <2>2. j \in 1 .. n /\ \A k \in 1 .. j - 1 : k \in 1 .. n
    BY <1>1, <2>1
  <2>3. g[j] = h[j] /\ g[i] = h[i] /\ \A k \in 1 .. j - 1 : g[k] = h[k]
    BY <1>1, <2>2
  <2>4. g[j].step = g[i].step
    BY <2>1, <2>3
  <2>5. \A k \in 1 .. j - 1 : g[k].step # g[i].step
    BY <2>1, <2>3
  <2> QED
    BY <2>1, <2>4, <2>5
<1>3. \E j \in 1 .. n + 1 : g[j].step = r.step /\ \A k \in 1 .. j - 1 : g[k].step # r.step
  <2>1. CASE \E i \in 1 .. n : h[i].step = r.step
    <3>1. PICK i \in 1 .. n : h[i].step = r.step
      BY <2>1
    <3>2. PICK j \in 1 .. i : g[j].step = g[i].step /\ \A k \in 1 .. j - 1 : g[k].step # g[i].step
      BY <1>2
    <3>3. g[i].step = r.step /\ j \in 1 .. n + 1
      BY <1>1, <3>1, <3>2
    <3> QED
      BY <3>2, <3>3
  <2>2. CASE \A i \in 1 .. n : h[i].step # r.step
    <3>1. \A k \in 1 .. n : g[k].step # r.step
      BY <1>1, <2>2
    <3>2. n + 1 \in 1 .. n + 1 /\ (n + 1) - 1 = n
      BY <1>1
    <3> QED
      BY <1>1, <3>1, <3>2
  <2> QED
    BY <2>1, <2>2
<1>4. \A i \in DOMAIN g :
        \E j \in 1 .. i : g[j].step = g[i].step /\ \A k \in 1 .. j - 1 : g[k].step # g[i].step
  <2> SUFFICES ASSUME NEW i \in 1 .. n + 1
               PROVE  \E j \in 1 .. i : /\ g[j].step = g[i].step
                                         /\ \A k \in 1 .. j - 1 : g[k].step # g[i].step
    BY <1>1
  <2>1. CASE i \in 1 .. n
    BY <1>2, <2>1
  <2>2. CASE i = n + 1
    <3>1. PICK j \in 1 .. n + 1 : g[j].step = r.step /\ \A k \in 1 .. j - 1 : g[k].step # r.step
      BY <1>3
    <3> QED
      BY <1>1, <2>2, <3>1
  <2> QED
    BY <1>1, <2>1, <2>2
<1> QED
  BY <1>4 DEF g, Firsts

LEMMA FirstsMark ==
  ASSUME NEW h \in Seq(StepRecord), NEW x, Firsts(h)
  PROVE  Firsts(Mark(h, x))
<1> DEFINE g == Mark(h, x)
<1>1. DOMAIN h = 1 .. Len(h) /\ Len(h) \in Nat /\ \A i \in DOMAIN h : h[i] \in StepRecord
  BY ElementOfSeq, LenProperties
<1>2. DOMAIN g = DOMAIN h /\ \A i \in DOMAIN h : g[i].step = h[i].step
  BY <1>1 DEF Mark, StepRecord
<1> HIDE DEF g
<1>3. ASSUME NEW i \in DOMAIN g
      PROVE  \E j \in 1 .. i : g[j].step = g[i].step /\ \A k \in 1 .. j - 1 : g[k].step # g[i].step
  <2>1. PICK j \in 1 .. i : h[j].step = h[i].step /\ \A k \in 1 .. j - 1 : h[k].step # h[i].step
    BY <1>2 DEF Firsts
  <2>2. j \in DOMAIN h /\ \A k \in 1 .. j - 1 : k \in DOMAIN h
    BY <1>1, <1>2, <2>1
  <2> QED
    BY <1>2, <2>1, <2>2
<1>4. Firsts(g)
  BY <1>3 DEF Firsts
<1> QED
  BY <1>4 DEF g

LEMMA FirstsStep ==
  ASSUME HistoryInv, [Next]_vars, NEW s \in Calls
  PROVE  Firsts(history'[s])
<1>1. /\ TypeInv /\ history \in [Calls -> Seq(StepRecord)] /\ history[s] \in Seq(StepRecord)
      /\ Firsts(history[s])
  BY DEF HistoryInv, LedgerInv, TypeInv, TypeOK, RecordsOK
<1>2. CASE \E q \in Calls : Records(q)
  <2>1. PICK q \in Calls, r \in StepRecord : history' = [history EXCEPT ![q] = Append(@, r)]
    BY <1>2 DEF Records, StepRecord
  <2>2. history'[s] = history[s] \/ history'[s] = Append(history[s], r)
    BY <1>1, <2>1
  <2>3. Firsts(Append(history[s], r))
    BY <1>1, FirstsAppend
  <2> QED
    BY <1>1, <2>2, <2>3
<1>3. CASE \E p \in Procs : Marks(p)
  <2>1. PICK p \in Procs : Marks(p)
    BY <1>3
  <2>2. history'[s] = history[s] \/ history'[s] = Mark(history[s], entry[p])
    BY <1>1, <2>1 DEF Marks
  <2>3. Firsts(Mark(history[s], entry[p]))
    BY <1>1, FirstsMark
  <2> QED
    BY <1>1, <2>2, <2>3
<1>4. CASE history' = history
  BY <1>1, <1>4
<1> QED
  BY <1>1, <1>2, <1>3, <1>4, StepRecords

\* What is completed is recorded, and so is what is undone.
LEMMA RecordsStep ==
  ASSUME HistoryInv, [Next]_vars
  PROVE  RecordsOK'
<1>1. TypeInv /\ TypeInv' /\ CopiesOK /\ UndoLedger /\ RecordsOK
  BY LedgerInvStep DEF HistoryInv, LedgerInv
<1>2. /\ history \in [Calls -> Seq(StepRecord)]
      /\ done \in [Calls -> Seq(Steps)] /\ done' \in [Calls -> Seq(Steps)]
  BY <1>1 DEF TypeInv, TypeOK
<1>3. ASSUME NEW s \in Calls, NEW k \in 1 .. Len(done'[s])
      PROVE  Has(history'[s], done'[s][k])
  <2>1. CASE done'[s] = done[s]
    <3>1. Has(history[s], done[s][k])
      BY <1>1, <1>3, <2>1 DEF RecordsOK
    <3>2. Has(history'[s], done[s][k])
      BY <3>1, RecordedStable
    <3> QED
      BY <2>1, <3>2
  <2>2. CASE done'[s] # done[s]
    <3>1. PICK q \in Calls : Records(q)
      BY <1>1, <2>2, StepRecords DEF Marks
    <3>2. PICK x \in Steps, outcome \in {"completed", "failed", "rejected"} :
            /\ history' = [history EXCEPT ![q] = Append(@, [step |-> x, outcome |-> outcome])]
            /\ done' \in {done, [done EXCEPT ![q] = Append(@, x)]}
      BY <3>1 DEF Records
    <3> DEFINE r == [step |-> x, outcome |-> outcome]
    <3>3. /\ done'[s] = Append(done[s], x)
          /\ history'[s] = Append(history[s], r)
          /\ r \in StepRecord /\ r.step = x
      BY <1>2, <2>2, <3>2 DEF StepRecord
    <3> HIDE DEF r
    <3>4. k \in 1 .. Len(done[s]) \/ k = Len(done[s]) + 1
      <4>1. Len(done[s]) \in Nat /\ Len(done'[s]) = Len(done[s]) + 1
        BY <1>2, <3>3, AppendProperties, LenProperties
      <4> QED
        BY <4>1
    <3>5. CASE k \in 1 .. Len(done[s])
      <4>1. Has(history[s], done[s][k])
        BY <1>1, <3>5 DEF RecordsOK
      <4>2. Has(history'[s], done[s][k])
        BY <4>1, RecordedStable
      <4>3. done'[s][k] = done[s][k]
        BY <1>2, <3>3, <3>5, AppendProperties
      <4> QED
        BY <4>2, <4>3
    <3>6. CASE k = Len(done[s]) + 1
      <4>1. done'[s][k] = x
        BY <1>2, <3>3, <3>6, AppendProperties
      <4>2. Len(history[s]) + 1 \in DOMAIN history'[s]
            /\ history'[s][Len(history[s]) + 1].step = x
        <5>1. history[s] \in Seq(StepRecord)
          BY <1>2
        <5>2. /\ DOMAIN Append(history[s], r) = 1 .. Len(history[s]) + 1
              /\ Append(history[s], r)[Len(history[s]) + 1] = r
              /\ Len(history[s]) \in Nat
          BY <3>3, <5>1, AppendRecord
        <5> QED
          BY <3>3, <5>2
      <4> QED
        BY <4>1, <4>2 DEF Has
    <3> QED
      BY <3>4, <3>5, <3>6
  <2> QED
    BY <2>1, <2>2
<1>4. ASSUME NEW p \in Procs, pc'[p] = "undoing"
      PROVE  Has(history'[st'[p].obj], entry'[p])
  <2>1. st'[p] = st[p] /\ st[p].obj \in Calls
    <3>1. pc[p] \in {"undoing", "unwind"}
      BY <1>1, <1>4, StepEntry
    <3>2. st[p].obj \in Calls
      BY <1>1, <3>1, PopsEnded
    <3>3. CASE \E q \in Procs : Move(q)
      <4>1. PICK q \in Procs : Move(q)
        BY <3>3
      <4>2. CASE q # p
        BY <3>2, <4>1, <4>2 DEF Move, Alone
      <4>3. CASE q = p
        <5>1. Pops(p)
          BY <1>4, <4>1, <4>3
          DEF Move, Forwards, Parks, Fails, Leaves, Empties, Resumes, Reads, Accepts, Rejects
        <5> QED
          BY <3>2, <4>3, <5>1 DEF Pops
      <4> QED
        BY <4>2, <4>3
    <3>4. CASE Aside
      BY <3>2, <3>4 DEF Aside
    <3> QED
      BY <1>1, <3>2, <3>3, <3>4, StepMoves
  <2> DEFINE s == st[p].obj
  <2>2. Has(history[s], entry'[p])
    <3>1. CASE pc[p] = "undoing" /\ entry'[p] = entry[p]
      BY <1>1, <3>1 DEF RecordsOK
    <3>2. CASE Len(stack[s]) > 0 /\ entry'[p] = stack[s][Len(stack[s])]
      <4>1. stack[s] \in Seq(Steps) /\ undone[s] \in Seq(Steps)
        BY <1>1, <2>1 DEF TypeInv, TypeOK
      <4>2. /\ Len(stack[s]) \in Nat /\ Len(undone[s]) \in Nat
            /\ Len(done[s]) = Len(stack[s]) + Len(undone[s])
        BY <1>1, <2>1, <4>1, LenProperties DEF UndoLedger
      <4>3. Len(stack[s]) \in 1 .. Len(stack[s]) /\ Len(stack[s]) \in 1 .. Len(done[s])
        <5>1. \A n, m \in Nat : n > 0 => n \in 1 .. n /\ n \in 1 .. n + m
          OBVIOUS
        <5> QED
          BY <3>2, <4>2, <5>1
      <4>4. entry'[p] = done[s][Len(stack[s])]
        BY <1>1, <2>1, <3>2, <4>3 DEF UndoLedger
      <4> QED
        BY <1>1, <2>1, <4>3, <4>4 DEF RecordsOK
    <3> QED
      BY <1>1, <1>4, <3>1, <3>2, StepEntry
  <2>3. Has(history'[s], entry'[p])
    <3>1. \A y : Has(history[s], y) => Has(history'[s], y)
      BY <2>1, RecordedStable
    <3> QED
      BY <2>2, <3>1
  <2> QED
    BY <2>1, <2>3
<1>5. \A s \in Calls : Firsts(history'[s])
  BY FirstsStep
<1> QED
  BY <1>3, <1>4, <1>5 DEF RecordsOK

LEMMA TellsStep ==
  ASSUME HistoryInv, [Next]_vars
  PROVE  HistoryTellsUndo'
<1> DEFINE c(x) == [step |-> x, outcome |-> "compensated"]
           Told(h) == {x \in Steps : \E i \in DOMAIN h : h[i] = c(x)}
<1>1. TypeInv /\ RecordsOK /\ TypeOK /\ CopiesOK /\ \A s \in Calls : undoOk[s] = Told(history[s])
  BY DEF HistoryInv, LedgerInv, TypeInv, HistoryTellsUndo
<1> SUFFICES ASSUME NEW s \in Calls PROVE undoOk'[s] = Told(history'[s])
  BY DEF HistoryTellsUndo
<1>2. history[s] \in Seq(StepRecord)
  BY <1>1 DEF TypeOK
<1>3. CASE undoOk'[s] = undoOk[s] /\ history'[s] = history[s]
  BY <1>1, <1>3
<1>4. CASE \E q \in Calls : Records(q)
  <2>1. PICK q \in Calls, x \in Steps, outcome \in {"completed", "failed", "rejected"} :
          history' = [history EXCEPT ![q] = Append(@, [step |-> x, outcome |-> outcome])]
    BY <1>4 DEF Records
  <2> DEFINE r == [step |-> x, outcome |-> outcome]
  <2>2. undoOk' = undoOk
    BY <1>4 DEF Records
  <2>3. r \in StepRecord /\ \A y : r # c(y)
    <3>1. \A y : c(y).outcome = "compensated"
      OBVIOUS
    <3>2. r.outcome # "compensated" /\ r \in StepRecord
      BY DEF StepRecord
    <3> QED
      BY <3>1, <3>2
  <2>4. history'[s] = history[s] \/ history'[s] = Append(history[s], r)
    BY <1>1, <2>1 DEF TypeOK
  <2> HIDE DEF r, c
  <2>5. Told(Append(history[s], r)) = Told(history[s])
    <3> DEFINE h == history[s]
               n == Len(h)
               g == Append(h, r)
    <3>1. /\ DOMAIN h = 1 .. n /\ DOMAIN g = 1 .. n + 1
          /\ \A i \in 1 .. n : g[i] = h[i] /\ i \in 1 .. n + 1
          /\ g[n + 1] = r
          /\ \A i \in 1 .. n + 1 : i \in 1 .. n \/ i = n + 1
      <4>1. \A m \in Nat : \A i \in 1 .. m : i \in 1 .. m + 1
        OBVIOUS
      <4> QED
        BY <1>2, <2>3, <4>1, AppendRecord
    <3> HIDE DEF h, n, g
    <3>2. \A y : (\E i \in DOMAIN g : g[i] = c(y)) <=> \E i \in DOMAIN h : h[i] = c(y)
      BY <2>3, <3>1
    <3> QED
      BY <3>2 DEF h, g
  <2> HIDE DEF Told
  <2> QED
    BY <1>1, <2>2, <2>4, <2>5
<1>5. CASE \E p \in Procs : Marks(p)
  <2>1. PICK p \in Procs : Marks(p)
    BY <1>5
  <2> DEFINE q == st[p].obj
             x == entry[p]
  <2>2. /\ history' = [history EXCEPT ![q] = Mark(@, x)]
        /\ undoOk' = [undoOk EXCEPT ![q] = @ \cup {x}]
        /\ x \in Steps /\ q \in Calls
        /\ Has(history[q], x)
    BY <1>1, <2>1, PopsEnded DEF Marks, TypeInv, ControlOK, RecordsOK
  <2>3. CASE q # s
    <3>1. undoOk'[s] = undoOk[s] /\ history'[s] = history[s]
      BY <1>1, <2>2, <2>3 DEF TypeOK
    <3> QED
      BY <1>3, <3>1
  <2>4. CASE q = s
    <3>1. history'[s] = Mark(history[s], x) /\ undoOk'[s] = undoOk[s] \cup {x}
      BY <1>1, <2>2, <2>4 DEF TypeOK
    <3>2. PICK i \in DOMAIN history[s] : history[s][i].step = x
      BY <2>2, <2>4 DEF Has
    <3>3. PICK f \in 1 .. i : /\ history[s][f].step = x
                              /\ \A k \in 1 .. f - 1 : history[s][k].step # x
      <4>1. Firsts(history[s])
        BY <1>1 DEF RecordsOK
      <4>2. PICK f \in 1 .. i : /\ history[s][f].step = history[s][i].step
                                /\ \A k \in 1 .. f - 1 : history[s][k].step # history[s][i].step
        BY <4>1 DEF Firsts
      <4> QED
        BY <3>2, <4>2
    <3>4. f \in DOMAIN history[s]
      BY <1>2, <3>2, <3>3, LenProperties
    <3> HIDE DEF x, q
    <3>5. x \in Steps
      BY <2>2
    <3>6. /\ DOMAIN Mark(history[s], x) = DOMAIN history[s]
          /\ \A y \in Steps :
               (\E j \in DOMAIN history[s] : Mark(history[s], x)[j] = c(y))
               <=> (y = x \/ \E j \in DOMAIN history[s] : history[s][j] = c(y))
      BY <1>2, <3>3, <3>4, <3>5, MarkTells
    <3> HIDE DEF c
    <3>7. Told(Mark(history[s], x)) = Told(history[s]) \cup {x}
      BY <3>5, <3>6
    <3> QED
      BY <1>1, <3>1, <3>7
  <2> QED
    BY <2>3, <2>4
<1> QED
  BY <1>1, <1>3, <1>4, <1>5, StepRecords

LEMMA HistoryInvStep == HistoryInv /\ [Next]_vars => HistoryInv'
BY LedgerInvStep, RecordsStep, TellsStep DEF HistoryInv

\* However many calls compensate a run at once, and whatever step ids repeat:
\* the shared history says "compensated" of exactly the steps whose
\* compensation succeeded.
THEOREM HistoryCorrect == Spec => []HistoryTellsUndo
<1>1. HistoryInv => HistoryTellsUndo
  BY DEF HistoryInv
<1> QED
  BY <1>1, HistoryInvInit, HistoryInvStep, PTL DEF Spec

-----------------------------------------------------------------------------
(* The refinement of Saga: the initial states are initial states of a      *)
(* saga, and every step of the runner is a step of a saga or none.         *)

\* Whoever has stored that a run is compensating, or failed, still knows, and
\* an approval that is under way is of a run that was never given up.
GivenUpOK ==
  /\ \A r \in RunIds :
       store[r] # NoState /\ store[r].status \in {"compensating", "failed"} =>
         Unwinding(store[r].obj)
  /\ \A d \in Decisions : pc[d] = "approving" => st[d].status = "running"

SagaInv == LedgerInv /\ GivenUpOK

\* A copy says that its saga is given up.
GivenUp(x) == x # NoState /\ x.status \in {"compensating", "failed"}

LEMMA UnwindingDef ==
  ASSUME NEW s \in Calls
  PROVE  Unwinding(s) <=> \E p \in Procs : GivenUp(st[p]) /\ st[p].obj = s
BY DEF Unwinding, GivenUp

\* Nothing is given up while start() executes steps.
LEMMA ForwardUnwinds ==
  ASSUME TypeInv, CopiesOK, NEW s \in Calls, ~Ended(s)
  PROVE  ~Unwinding(s) /\ ~GivenUp(st[s])
<1>1. \A p \in Procs : GivenUp(st[p]) => Ended(st[p].obj)
  BY DEF CopiesOK, CopyOK, GivenUp
<1>2. ~Unwinding(s)
  BY <1>1, UnwindingDef DEF Ended
<1>3. pc[s] # "idle" => ~GivenUp(st[s])
  BY StatusForward DEF GivenUp
<1>4. pc[s] = "idle" => ~GivenUp(st[s])
  BY DEF CopiesOK, GivenUp, Procs
<1> QED
  BY <1>2, <1>3, <1>4

\* A call does not forget that its run was given up.
LEMMA GivenUpStable ==
  ASSUME SagaInv, NEW p \in Procs, Move(p), GivenUp(st[p])
  PROVE  GivenUp(st[p])' /\ st'[p].obj = st[p].obj
<1>1. TypeInv /\ CopiesOK
  BY DEF SagaInv, LedgerInv
<1>2. CASE p \in Calls /\ (Forwards(p) \/ Parks(p) \/ Fails(p))
  BY <1>1, <1>2, ForwardUnwinds DEF Forwards, Parks, Fails
<1>3. CASE st'[p] = st[p]
  BY <1>3 DEF GivenUp
<1>4. CASE Empties(p) \/ Rejects(p)
  <2>1. st'[p] \in State /\ st'[p] # NoState
    BY <1>4 DEF Empties, Rejects, Holds
  <2> QED
    BY <1>4, <2>1 DEF Empties, Rejects, Holds, GivenUp
<1>5. ~Reads(p)
  BY <1>1 DEF Reads, CopiesOK, GivenUp
<1>6. ~Accepts(p)
  BY DEF Accepts, GivenUp, SagaInv, GivenUpOK
<1> QED
  BY <1>2, <1>3, <1>4, <1>5, <1>6 DEF Move, Leaves, Pops, Resumes

LEMMA UnwindingStable ==
  ASSUME SagaInv, NEW p \in Procs, Move(p), NEW s \in Calls, Unwinding(s)
  PROVE  Unwinding(s)'
<1>1. PICK q \in Procs : GivenUp(st[q]) /\ st[q].obj = s
  BY UnwindingDef
<1>2. GivenUp(st[q])' /\ st'[q].obj = s
  <2>1. CASE q = p
    BY <1>1, <2>1, GivenUpStable
  <2>2. CASE q # p
    BY <1>1, <2>2 DEF Move, Alone, GivenUp
  <2> QED
    BY <2>1, <2>2
<1> QED
  BY <1>2 DEF Unwinding, GivenUp

\* A saga is given up by a step that fails, or by a rejection.
LEMMA UnwindingStarts ==
  ASSUME SagaInv, NEW p \in Procs, Move(p), NEW s \in Calls,
         ~Unwinding(s), Unwinding(s)'
  PROVE  st'[p].obj = s /\ ((p \in Calls /\ Fails(p)) \/ Rejects(p))
<1>1. TypeInv /\ CopiesOK
  BY DEF SagaInv, LedgerInv
<1>2. \A q \in Procs : ~(GivenUp(st[q]) /\ st[q].obj = s)
  BY UnwindingDef
<1>3. PICK q \in Procs : GivenUp(st[q])' /\ st'[q].obj = s
  BY DEF Unwinding, GivenUp
<1>4. q = p
  BY <1>2, <1>3 DEF Move, Alone, GivenUp
<1>5. ~(p \in Calls /\ (Forwards(p) \/ Parks(p))) /\ ~Accepts(p)
  BY <1>3, <1>4 DEF Forwards, Parks, Accepts, Holds, GivenUp
<1>6. ~(Leaves(p) \/ Pops(p) \/ Resumes(p))
  BY <1>2, <1>3, <1>4 DEF Leaves, Pops, Resumes, GivenUp
<1>7. ~Empties(p)
  <2>1. SUFFICES ASSUME Empties(p) PROVE FALSE
    OBVIOUS
  <2>2. GivenUp(st[p]) /\ st[p].obj = s
    <3>1. st[p] \in State /\ st[p].status = "compensating"
      BY <1>1, <2>1, PopsEnded DEF Empties
    <3>2. st[p].obj = s
      BY <1>3, <1>4, <2>1 DEF Empties, Holds
    <3> QED
      BY <3>1, <3>2 DEF GivenUp
  <2> QED
    BY <1>2, <2>2
<1>8. ~Reads(p)
  <2>1. SUFFICES ASSUME Reads(p) PROVE FALSE
    OBVIOUS
  <2>2. PICK r \in RunIds : st'[p] = store[r]
    BY <2>1 DEF Reads
  <2>3. Unwinding(s)
    BY <1>3, <1>4, <2>2 DEF GivenUp, SagaInv, GivenUpOK
  <2> QED
    BY <2>3
<1> QED
  BY <1>3, <1>4, <1>5, <1>6, <1>7, <1>8 DEF Move

LEMMA GivenUpStep ==
  ASSUME SagaInv, NEW p \in Procs, Move(p)
  PROVE  GivenUpOK'
<1>1. TypeInv /\ CopiesOK /\ Alone(p)
  BY DEF SagaInv, LedgerInv, Move
<1>2. ASSUME NEW r \in RunIds, GivenUp(store[r])'
      PROVE  Unwinding(store[r].obj)'
  <2>1. CASE store'[r] = st'[p]
    BY <1>2, <2>1 DEF Unwinding, GivenUp
  <2>2. CASE store'[r] = store[r]
    <3>1. store[r] \in State /\ GivenUp(store[r])
      BY <1>1, <1>2, <2>2 DEF GivenUp, TypeInv, TypeOK
    <3>2. PICK s \in Calls : s = store[r].obj
      BY <3>1 DEF State
    <3>3. Unwinding(s)
      BY <3>1, <3>2 DEF SagaInv, GivenUpOK, GivenUp
    <3>4. Unwinding(s)'
      BY <3>3, UnwindingStable
    <3> QED
      BY <2>2, <3>2, <3>4 DEF Unwinding
  <2> QED
    BY <1>1, <2>1, <2>2 DEF Alone
<1>3. ASSUME NEW d \in Decisions, pc'[d] = "approving"
      PROVE  st'[d].status = "running"
  <2>1. CASE d # p
    BY <1>1, <1>3, <2>1 DEF Alone, SagaInv, GivenUpOK, Procs
  <2>2. CASE d = p
    <3>1. Accepts(p)
      <4>1. p \notin Calls
        BY <2>2
      <4> QED
        BY <1>3, <2>2, <4>1 DEF Move, Leaves, Pops, Empties, Resumes, Reads, Rejects
    <3> QED
      BY <1>3, <2>2, <3>1 DEF Accepts, Holds
  <2> QED
    BY <2>1, <2>2
<1> QED
  BY <1>2, <1>3 DEF GivenUpOK, GivenUp

LEMMA SagaInvInit == Init => SagaInv
<1> SUFFICES ASSUME Init PROVE SagaInv
  OBVIOUS
<1>1. LedgerInv
  BY LedgerInvInit
<1>2. GivenUpOK
  BY DEF Init, GivenUpOK, Procs
<1> QED
  BY <1>1, <1>2 DEF SagaInv

LEMMA SagaInvStep == SagaInv /\ [Next]_vars => SagaInv'
<1> SUFFICES ASSUME SagaInv, [Next]_vars PROVE SagaInv'
  OBVIOUS
<1>1. LedgerInv'
  BY LedgerInvStep DEF SagaInv
<1>2. CASE Aside
  BY <1>1, <1>2 DEF SagaInv, GivenUpOK, Aside, Unwinding
<1>3. CASE \E p \in Procs : Move(p)
  BY <1>1, <1>3, GivenUpStep DEF SagaInv
<1> QED
  BY <1>2, <1>3, StepMoves DEF SagaInv, LedgerInv

-----------------------------------------------------------------------------
(* The refinement. *)

U == {s \in Calls : Unwinding(s)}

LEMMA SagaInit == Init => Ledger!Init
BY DEF Init, Ledger!Init, Unwinding, Procs

\* The sagas that a move gives up.
LEMMA MoveUnwinds ==
  ASSUME SagaInv, NEW p \in Procs, Move(p)
  PROVE  \/ U' = U
         \/ /\ Quiet
            /\ \E s \in Calls : U' = U \cup {s}
<1>1. \A s \in Calls : Unwinding(s) => Unwinding(s)'
  BY UnwindingStable
<1>2. \A s \in Calls : ~Unwinding(s) /\ Unwinding(s)' =>
        st'[p].obj = s /\ (Fails(p) \/ Rejects(p))
  BY UnwindingStarts
<1>3. CASE \E s \in Calls : ~Unwinding(s) /\ Unwinding(s)'
  <2>1. PICK s \in Calls : ~Unwinding(s) /\ Unwinding(s)'
    BY <1>3
  <2>2. Quiet
    BY <1>2, <2>1 DEF Fails, Rejects
  <2>3. \A q \in Calls : ~Unwinding(q) /\ Unwinding(q)' => q = s
    BY <1>2, <2>1
  <2>4. U' = U \cup {s}
    BY <1>1, <2>1, <2>3 DEF U
  <2> QED
    BY <2>2, <2>4
<1>4. CASE \A s \in Calls : Unwinding(s)' => Unwinding(s)
  BY <1>1, <1>4 DEF U
<1> QED
  BY <1>3, <1>4

LEMMA MoveRefines ==
  ASSUME SagaInv, NEW p \in Procs, Move(p)
  PROVE  [Ledger!Next]_Ledger!vars
<1>1. TypeInv /\ CopiesOK /\ UndoLedger /\ TypeOK
  BY DEF SagaInv, LedgerInv, TypeInv
<1>2. CASE Quiet /\ U' = U
  BY <1>2 DEF Quiet, U, Ledger!vars
<1>3. CASE Quiet /\ \E s \in Calls : U' = U \cup {s}
  BY <1>3 DEF Quiet, U, Ledger!Next, Ledger!GiveUp
<1>4. CASE ~Quiet /\ U' = U /\ p \in Calls /\ Forwards(p)
  <2>1. p \notin U
    BY <1>1, <1>4, ForwardUnwinds DEF Forwards, U
  <2>2. undone' = undone /\ \E x \in Steps : done' = [done EXCEPT ![p] = Append(@, x)]
    BY <1>4 DEF Forwards, Quiet
  <2> QED
    BY <1>4, <2>1, <2>2 DEF U, Ledger!Next, Ledger!Complete
<1>5. CASE U' = U /\ Pops(p)
  <2>1. PICK s \in Calls : s = st[p].obj
    BY <1>1, <1>5, PopsEnded DEF Pops
  <2>2. /\ done' = done
        /\ Len(stack[s]) > 0
        /\ undone' = [undone EXCEPT ![s] = Append(@, stack[s][Len(stack[s])])]
    BY <1>5, <2>1 DEF Pops
  <2>3. Unwinding(s)
    <3>1. st[p] \in State /\ st[p].status = "compensating"
      BY <1>1, <1>5, PopsEnded DEF Pops
    <3> QED
      BY <2>1, <3>1 DEF Unwinding
  <2>4. /\ Len(done[s]) = Len(stack[s]) + Len(undone[s])
        /\ \A i \in 1 .. Len(stack[s]) : stack[s][i] = done[s][i]
    BY <1>1 DEF UndoLedger
  <2>5. stack[s] \in Seq(Steps) /\ undone[s] \in Seq(Steps)
    BY <1>1 DEF TypeOK
  <2>6. /\ Len(undone[s]) < Len(done[s])
        /\ Len(stack[s]) = Len(done[s]) - Len(undone[s])
        /\ Len(stack[s]) \in 1 .. Len(stack[s])
    <3> DEFINE k == Len(stack[s])
               u == Len(undone[s])
    <3>1. k \in Nat /\ u \in Nat
      BY <2>5, LenProperties
    <3>2. k > 0 /\ Len(done[s]) = k + u
      BY <2>2, <2>4
    <3> HIDE DEF k, u
    <3>3. u < k + u /\ k = (k + u) - u /\ k \in 1 .. k
      BY <3>1, <3>2
    <3>4. u < Len(done[s]) /\ k = Len(done[s]) - u /\ k \in 1 .. k
      BY <3>2, <3>3
    <3> QED
      BY <3>4 DEF k, u
  <2>7. stack[s][Len(stack[s])] = done[s][Len(done[s]) - Len(undone[s])]
    BY <2>4, <2>6
  <2>8. s \in U /\ UNCHANGED <<done, U>>
    BY <1>5, <2>2, <2>3 DEF U
  <2>9. undone' = [undone EXCEPT ![s] = Append(@, done[s][Len(done[s]) - Len(undone[s])])]
    BY <2>2, <2>7
  <2>10. Ledger!UndoLatest(s)
    BY <2>6, <2>8, <2>9 DEF U, Ledger!UndoLatest
  <2> QED
    BY <2>10 DEF Ledger!Next
<1> QED
  BY <1>2, <1>3, <1>4, <1>5, MoveUnwinds
  DEF Move, Parks, Fails, Leaves, Empties, Resumes, Reads, Accepts, Rejects, Quiet

LEMMA AsideRefines == Aside => UNCHANGED Ledger!vars
BY DEF Aside, Ledger!vars, Unwinding

\* The runs of all start() calls are sagas: whatever rejects share their
\* stacks and however their awaits interleave, nothing completes after a run
\* was given up and the completed steps are undone once, the latest first.
THEOREM SagaCorrect == Spec => SagaRefinement
<1>1. SagaInv /\ [Next]_vars => [Ledger!Next]_Ledger!vars
  <2> SUFFICES ASSUME SagaInv, [Next]_vars PROVE [Ledger!Next]_Ledger!vars
    OBVIOUS
  <2>1. CASE Aside
    BY <2>1, AsideRefines
  <2>2. CASE \E p \in Procs : Move(p)
    BY <2>2, MoveRefines
  <2> QED
    BY <2>1, <2>2, StepMoves DEF SagaInv, LedgerInv
<1> QED
  BY <1>1, SagaInit, SagaInvInit, SagaInvStep, PTL DEF Spec, SagaRefinement, Ledger!Spec
=============================================================================
