------------------------- MODULE WorkflowOwnerProofs -------------------------
(***************************************************************************)
(* Theorems about WorkflowRunner that rest on who owns a run (which call,  *)
(* of those that hold a copy of its state, may still write it) and on how  *)
(* far its start() has come in the document.                               *)
(***************************************************************************)
EXTENDS WorkflowLedgerProofs

\* Call p will write its copy to the store before it returns.  A parked start()
\* will not, and a decision that has read any other status throws.
Holder(p) ==
  \/ pc[p] \in {"begin", "checking", "calling", "backoff", "advance", "finishing",
                "unwind", "undoing", "failing", "approving", "approved"}
  \/ pc[p] \in {"approve", "reject"} /\ Waiting(p)

\* How a step of call p treats the copies of states.
Keeps(p) ==
  /\ UNCHANGED <<st, store>>
  /\ Holder(p)' => Holder(p)
  /\ Idle(p) => Idle(p)'

Begins(s) ==
  /\ s \in Calls /\ pc[s] = "idle" /\ pc'[s] = "begin"
  /\ \E x \in State :
       /\ x.obj = s /\ x.status = "running"
       /\ UniqueRunIds => store[x.run] = NoState
       /\ Put(s, x)

Fetches(d) ==
  /\ d \in Decisions /\ pc[d] = "idle" /\ pc'[d] \in {"approve", "reject"}
  /\ Serialised => \A e \in Decisions : Idle(e)
  /\ UNCHANGED store
  /\ \E r \in RunIds : store[r] # NoState /\ st'[d] = store[r]

Writes(p) ==
  /\ Holder(p)
  /\ pc[p] = "finishing" => Len(frames[p]) > 1
  /\ \E x \in State : x.run = st[p].run /\ x.obj = st[p].obj /\ Put(p, x)

Stores(p) == Keeps(p) \/ Begins(p) \/ Fetches(p) \/ Writes(p)

USE RunnerAssumption

\* A call that writes a version of its copy.
LEMMA WriteStores ==
  ASSUME NEW p \in Procs, Holder(p), pc[p] # "finishing", st[p] \in State,
         NEW status \in Statuses, NEW cur \in Steps \cup {NoStep},
         \/ Put(p, [st[p] EXCEPT !.status = status, !.cur = cur])
         \/ Put(p, [st[p] EXCEPT !.status = status])
         \/ Put(p, [st[p] EXCEPT !.cur = cur])
  PROVE  Stores(p)
<1> DEFINE x == [st[p] EXCEPT !.status = status, !.cur = cur]
           y == [st[p] EXCEPT !.status = status]
           z == [st[p] EXCEPT !.cur = cur]
<1>1. /\ x \in State /\ x.run = st[p].run /\ x.obj = st[p].obj
      /\ y \in State /\ y.run = st[p].run /\ y.obj = st[p].obj
      /\ z \in State /\ z.run = st[p].run /\ z.obj = st[p].obj
  BY DEF State
<1>2. Put(p, x) \/ Put(p, y) \/ Put(p, z)
  OBVIOUS
<1> HIDE DEF x, y, z
<1> QED
  BY <1>1, <1>2 DEF Stores, Writes

LEMMA StatusNames ==
  {"running", "completed", "compensating", "failed", "waiting_for_approval"} \subseteq Statuses
BY DEF Statuses

LEMMA LoopStores ==
  ASSUME TypeInv, NEW s \in Calls, pc[s] \in {"begin", "advance", "checking"},
         NEW f \in Seq(Frame), Len(f) > 0, f[Len(f)].at > 0,
         Loop(s, f)
  PROVE  Stores(s)
<1>1. s \in Procs /\ Holder(s) /\ pc[s] # "finishing" /\ st[s] \in State
  BY StateOfCall DEF Procs, Holder
<1> DEFINE top == f[Len(f)]
<1>2. CASE /\ top.at <= Len(Body[top.block])
           /\ Put(s, [st[s] EXCEPT !.cur = StepOf(top)])
  <2>1. Len(f) \in 1 .. Len(f)
    BY LenProperties
  <2>2. top \in Frame
    BY <2>1, ElementOfSeq
  <2>3. InBlock(top)
    <3>1. top.at \in Nat \ {0} /\ Body[top.block] \in Seq(Steps)
      BY <2>2 DEF Frame
    <3> QED
      BY <1>2, <3>1, LenProperties DEF InBlock
  <2>4. StepOf(top) \in Steps
    BY <2>2, <2>3, StepOfType
  <2> QED
    BY <1>1, <1>2, <2>4, WriteStores, StatusNames
<1>3. CASE Put(s, [st[s] EXCEPT !.status = "completed", !.cur = NoStep])
  BY <1>1, <1>3, WriteStores, StatusNames
<1> QED
  BY <1>2, <1>3 DEF Loop

LEMMA CompleteStores ==
  ASSUME TypeInv, NEW s \in Calls, Holder(s), pc[s] # "finishing" \/ Len(frames[s]) > 1,
         NEW x \in Steps, CompleteStep(s, x)
  PROVE  Stores(s)
<1>1. st[s] \in State
  BY StateOfCall DEF Holder
<1>2. Put(s, st[s])
  BY DEF CompleteStep
<1> QED
  BY <1>1, <1>2 DEF Stores, Writes

LEMMA FailStores ==
  ASSUME TypeInv, NEW s \in Calls, pc[s] \in {"checking", "calling"}, FailStep(s)
  PROVE  Stores(s)
<1>1. st[s] \in State /\ Holder(s) /\ s \in Procs
  BY StateOfCall DEF Holder, Procs
<1>2. Put(s, [st[s] EXCEPT !.status = "compensating"])
  BY DEF FailStep
<1> QED
  BY <1>1, <1>2, WriteStores, StatusNames

\* A call goes on without a look at the store.
LEMMA GotoStores ==
  ASSUME TypeInv, NEW p \in Procs, NEW l \in Locations, Goto(p, l), UNCHANGED <<st, store>>,
         \/ Holder(p) /\ pc[p] # "idle"
         \/ l \in {"done", "refused"},
         l \notin {"approve", "reject"}
  PROVE  Stores(p)
<1>1. pc'[p] = l
  BY GotoType DEF TypeInv
<1>2. Holder(p)' => Holder(p)
  BY <1>1 DEF Holder
<1>3. Idle(p) => Idle(p)'
  BY <1>1 DEF Idle, Holder
<1> QED
  BY <1>2, <1>3 DEF Stores, Keeps

LEMMA StartStores ==
  ASSUME TypeInv, NEW s \in Calls, Start(s)
  PROVE  Stores(s)
<1>1. PICK r \in RunIds :
        /\ UniqueRunIds => store[r] = NoState
        /\ Put(s, [run |-> r, obj |-> s, status |-> "running", cur |-> NoStep])
  BY DEF Start
<1> DEFINE x == [run |-> r, obj |-> s, status |-> "running", cur |-> NoStep]
<1>2. x \in State /\ x.obj = s /\ x.status = "running" /\ x.run = r
  BY StatusNames DEF State
<1>3. pc[s] = "idle" /\ Goto(s, "begin") /\ s \in Procs /\ "begin" \in Locations
  BY DEF Start, Procs, Locations
<1>4. pc'[s] = "begin"
  BY <1>3, GotoType DEF TypeInv
<1> HIDE DEF x
<1>5. Put(s, x)
  BY <1>1 DEF x
<1> QED
  BY <1>1, <1>2, <1>3, <1>4, <1>5 DEF Stores, Begins

LEMMA BeginStores ==
  ASSUME TypeInv, NEW s \in Calls, Begin(s)
  PROVE  Stores(s)
<1> DEFINE g == [block |-> Root, at |-> 1]
           f == <<g>>
<1>1. g \in Frame /\ g.at > 0
  BY DEF Frame
<1>2. f \in Seq(Frame) /\ Len(f) = 1 /\ f[1] = g
  <2>1. \A h \in Frame : <<h>> \in Seq(Frame) /\ Len(<<h>>) = 1 /\ <<h>>[1] = h
    OBVIOUS
  <2> HIDE DEF g
  <2> QED BY <1>1, <2>1
<1>3. Loop(s, f) /\ pc[s] = "begin"
  BY DEF Begin
<1> HIDE DEF f, g
<1>4. Len(f) > 0 /\ f[Len(f)].at > 0
  BY <1>1, <1>2
<1> QED
  BY <1>2, <1>3, <1>4, LoopStores

LEMMA AdvanceStores ==
  ASSUME TypeInv, NEW s \in Calls, Advance(s)
  PROVE  Stores(s)
<1> DEFINE f == [frames[s] EXCEPT ![Len(frames[s])].at = @ + 1]
<1>1. f \in Seq(Frame) /\ Len(f) > 0 /\ f[Len(f)].at > 0
  BY AdvanceFrames DEF Advance
<1>2. Loop(s, f) /\ pc[s] = "advance"
  BY DEF Advance
<1> HIDE DEF f
<1> QED
  BY <1>1, <1>2, LoopStores

LEMMA BranchStores ==
  ASSUME TypeInv, NEW s \in Calls, Branch(s)
  PROVE  Stores(s)
<1> DEFINE x == StepOf(Top(s))
<1>1. pc[s] = "checking" /\ x \in Steps /\ Holder(s)
  BY TopType DEF Branch, Holder
<1>2. PICK holds \in BOOLEAN :
        \/ Loop(s, Append(frames[s], [block |-> Arm[x][holds], at |-> 1]))
        \/ CompleteStep(s, x)
  BY DEF Branch
<1>3. CASE CompleteStep(s, x)
  BY <1>1, <1>3, CompleteStores
<1> DEFINE f == Append(frames[s], [block |-> Arm[x][holds], at |-> 1])
<1>4. CASE Loop(s, f)
  <2>1. Arm[x][holds] \in Blocks
    BY <1>1
  <2>2. f \in Seq(Frame) /\ Len(f) > 0 /\ f[Len(f)].at > 0
    BY <1>1, <2>1, BranchFrames
  <2> HIDE DEF f
  <2> QED
    BY <1>1, <1>4, <2>2, LoopStores
<1> QED
  BY <1>2, <1>3, <1>4

LEMMA FinishStores ==
  ASSUME TypeInv, NEW s \in Calls, Finish(s)
  PROVE  Stores(s)
<1>1. pc[s] = "finishing" /\ s \in Procs /\ Holder(s) /\ "done" \in Locations
  BY DEF Finish, Procs, Holder, Locations
<1>2. CASE Goto(s, "done") /\ UNCHANGED <<st, store>>
  BY <1>1, <1>2, GotoStores
<1> DEFINE outer == SubSeq(frames[s], 1, Len(frames[s]) - 1)
<1>3. CASE Len(frames[s]) > 1 /\ CompleteStep(s, StepOf(outer[Len(outer)]))
  <2>1. StepOf(outer[Len(outer)]) \in Steps
    BY <1>1, <1>3, FinishFrames
  <2> QED
    BY <1>1, <1>3, <2>1, CompleteStores
<1> QED
  BY <1>2, <1>3 DEF Finish

LEMMA ParkStores ==
  ASSUME TypeInv, NEW s \in Calls, Park(s)
  PROVE  Stores(s)
<1>1. pc[s] = "checking" /\ s \in Procs /\ Holder(s) /\ st[s] \in State
  BY StateOfCall DEF Park, Procs, Holder
<1>2. Put(s, [st[s] EXCEPT !.status = "waiting_for_approval"])
  BY DEF Park
<1> QED
  BY <1>1, <1>2, WriteStores, StatusNames

LEMMA ToolStores ==
  ASSUME TypeInv, NEW s \in Calls,
         Deny(s) \/ CallTool(s) \/ ToolOk(s) \/ ToolError(s) \/ Timeout(s) \/ Retry(s)
  PROVE  Stores(s)
<1>1. pc[s] \in {"checking", "calling", "backoff"} /\ Holder(s) /\ s \in Procs
  BY DEF Deny, CallTool, ToolOk, ToolError, Timeout, Retry, Holder, Procs
<1>2. StepOf(Top(s)) \in Steps
  BY <1>1, TopType
<1>3. CASE pc[s] \in {"checking", "calling"} /\ FailStep(s)
  BY <1>3, FailStores
<1>4. CASE CompleteStep(s, StepOf(Top(s)))
  BY <1>1, <1>2, <1>4, CompleteStores
<1>5. CASE \E l \in {"calling", "backoff"} : Goto(s, l) /\ UNCHANGED <<st, store>>
  BY <1>1, <1>5, GotoStores DEF Locations
<1>6. CASE Deny(s)
  BY <1>3, <1>6 DEF Deny
<1>7. CASE CallTool(s)
  BY <1>3, <1>5, <1>7 DEF CallTool
<1>8. CASE ToolOk(s)
  BY <1>4, <1>8 DEF ToolOk
<1>9. CASE ToolError(s) \/ Timeout(s)
  BY <1>3, <1>5, <1>9 DEF ToolError, Timeout, AfterFailure
<1>10. CASE Retry(s)
  BY <1>5, <1>10 DEF Retry
<1> QED
  BY <1>6, <1>7, <1>8, <1>9, <1>10

LEMMA EndingStores ==
  ASSUME TypeInv, NEW p \in Procs, Unwind(p) \/ UndoAnswer(p) \/ Failing(p)
  PROVE  Stores(p)
<1>1. pc[p] \in {"unwind", "undoing", "failing"} /\ Holder(p) /\ pc[p] # "finishing"
  BY DEF Unwind, UndoAnswer, UndoOk, UndoError, Undone, Failing, Holder
<1>2. st[p] \in State /\ {"undoing", "done"} \subseteq Locations
  BY <1>1, StateOfEnding DEF Locations
<1>3. CASE \E l \in {"undoing", "done"} : Goto(p, l) /\ UNCHANGED <<st, store>>
  BY <1>1, <1>2, <1>3, GotoStores
<1>4. CASE Put(p, [st[p] EXCEPT !.status = "failed"])
  BY <1>1, <1>2, <1>4, WriteStores, StatusNames
<1>5. CASE Put(p, st[p])
  BY <1>1, <1>2, <1>5 DEF Stores, Writes
<1> QED
  BY <1>3, <1>4, <1>5 DEF Unwind, UndoAnswer, UndoOk, UndoError, Undone, Failing

LEMMA DecideStores ==
  ASSUME TypeInv, NEW d \in Decisions, NEW kind \in {"approve", "reject"}, Decide(d, kind)
  PROVE  Stores(d)
<1>1. /\ pc[d] = "idle" /\ d \in Procs /\ UNCHANGED store
      /\ Serialised => \A e \in Decisions : Idle(e)
  BY DEF Decide, Procs
<1>2. CASE \E r \in RunIds : /\ store[r] # NoState
                             /\ st' = [st EXCEPT ![d] = store[r]]
                             /\ Goto(d, kind)
  <2>1. \E r \in RunIds : store[r] # NoState /\ st'[d] = store[r]
    BY <1>1, <1>2 DEF TypeInv, TypeOK
  <2>2. pc'[d] = kind
    BY <1>1, <1>2 DEF TypeInv, TypeOK, Goto
  <2> QED
    BY <1>1, <2>1, <2>2 DEF Stores, Fetches
<1>3. CASE Goto(d, "refused") /\ UNCHANGED st
  BY <1>1, <1>3, GotoStores DEF Locations
<1> QED
  BY <1>2, <1>3 DEF Decide

LEMMA DecisionStores ==
  ASSUME TypeInv, NEW d \in Decisions,
         Refuse(d) \/ Approve(d) \/ Approved(d) \/ ApprovedDone(d) \/ Reject(d)
  PROVE  Stores(d)
<1>1. st[d] \in State /\ d \in Procs
  BY StateOfDecision DEF Refuse, Approve, Approved, ApprovedDone, Reject
<1>2. CASE Refuse(d) \/ ApprovedDone(d)
  BY <1>1, <1>2, GotoStores DEF Refuse, ApprovedDone, Locations
<1>3. CASE Approve(d) \/ Reject(d)
  <2>1. Holder(d) /\ pc[d] # "finishing"
    BY <1>3 DEF Approve, Reject, Holder
  <2>2. CASE Put(d, [st[d] EXCEPT !.status = "running"])
    BY <1>1, <2>1, <2>2, WriteStores, StatusNames
  <2>3. CASE Put(d, [st[d] EXCEPT !.status = "compensating"])
    BY <1>1, <2>1, <2>3, WriteStores, StatusNames
  <2> QED
    BY <1>3, <2>2, <2>3 DEF Approve, Reject
<1>4. CASE Approved(d)
  <2>1. Holder(d) /\ pc[d] # "finishing"
    BY <1>4 DEF Approved, Holder
  <2> QED
    BY <1>1, <1>4, <2>1, WriteStores, StatusNames DEF Approved
<1> QED
  BY <1>2, <1>3, <1>4

LEMMA StepStores ==
  ASSUME TypeInv, CopiesOK, [Next]_vars
  PROVE  Aside \/ \E p \in Procs : Move(p) /\ Stores(p)
<1>1. ASSUME NEW s \in Calls, Start(s) \/ Timer(s) \/ Answer(s)
      PROVE  Move(s) /\ Stores(s)
  BY <1>1, StartMove, ToolMove, StartStores, ToolStores DEF Timer, Answer
<1>2. ASSUME NEW s \in Calls, NEW x \in Steps, LateAnswer(s, x)
      PROVE  Aside
  BY <1>2 DEF LateAnswer, Aside, control, shared, logs
<1>3. ASSUME NEW p \in Procs, Segment(p) \/ UndoAnswer(p)
      PROVE  Move(p) /\ Stores(p)
  <2>1. CASE p \in Calls /\ Parked(p)
    <3>1. Goto(p, "done") /\ UNCHANGED <<st, store, shared, logs>> /\ "done" \in Locations
      BY <2>1 DEF Parked, Locations
    <3> QED
      BY <3>1, LeaveMove, GotoStores
  <2>2. CASE p \in Calls /\
               (Begin(p) \/ Advance(p) \/ Deny(p) \/ Park(p) \/ CallTool(p)
                 \/ Branch(p) \/ Finish(p))
    <3>1. Move(p)
      BY <2>2, BeginMove, AdvanceMove, ToolMove, ParkMove, BranchMove, FinishMove
    <3>2. Stores(p)
      BY <2>2, BeginStores, AdvanceStores, ToolStores, ParkStores, BranchStores, FinishStores
    <3> QED
      BY <3>1, <3>2
  <2>3. CASE p \in Decisions /\
               (Refuse(p) \/ Approve(p) \/ Approved(p) \/ ApprovedDone(p) \/ Reject(p))
    BY <2>3, DecisionMove, DecisionStores
  <2>4. CASE Unwind(p) \/ Failing(p) \/ UndoAnswer(p)
    BY <2>4, UnwindMove, FailingMove, UndoneMove, EndingStores DEF UndoAnswer
  <2> QED
    BY <1>3, <2>1, <2>2, <2>3, <2>4 DEF Segment
<1>4. ASSUME NEW d \in Decisions, NEW kind \in {"approve", "reject"}, Decide(d, kind)
      PROVE  Move(d) /\ Stores(d)
  BY <1>4, DecideMove, DecideStores
<1>5. CASE UNCHANGED vars
  BY <1>5 DEF vars, control, shared, logs, Aside
<1> QED
  BY <1>1, <1>2, <1>3, <1>4, <1>5 DEF Next, Procs

-----------------------------------------------------------------------------
(* With unique run ids and serialised decisions a run has one holder, whose *)
(* copy is the stored one.                                                  *)

FiledOK == \A r \in RunIds : store[r] # NoState => store[r].run = r

HolderOK ==
  /\ \A p \in Procs : Holder(p) => st[p] \in State /\ store[st[p].run] = st[p]
  /\ \A p, q \in Procs : Holder(p) /\ Holder(q) /\ st[p].run = st[q].run => p = q

OwnerInv == SagaInv /\ FiledOK /\ (Serialised /\ UniqueRunIds => HolderOK)

LEMMA OthersStay ==
  ASSUME NEW p \in Procs, Alone(p), NEW q \in Procs, q # p
  PROVE  /\ pc'[q] = pc[q] /\ st'[q] = st[q]
         /\ Holder(q)' <=> Holder(q)
         /\ Idle(q)' <=> Idle(q)
BY DEF Alone, Holder, Waiting, Idle

LEMMA PutStores ==
  ASSUME TypeInv, NEW p \in Procs, NEW x \in State, Put(p, x)
  PROVE  /\ st'[p] = x /\ x.run \in RunIds /\ store'[x.run] = x
         /\ \A r \in RunIds : r # x.run => store'[r] = store[r]
BY DEF Put, TypeInv, TypeOK, State

LEMMA FiledStep ==
  ASSUME TypeInv, FiledOK, NEW p \in Procs, Stores(p)
  PROVE  FiledOK'
<1>1. CASE store' = store
  BY <1>1 DEF FiledOK
<1>2. CASE \E x \in State : Put(p, x)
  <2>1. PICK x \in State : Put(p, x)
    BY <1>2
  <2>2. /\ store'[x.run] = x
        /\ \A r \in RunIds : r # x.run => store'[r] = store[r]
    BY <2>1, PutStores
  <2> QED
    BY <2>2 DEF FiledOK
<1> QED
  BY <1>1, <1>2 DEF Stores, Keeps, Begins, Fetches, Writes

\* A start() whose copy says waiting has parked the run, and holds it no more.
LEMMA HolderIsNotWaiting ==
  ASSUME TypeInv, CopiesOK, NEW s \in Calls, Holder(s)
  PROVE  st[s].status # "waiting_for_approval"
<1>1. pc[s] \in StartLocations /\ pc[s] # "idle" /\ pc[s] \notin {"parking", "done"}
  BY DEF TypeInv, ControlOK, StartLocations, Holder
<1>2. st[s] \in State /\ st[s].obj = s /\ s \in Procs
  BY <1>1, StateOfCall DEF Procs
<1>3. CopyOK(st[s])
  BY <1>2 DEF CopiesOK
<1> QED
  BY <1>1, <1>2, <1>3 DEF CopyOK, Parking

\* What a step of call p must show: of the other calls nothing changes but the
\* store, and there only what is stored for the run of p.
LEMMA HolderKept ==
  ASSUME HolderOK, NEW p \in Procs,
         \A q \in Procs : q # p => st'[q] = st[q] /\ (Holder(q)' => Holder(q)),
         Holder(p)' => /\ st'[p] \in State
                       /\ store'[st'[p].run] = st'[p]
                       /\ \A q \in Procs : q # p /\ Holder(q) => st[q].run # st'[p].run,
         \A q \in Procs : q # p /\ Holder(q) => store'[st[q].run] = store[st[q].run]
  PROVE  HolderOK'
<1>1. ASSUME NEW q \in Procs, Holder(q)'
      PROVE  st'[q] \in State /\ store'[st'[q].run] = st'[q]
  <2>1. CASE q = p
    BY <1>1, <2>1
  <2>2. CASE q # p
    <3>1. Holder(q) /\ st'[q] = st[q]
      BY <1>1, <2>2
    <3>2. st[q] \in State /\ store[st[q].run] = st[q]
      BY <3>1 DEF HolderOK
    <3>3. store'[st[q].run] = store[st[q].run]
      BY <2>2, <3>1
    <3> QED
      BY <3>1, <3>2, <3>3
  <2> QED
    BY <2>1, <2>2
<1>2. ASSUME NEW q \in Procs, NEW r \in Procs, Holder(q)', Holder(r)',
             st'[q].run = st'[r].run
      PROVE  q = r
  <2>1. CASE q # p /\ r # p
    BY <1>2, <2>1 DEF HolderOK
  <2>2. CASE q = p /\ r # p
    <3>1. Holder(r) /\ st'[r] = st[r]
      BY <1>2, <2>2
    <3> QED
      BY <1>2, <2>2, <3>1
  <2>3. CASE r = p /\ q # p
    <3>1. Holder(q) /\ st'[q] = st[q]
      BY <1>2, <2>3
    <3> QED
      BY <1>2, <2>3, <3>1
  <2> QED
    BY <2>1, <2>2, <2>3
<1> QED
  BY <1>1, <1>2 DEF HolderOK

LEMMA HolderStep ==
  ASSUME TypeInv, CopiesOK, FiledOK, HolderOK, Serialised, UniqueRunIds,
         NEW p \in Procs, Move(p), Stores(p)
  PROVE  HolderOK'
<1>1. \A q \in Procs : q # p => st'[q] = st[q] /\ (Holder(q)' => Holder(q))
  BY OthersStay DEF Move
<1>2. \A q \in Procs : Holder(q) => /\ st[q] \in State /\ st[q].run \in RunIds
                                    /\ store[st[q].run] = st[q]
  BY DEF HolderOK, State
<1>3. CASE Keeps(p)
  <2>1. st'[p] = st[p] /\ store' = store /\ (Holder(p)' => Holder(p))
    BY <1>3 DEF Keeps
  <2>2. Holder(p) => \A q \in Procs : q # p /\ Holder(q) => st[q].run # st[p].run
    BY DEF HolderOK
  <2>3. Holder(p)' => /\ st'[p] \in State
                      /\ store'[st'[p].run] = st'[p]
                      /\ \A q \in Procs : q # p /\ Holder(q) => st[q].run # st'[p].run
    BY <1>2, <2>1, <2>2
  <2> QED
    BY <1>1, <2>1, <2>3, HolderKept
<1>4. ASSUME NEW x \in State, Put(p, x),
             \A q \in Procs : q # p /\ Holder(q) => st[q].run # x.run
      PROVE  HolderOK'
  <2>1. /\ st'[p] = x /\ store'[x.run] = x
        /\ \A r \in RunIds : r # x.run => store'[r] = store[r]
    BY <1>4, PutStores
  <2>2. \A q \in Procs : q # p /\ Holder(q) => store'[st[q].run] = store[st[q].run]
    BY <1>2, <1>4, <2>1
  <2>3. /\ st'[p] \in State /\ store'[st'[p].run] = st'[p]
        /\ \A q \in Procs : q # p /\ Holder(q) => st[q].run # st'[p].run
    BY <1>4, <2>1
  <2> QED
    BY <1>1, <2>2, <2>3, HolderKept
<1>5. CASE Begins(p)
  <2>1. PICK x \in State : store[x.run] = NoState /\ Put(p, x)
    BY <1>5 DEF Begins
  <2>2. \A q \in Procs : Holder(q) => st[q].run # x.run
    BY <2>1, <1>2
  <2> QED
    BY <2>1, <2>2, <1>4
<1>6. CASE Fetches(p)
  <2>1. PICK r \in RunIds : store[r] # NoState /\ st'[p] = store[r]
    BY <1>6 DEF Fetches
  <2>2. store[r] \in State /\ store[r].run = r
    BY <2>1 DEF TypeInv, TypeOK, FiledOK
  <2>3. /\ UNCHANGED store /\ p \in Decisions
        /\ \A e \in Decisions : Idle(e)
        /\ pc'[p] \in {"approve", "reject"}
    BY <1>6 DEF Fetches
  <2>4. Holder(p)' => store[r].status = "waiting_for_approval"
    BY <2>1, <2>3 DEF Holder, Waiting
  <2>5. ASSUME NEW q \in Procs, Holder(q), st[q].run = r
        PROVE  store[r].status # "waiting_for_approval"
    <3>1. q \notin Decisions
      BY <2>3, <2>5 DEF Idle, Holder
    <3>2. q \in Calls /\ st[q] = store[r]
      BY <2>5, <3>1, <1>2 DEF Procs
    <3> QED
      BY <2>5, <3>2, HolderIsNotWaiting
  <2>6. Holder(p)' => /\ st'[p] \in State
                      /\ store'[st'[p].run] = st'[p]
                      /\ \A q \in Procs : q # p /\ Holder(q) => st[q].run # st'[p].run
    BY <2>1, <2>2, <2>3, <2>4, <2>5
  <2> QED
    BY <1>1, <2>3, <2>6, HolderKept
<1>7. CASE Writes(p)
  <2>1. PICK x \in State : x.run = st[p].run /\ Put(p, x)
    BY <1>7 DEF Writes
  <2>2. \A q \in Procs : q # p /\ Holder(q) => st[q].run # x.run
    BY <1>7, <2>1 DEF Writes, HolderOK
  <2> QED
    BY <2>1, <2>2, <1>4
<1> QED
  BY <1>3, <1>5, <1>6, <1>7 DEF Stores

LEMMA OwnerInit == Init => OwnerInv
<1> SUFFICES ASSUME Init PROVE OwnerInv
  OBVIOUS
<1>1. SagaInv
  BY SagaInvInit
<1>2. FiledOK
  BY DEF Init, FiledOK
<1>3. \A p \in Procs : ~Holder(p)
  BY DEF Init, Holder
<1> QED
  BY <1>1, <1>2, <1>3 DEF OwnerInv, HolderOK

LEMMA OwnerStep == OwnerInv /\ [Next]_vars => OwnerInv'
<1> SUFFICES ASSUME OwnerInv, [Next]_vars PROVE OwnerInv'
  OBVIOUS
<1>1. SagaInv /\ TypeInv /\ CopiesOK /\ FiledOK
  BY DEF OwnerInv, SagaInv, LedgerInv
<1>2. SagaInv'
  BY <1>1, SagaInvStep
<1>3. CASE Aside
  <2>1. \A p \in Procs : Holder(p)' <=> Holder(p)
    BY <1>3 DEF Aside, Holder, Waiting
  <2> QED
    BY <1>2, <1>3, <2>1 DEF OwnerInv, FiledOK, HolderOK, Aside
<1>4. ASSUME NEW p \in Procs, Move(p), Stores(p)
      PROVE  OwnerInv'
  BY <1>1, <1>2, <1>4, FiledStep, HolderStep DEF OwnerInv
<1> QED
  BY <1>1, <1>3, <1>4, StepStores

\* When callers decide one after the other, and no two runs have one id, a
\* decision is accepted only while the stored run waits for it: the copy the
\* guards of approve() and reject() look at is the stored one.
THEOREM AcceptedCorrect ==
  ASSUME Serialised, UniqueRunIds
  PROVE  Spec => AcceptedOnlyWaiting
<1>1. ASSUME OwnerInv, [Next]_vars, NEW d \in Decisions,
             pc[d] \in {"approve", "reject"}, pc'[d] \in {"approving", "unwind"}
      PROVE  store[st[d].run].status = "waiting_for_approval"
  <2>1. TypeInv /\ CopiesOK /\ HolderOK /\ d \in Procs /\ d \notin Calls
    BY <1>1 DEF OwnerInv, SagaInv, LedgerInv, Procs
  <2>2. ~Aside
    BY <1>1 DEF Aside
  <2>3. PICK p \in Procs : Move(p)
    BY <1>1, <2>1, <2>2, StepMoves
  <2>4. p = d
    BY <1>1, <2>1, <2>3 DEF Move, Alone
  <2>5. st[d].status = "waiting_for_approval"
    BY <1>1, <2>1, <2>3, <2>4
    DEF Move, Leaves, Pops, Empties, Resumes, Reads, Accepts, Rejects
  <2>6. Holder(d)
    BY <1>1, <2>5 DEF Holder, Waiting
  <2> QED
    BY <2>1, <2>5, <2>6 DEF HolderOK
<1>2. OwnerInv /\ [Next]_vars =>
        [\A d \in Decisions :
           pc[d] \in {"approve", "reject"} /\ pc'[d] \in {"approving", "unwind"} =>
             store[st[d].run].status = "waiting_for_approval"]_vars
  BY <1>1
<1> QED
  BY <1>2, OwnerInit, OwnerStep, PTL DEF Spec, AcceptedOnlyWaiting

-----------------------------------------------------------------------------
(* No step forward once a run is given up.                                  *)

\* Tools take effect, or are given up, only for the start() that called them.
ToolsOf(s) ==
  /\ \A q \in Calls : q # s => effects'[q] = effects[q] /\ late'[q] = late[q]
  /\ ~Ended(s)

\* A call given up earlier answers.
Answered ==
  \E s \in Calls, x \in Steps :
    /\ late[s][x] > 0
    /\ late' = [late EXCEPT ![s][x] = @ - 1]
    /\ effects' = [effects EXCEPT ![s][x] = @ + 1] \/ effects' = effects

LEMMA StepTools ==
  ASSUME TypeInv, [Next]_vars
  PROVE  UNCHANGED tools \/ Answered \/ \E s \in Calls : ToolsOf(s)
<1>1. ASSUME NEW s \in Calls, ToolOk(s) PROVE ToolsOf(s)
  BY <1>1 DEF ToolOk, CompleteStep, ToolsOf, Ended, TypeInv, TypeOK
<1>2. ASSUME NEW s \in Calls, Timeout(s) PROVE ToolsOf(s)
  BY <1>2 DEF Timeout, AfterFailure, FailStep, ToolsOf, Ended, TypeInv, TypeOK
<1>3. ASSUME NEW s \in Calls, Start(s) \/ Retry(s) \/ ToolError(s)
      PROVE  UNCHANGED tools
  BY <1>3 DEF Start, Retry, ToolError, AfterFailure, FailStep, tools
<1>4. ASSUME NEW s \in Calls, NEW x \in Steps, LateAnswer(s, x)
      PROVE  Answered
  BY <1>4 DEF LateAnswer, Answered
<1>5. ASSUME NEW p \in Procs, Segment(p) \/ UndoAnswer(p)
      PROVE  UNCHANGED tools
  <2>1. CASE p \in Calls /\
               (Begin(p) \/ Advance(p) \/ Deny(p) \/ Park(p) \/ Parked(p)
                 \/ CallTool(p) \/ Branch(p) \/ Finish(p))
    BY <2>1 DEF Begin, Advance, Deny, Park, Parked, CallTool, Branch, Finish,
                FailStep, CompleteStep, tools
  <2>2. CASE p \in Decisions /\
               (Refuse(p) \/ Approve(p) \/ Approved(p) \/ ApprovedDone(p) \/ Reject(p))
    BY <2>2 DEF Refuse, Approve, Approved, ApprovedDone, Reject
  <2>3. CASE Unwind(p) \/ Failing(p) \/ UndoAnswer(p)
    BY <2>3 DEF Unwind, Failing, UndoAnswer, UndoOk, UndoError, Undone
  <2> QED
    BY <1>5, <2>1, <2>2, <2>3 DEF Segment
<1>6. ASSUME NEW d \in Decisions, NEW kind \in {"approve", "reject"}, Decide(d, kind)
      PROVE  UNCHANGED tools
  BY <1>6 DEF Decide
<1>7. CASE UNCHANGED vars
  BY <1>7 DEF vars
<1> QED
  BY <1>1, <1>2, <1>3, <1>4, <1>5, <1>6, <1>7 DEF Next, Timer, Answer

\* What a given-up call may still do to the counters.
LEMMA AnsweredCounts ==
  ASSUME TypeOK, Answered, NEW s \in Calls, NEW x \in Steps
  PROVE  effects'[s][x] <= effects[s][x] + late[s][x] /\ late'[s][x] <= late[s][x]
<1>1. PICK q \in Calls, y \in Steps :
        /\ late[q][y] > 0
        /\ late' = [late EXCEPT ![q][y] = @ - 1]
        /\ effects' = [effects EXCEPT ![q][y] = @ + 1] \/ effects' = effects
  BY DEF Answered
<1>2. effects[s][x] \in Nat /\ late[s][x] \in Nat
  BY DEF TypeOK
<1>3. CASE q = s /\ y = x
  <2>1. late'[s][x] = late[s][x] - 1 /\ effects'[s][x] \in {effects[s][x], effects[s][x] + 1}
    BY <1>1, <1>3 DEF TypeOK
  <2> QED
    BY <1>1, <1>2, <1>3, <2>1
<1>4. CASE q # s
  <2>1. late'[s] = late[s] /\ effects'[s] = effects[s]
    BY <1>1, <1>4 DEF TypeOK
  <2> QED
    BY <1>2, <2>1
<1>5. CASE q = s /\ y # x
  <2>1. late[s] \in [Steps -> Nat] /\ effects[s] \in [Steps -> Nat]
    BY DEF TypeOK
  <2>2. /\ late'[s] = [late[s] EXCEPT ![y] = @ - 1]
        /\ effects'[s] = [effects[s] EXCEPT ![y] = @ + 1] \/ effects'[s] = effects[s]
    BY <1>1, <1>5 DEF TypeOK
  <2>3. late'[s][x] = late[s][x] /\ effects'[s][x] = effects[s][x]
    BY <1>5, <2>1, <2>2
  <2> QED
    BY <1>2, <2>3
<1> QED
  BY <1>3, <1>4, <1>5

\* Whoever gives a run up, and whatever calls of its tools are still running:
\* no step of it completes any more, and no new call of a tool is made.
THEOREM NoForwardCorrect == Spec => NoForwardAfterUnwind
<1> DEFINE A(s) ==
      Unwinding(s) => /\ done'[s] = done[s]
                      /\ \A x \in Steps : effects'[s][x] <= effects[s][x] + late[s][x]
                      /\ \A x \in Steps : late'[s][x] <= late[s][x]
<1>1. ASSUME SagaInv, [Next]_vars, NEW s \in Calls, Unwinding(s)
      PROVE  /\ done'[s] = done[s]
             /\ \A x \in Steps : effects'[s][x] <= effects[s][x] + late[s][x]
             /\ \A x \in Steps : late'[s][x] <= late[s][x]
  <2>1. TypeInv /\ TypeOK /\ CopiesOK
    BY <1>1 DEF SagaInv, LedgerInv, TypeInv
  <2>2. Ended(s)
    BY <1>1, <2>1, ForwardUnwinds
  <2>3. done'[s] = done[s]
    <3>1. CASE Aside
      BY <3>1 DEF Aside
    <3>2. ASSUME NEW p \in Procs, Move(p)
          PROVE  done'[s] = done[s]
      <4>1. CASE p \in Calls /\ Forwards(p)
        BY <2>1, <2>2, <4>1 DEF Forwards, TypeOK
      <4> QED
        BY <3>2, <4>1
        DEF Move, Parks, Fails, Leaves, Pops, Empties, Resumes, Reads, Accepts,
            Rejects, Quiet
    <3> QED
      BY <1>1, <2>1, <3>1, <3>2, StepMoves
  <2>4. ASSUME NEW x \in Steps
        PROVE  effects'[s][x] <= effects[s][x] + late[s][x] /\ late'[s][x] <= late[s][x]
    <3>1. CASE effects'[s] = effects[s] /\ late'[s] = late[s]
      <4>1. effects[s][x] \in Nat /\ late[s][x] \in Nat
        BY <2>1 DEF TypeOK
      <4> QED
        BY <3>1, <4>1
    <3>2. CASE Answered
      BY <2>1, <3>2, AnsweredCounts
    <3>3. CASE \E q \in Calls : ToolsOf(q)
      BY <2>2, <3>1, <3>3 DEF ToolsOf
    <3>4. CASE UNCHANGED tools
      BY <3>1, <3>4 DEF tools
    <3> QED
      BY <1>1, <2>1, <3>2, <3>3, <3>4, StepTools
  <2> QED
    BY <2>3, <2>4
<1>2. SagaInv /\ [Next]_vars => [\A s \in Calls : A(s)]_vars
  BY <1>1
<1> QED
  BY <1>2, SagaInvInit, SagaInvStep, PTL DEF Spec, NoForwardAfterUnwind

-----------------------------------------------------------------------------
(* A run is stored as failed once its last compensation has been answered.  *)

\* Every copy carries the id its start() gave to the run.
RunsOK ==
  /\ \A p \in Procs : st[p] # NoState =>
       st[st[p].obj] # NoState /\ st[p].run = st[st[p].obj].run
  /\ \A r \in RunIds : store[r] # NoState =>
       st[store[r].obj] # NoState /\ store[r].run = st[store[r].obj].run

OneDecider == \A d, e \in Decisions : ~Idle(d) /\ ~Idle(e) => d = e

\* Call p compensates the run, or has been told that it waits for a decision.
Busy(p) ==
  /\ st[p] # NoState
  /\ \/ pc[p] \in {"unwind", "undoing"}
     \/ pc[p] \in {"approve", "reject"} /\ Waiting(p)

\* Of the calls with a copy of one start()'s state at most one is busy, and
\* meanwhile that state is nowhere stored as failed.
BusyOK ==
  /\ \A p, q \in Procs : Busy(p) /\ Busy(q) /\ st[p].obj = st[q].obj => p = q
  /\ \A p \in Procs, r \in RunIds :
       Busy(p) /\ store[r] # NoState /\ store[r].obj = st[p].obj =>
         store[r].status # "failed"

SettledInv ==
  SagaInv /\ FiledOK /\ RunsOK /\ (Serialised => OneDecider /\ BusyOK)

LEMMA StateTypes ==
  ASSUME TypeInv, CopiesOK
  PROVE  /\ \A p \in Procs : st[p] # NoState => st[p] \in State /\ st[p].obj \in Procs
         /\ \A r \in RunIds : store[r] # NoState => store[r] \in State /\ store[r].obj \in Procs
         /\ \A s \in Calls : st[s] # NoState => st[s].obj = s
<1>1. TypeOK
  BY DEF TypeInv
<1>2. \A x \in State : x.obj \in Procs
  BY DEF State, Procs
<1>3. ASSUME NEW s \in Calls, st[s] # NoState
      PROVE  st[s].obj = s
  BY <1>3 DEF TypeInv, ControlOK, CopiesOK, Procs
<1> QED
  BY <1>1, <1>2, <1>3 DEF TypeOK

\* The copy x carries the id that its start() gave to the run.
Right(x) == st[x.obj] # NoState /\ x.run = st[x.obj].run

LEMMA RunsKept ==
  ASSUME TypeInv, RunsOK, NEW p \in Procs, Alone(p),
         \A x \in State : Right(x) => st'[x.obj] # NoState /\ x.run = st'[x.obj].run,
         st'[p] # NoState => st'[st'[p].obj] # NoState /\ st'[p].run = st'[st'[p].obj].run
  PROVE  RunsOK'
<1>1. ASSUME NEW q \in Procs, st'[q] # NoState
      PROVE  st'[st'[q].obj] # NoState /\ st'[q].run = st'[st'[q].obj].run
  <2>1. CASE q # p
    <3>1. st'[q] = st[q] /\ st[q] \in State /\ Right(st[q])
      BY <1>1, <2>1 DEF Alone, TypeInv, TypeOK, RunsOK, Right
    <3> QED
      BY <3>1
  <2> QED
    BY <1>1, <2>1
<1>2. ASSUME NEW r \in RunIds, store'[r] # NoState
      PROVE  st'[store'[r].obj] # NoState /\ store'[r].run = st'[store'[r].obj].run
  <2>1. CASE store'[r] = store[r]
    <3>1. store[r] \in State /\ Right(store[r])
      BY <1>2, <2>1 DEF TypeInv, TypeOK, RunsOK, Right
    <3> QED
      BY <2>1, <3>1
  <2>2. CASE store'[r] = st'[p]
    BY <1>2, <2>2
  <2> QED
    BY <2>1, <2>2 DEF Alone
<1> QED
  BY <1>1, <1>2 DEF RunsOK

LEMMA HolderState ==
  ASSUME TypeInv, NEW p \in Procs, Holder(p)
  PROVE  st[p] \in State
BY DEF TypeInv, ControlOK, Holder, Procs

LEMMA RunsStep ==
  ASSUME TypeInv, CopiesOK, RunsOK, NEW p \in Procs, Alone(p), Stores(p)
  PROVE  RunsOK'
<1>1. /\ \A q \in Procs : q # p => st'[q] = st[q]
      /\ \A x \in State : x.obj \in Calls /\ x.obj \in Procs
      /\ Calls \cap Decisions = {} /\ NoState \notin State
  BY DEF Alone, State, Procs
<1>2. CASE Keeps(p)
  BY <1>2 DEF Keeps, RunsOK
<1>3. CASE Begins(p)
  <2>1. PICK x \in State : x.obj = p /\ Put(p, x) /\ p \in Calls /\ pc[p] = "idle"
    BY <1>3 DEF Begins
  <2>2. st'[p] = x /\ st[p] = NoState
    BY <2>1, PutStores DEF CopiesOK
  <2>3. \A y \in State : Right(y) => st'[y.obj] # NoState /\ y.run = st'[y.obj].run
    BY <1>1, <2>2 DEF Right
  <2> QED
    BY <1>1, <2>1, <2>2, <2>3, RunsKept
<1>4. CASE Fetches(p)
  <2>1. PICK r \in RunIds : store[r] # NoState /\ st'[p] = store[r]
    BY <1>4 DEF Fetches
  <2>2. store[r] \in State /\ Right(store[r]) /\ p \in Decisions
    BY <1>4, <2>1 DEF Fetches, TypeInv, TypeOK, RunsOK, Right
  <2>3. ASSUME NEW y \in State, Right(y)
        PROVE  st'[y.obj] # NoState /\ y.run = st'[y.obj].run
    <3>1. y.obj \in Procs /\ y.obj # p
      BY <1>1, <2>2
    <3>2. st'[y.obj] = st[y.obj]
      BY <1>1, <3>1
    <3> QED
      BY <2>3, <3>2 DEF Right
  <2> QED
    BY <2>1, <2>2, <2>3, RunsKept
<1>5. CASE Writes(p)
  <2>1. PICK x \in State : x.run = st[p].run /\ x.obj = st[p].obj /\ Put(p, x)
    BY <1>5 DEF Writes
  <2>2. st'[p] = x /\ st[p] \in State /\ x # NoState
    BY <1>1, <1>5, <2>1, PutStores, HolderState DEF Writes
  <2>3. \A y \in State : Right(y) => st'[y.obj] # NoState /\ y.run = st'[y.obj].run
    BY <1>1, <2>1, <2>2 DEF Right
  <2>4. Right(st[p])
    BY <1>1, <2>2 DEF RunsOK, Right
  <2>5. st'[st'[p].obj] # NoState /\ st'[p].run = st'[st'[p].obj].run
    BY <2>1, <2>2, <2>3, <2>4
  <2> QED
    BY <2>3, <2>5, RunsKept
<1> QED
  BY <1>2, <1>3, <1>4, <1>5 DEF Stores

LEMMA DeciderStep ==
  ASSUME OneDecider, Serialised, NEW p \in Procs, Alone(p), Stores(p)
  PROVE  OneDecider'
<1>1. \A q \in Procs : q # p => (Idle(q)' <=> Idle(q))
  BY DEF Alone, Idle
<1>2. CASE Keeps(p) \/ Writes(p)
  <2>1. Idle(p) => Idle(p)'
    BY <1>2 DEF Keeps, Writes, Holder, Idle
  <2> QED
    BY <1>1, <2>1 DEF OneDecider, Procs
<1>3. CASE Begins(p)
  <2>1. p \notin Decisions
    BY <1>3 DEF Begins
  <2> QED
    BY <1>1, <2>1 DEF OneDecider, Procs
<1>4. CASE Fetches(p)
  <2>1. \A e \in Decisions : Idle(e)
    BY <1>4 DEF Fetches
  <2> QED
    BY <1>1, <2>1 DEF OneDecider, Procs
<1> QED
  BY <1>2, <1>3, <1>4 DEF Stores

\* How a call comes to be busy.
LEMMA BusyStarts ==
  ASSUME TypeInv, CopiesOK, NEW p \in Procs, Move(p), Busy(p)'
  PROVE  \/ Busy(p) /\ st'[p].obj = st[p].obj
         \/ p \in Calls /\ ~Ended(p) /\ st'[p].obj = p
         \/ /\ p \in Decisions
            /\ \E r \in RunIds : /\ store[r] # NoState /\ st'[p] = store[r]
                                 /\ store[r].status = "waiting_for_approval"
<1>1. pc'[p] \in {"unwind", "undoing", "approve", "reject"} /\ st'[p] # NoState
  BY DEF Busy
<1>2. CASE p \in Calls /\ (Forwards(p) \/ Parks(p) \/ Fails(p))
  BY <1>1, <1>2 DEF Forwards, Parks, Fails, Holds
<1>3. CASE Leaves(p) \/ Empties(p) \/ Accepts(p)
  BY <1>1, <1>3 DEF Leaves, Empties, Accepts
<1>4. CASE Pops(p) \/ Resumes(p)
  BY <1>1, <1>4 DEF Pops, Resumes, Busy
<1>5. CASE Rejects(p)
  <2>1. st[p] \in State /\ pc[p] = "reject" /\ Waiting(p) /\ st'[p].obj = st[p].obj
    BY <1>5, StateOfDecision DEF Rejects, Holds, Waiting
  <2> QED
    BY <2>1 DEF Busy
<1>6. CASE Reads(p)
  <2>1. PICK r \in RunIds : st'[p] = store[r]
    BY <1>6 DEF Reads
  <2>2. pc'[p] \in {"approve", "reject"}
    BY <1>1, <1>6 DEF Reads
  <2>3. store[r].status = "waiting_for_approval"
    BY <2>1, <2>2 DEF Busy, Waiting
  <2> QED
    BY <1>1, <1>6, <2>1, <2>3 DEF Reads
<1> QED
  BY <1>2, <1>3, <1>4, <1>5, <1>6 DEF Move

\* A state is stored as failed by a call that was busy, and is no more.
LEMMA FailedStarts ==
  ASSUME TypeInv, CopiesOK, NEW p \in Procs, Move(p), NEW r \in RunIds,
         store'[r] # store[r], store'[r].status = "failed"
  PROVE  Busy(p) /\ ~Busy(p)' /\ store'[r].obj = st[p].obj
<1>1. store'[r] = st'[p]
  BY DEF Move, Alone
<1>2. ~(p \in Calls /\ (Forwards(p) \/ Parks(p) \/ Fails(p))) /\ ~Accepts(p) /\ ~Rejects(p)
  BY <1>1 DEF Forwards, Parks, Fails, Accepts, Rejects, Holds
<1>3. ~Leaves(p) /\ ~Pops(p) /\ ~Reads(p)
  BY DEF Leaves, Pops, Reads
<1>4. ~Resumes(p)
  BY <1>1 DEF Resumes, CopiesOK
<1>5. Empties(p)
  BY <1>2, <1>3, <1>4 DEF Move
<1>6. st[p] \in State
  BY <1>5, PopsEnded DEF Empties
<1> QED
  BY <1>1, <1>5, <1>6 DEF Empties, Holds, Busy

\* The start() of a state that somebody is busy with has ended.
LEMMA BusyEnded ==
  ASSUME TypeInv, CopiesOK, NEW p \in Procs, Busy(p)
  PROVE  Ended(st[p].obj)
<1>1. CopyOK(st[p])
  BY DEF CopiesOK, Busy
<1>2. st[p].status \in {"compensating", "waiting_for_approval"}
  BY DEF CopiesOK, Busy, Waiting
<1> QED
  BY <1>1, <1>2 DEF CopyOK, Parking, Ended

\* Nobody is busy with a state that is stored as waiting, but a decision.
LEMMA WaitingBusy ==
  ASSUME TypeInv, CopiesOK, NEW r \in RunIds, store[r] # NoState,
         store[r].status = "waiting_for_approval",
         NEW q \in Procs, Busy(q), st[q].obj = store[r].obj
  PROVE  q \in Decisions /\ ~Idle(q)
<1>1. Parking(store[r].obj)
  BY DEF CopiesOK, CopyOK
<1>2. ASSUME q \in Calls PROVE FALSE
  <2>1. st[q].obj = q
    BY <1>2, StateTypes DEF Busy
  <2>2. pc[q] \in {"parking", "done"}
    BY <1>1, <2>1 DEF Parking
  <2> QED
    BY <2>2 DEF Busy
<1> QED
  BY <1>2 DEF Busy, Idle, Procs

LEMMA BusyAlone ==
  ASSUME TypeInv, CopiesOK, OneDecider', BusyOK,
         NEW p \in Procs, Move(p), Busy(p)',
         NEW q \in Procs, q # p, Busy(q)'
  PROVE  st'[q].obj # st'[p].obj
<1>1. Busy(q) /\ st'[q] = st[q] /\ (Idle(q)' <=> Idle(q))
  BY DEF Move, Alone, Busy, Waiting, Idle
<1>2. CASE Busy(p) /\ st'[p].obj = st[p].obj
  BY <1>1, <1>2 DEF BusyOK
<1>3. CASE p \in Calls /\ ~Ended(p) /\ st'[p].obj = p
  BY <1>1, <1>3, BusyEnded
<1>4. CASE p \in Decisions /\
           \E r \in RunIds : /\ store[r] # NoState /\ st'[p] = store[r]
                             /\ store[r].status = "waiting_for_approval"
  <2>1. SUFFICES ASSUME st[q].obj = st'[p].obj PROVE FALSE
    BY <1>1
  <2>2. q \in Decisions /\ ~Idle(q)
    BY <1>1, <1>4, <2>1, WaitingBusy
  <2>3. ~Idle(p)'
    BY DEF Busy, Idle
  <2> QED
    BY <1>1, <1>4, <2>2, <2>3 DEF OneDecider
<1> QED
  BY <1>2, <1>3, <1>4, BusyStarts

LEMMA BusyStep ==
  ASSUME TypeInv, CopiesOK, FiledOK, RunsOK, OneDecider', BusyOK,
         NEW p \in Procs, Move(p)
  PROVE  BusyOK'
<1>1. \A q \in Procs : q # p => st'[q] = st[q] /\ (Busy(q)' <=> Busy(q))
  BY DEF Move, Alone, Busy, Waiting
<1>2. ASSUME NEW q \in Procs, NEW t \in Procs, Busy(q)', Busy(t)', st'[q].obj = st'[t].obj
      PROVE  q = t
  <2>1. CASE q # p /\ t # p
    BY <1>1, <1>2, <2>1 DEF BusyOK
  <2>2. CASE q = p /\ t # p
    BY <1>2, <2>2, BusyAlone
  <2>3. CASE t = p /\ q # p
    BY <1>2, <2>3, BusyAlone
  <2> QED
    BY <2>1, <2>2, <2>3
<1>3. ASSUME NEW q \in Procs, NEW r \in RunIds, Busy(q)', store'[r] # NoState,
             store'[r].obj = st'[q].obj, store'[r].status = "failed"
      PROVE  FALSE
  <2>1. CASE store'[r] # store[r]
    <3>1. Busy(p) /\ ~Busy(p)' /\ store'[r].obj = st[p].obj
      BY <1>3, <2>1, FailedStarts
    <3>2. q # p
      BY <1>3, <3>1
    <3> QED
      BY <1>1, <1>3, <3>1, <3>2 DEF BusyOK
  <2>2. CASE store'[r] = store[r] /\ q # p
    <3>1. Busy(q) /\ st'[q] = st[q]
      BY <1>1, <1>3, <2>2
    <3>2. store[r] # NoState /\ store[r].obj = st[q].obj /\ store[r].status = "failed"
      BY <1>3, <2>2, <3>1
    <3> QED
      BY <3>1, <3>2 DEF BusyOK
  <2>3. CASE store'[r] = store[r] /\ q = p
    <3>1. CASE Busy(p) /\ st'[p].obj = st[p].obj
      BY <1>3, <2>3, <3>1 DEF BusyOK
    <3>2. CASE p \in Calls /\ ~Ended(p) /\ st'[p].obj = p
      BY <1>3, <2>3, <3>2 DEF CopiesOK, CopyOK
    <3>3. ASSUME NEW t \in RunIds, store[t] # NoState, st'[p] = store[t],
                 store[t].status = "waiting_for_approval"
          PROVE  FALSE
      <4>1. store[r].run = r /\ store[t].run = t
        BY <1>3, <2>3, <3>3 DEF FiledOK
      <4>2. /\ store[r] # NoState /\ store[r].obj = store[t].obj
            /\ store[r].status = "failed"
        BY <1>3, <2>3, <3>3
      <4>3. /\ store[r].run = st[store[r].obj].run
            /\ store[t].run = st[store[t].obj].run
        BY <3>3, <4>2 DEF RunsOK
      <4>4. r = t
        BY <4>1, <4>2, <4>3
      <4> QED
        BY <3>3, <4>2, <4>4
    <3> QED
      BY <1>3, <2>3, <3>1, <3>2, <3>3, BusyStarts
  <2> QED
    BY <2>1, <2>2, <2>3
<1> QED
  BY <1>2, <1>3 DEF BusyOK

LEMMA SettledInit == Init => SettledInv
<1> SUFFICES ASSUME Init PROVE SettledInv
  OBVIOUS
<1>1. SagaInv
  BY SagaInvInit
<1>2. FiledOK /\ RunsOK
  BY DEF Init, FiledOK, RunsOK
<1>3. OneDecider /\ BusyOK
  BY DEF Init, OneDecider, BusyOK, Busy, Idle, Procs
<1> QED
  BY <1>1, <1>2, <1>3 DEF SettledInv

LEMMA SettledStep == SettledInv /\ [Next]_vars => SettledInv'
<1> SUFFICES ASSUME SettledInv, [Next]_vars PROVE SettledInv'
  OBVIOUS
<1>1. SagaInv /\ TypeInv /\ CopiesOK /\ FiledOK /\ RunsOK
  BY DEF SettledInv, SagaInv, LedgerInv
<1>2. SagaInv'
  BY <1>1, SagaInvStep
<1>3. CASE Aside
  <2>1. FiledOK' /\ RunsOK'
    BY <1>1, <1>3 DEF Aside, FiledOK, RunsOK
  <2>2. Serialised => OneDecider' /\ BusyOK'
    BY <1>3 DEF SettledInv, Aside, OneDecider, BusyOK, Busy, Waiting, Idle
  <2> QED
    BY <1>2, <2>1, <2>2 DEF SettledInv
<1>4. ASSUME NEW p \in Procs, Move(p), Stores(p)
      PROVE  SettledInv'
  <2>1. FiledOK' /\ RunsOK'
    BY <1>1, <1>4, FiledStep, RunsStep DEF Move
  <2>2. Serialised => OneDecider'
    BY <1>4, DeciderStep DEF SettledInv, Move
  <2>3. Serialised => BusyOK'
    BY <1>1, <1>4, <2>2, BusyStep DEF SettledInv
  <2> QED
    BY <1>2, <2>1, <2>2, <2>3 DEF SettledInv
<1> QED
  BY <1>1, <1>3, <1>4, StepStores

\* When callers decide one after the other, a caller who reads "failed" knows
\* that no compensation call of the run is still out, even if another run has
\* the same id.
THEOREM SettledCorrect == Spec => []FailedIsSettled
<1>1. SettledInv => FailedIsSettled
  <2> SUFFICES ASSUME SettledInv, Serialised, NEW r \in RunIds, NEW p \in Procs,
                      store[r] # NoState, pc[p] = "undoing", store[r].obj = st[p].obj
               PROVE  store[r].status # "failed"
    BY DEF FailedIsSettled
  <2>1. st[p] \in State
    BY PopsEnded DEF SettledInv, SagaInv, LedgerInv
  <2>2. Busy(p) /\ BusyOK
    BY <2>1 DEF SettledInv, Busy
  <2> QED
    BY <2>2 DEF BusyOK
<1> QED
  BY <1>1, SettledInit, SettledStep, PTL DEF Spec

-----------------------------------------------------------------------------
(* Workflows without conditional steps: the end of a block is the end of the *)
(* run, so that a run is stored as completed only when no step remains.      *)

Flat == \A x \in Steps : Kind[x] # "conditional"

Stepping(s) == pc[s] \in {"begin", "checking", "calling", "backoff", "advance"}

\* There is one loop, and the run is running until it ends.
FlatAt(s) ==
  /\ Forward(s) /\ pc[s] # "begin" => Len(frames[s]) = 1
  /\ Stepping(s) => st[s].status = "running"

FlatOK == \A s \in Calls : FlatAt(s)

LEMMA FlatLoop ==
  ASSUME TypeInv, NEW s \in Calls, Stepping(s), FlatAt(s),
         NEW f \in Seq(Frame), Len(f) = 1, Loop(s, f)
  PROVE  FlatAt(s)' /\ \A q \in Calls : q # s => frames'[q] = frames[q]
<1>1. st[s] \in State /\ st[s].status = "running" /\ s \in Procs /\ TypeOK
  BY StateOfCall DEF Stepping, FlatAt, Procs, TypeInv
<1>2. frames'[s] = f /\ \A q \in Calls : q # s => frames'[q] = frames[q]
  BY <1>1 DEF Loop, TypeOK
<1>3. CASE \E x : Put(s, [st[s] EXCEPT !.cur = x]) /\ Goto(s, "checking")
  <2>1. st'[s].status = "running" /\ pc'[s] = "checking"
    BY <1>1, <1>3 DEF Put, Goto, TypeOK, State
  <2> QED
    BY <1>2, <2>1 DEF FlatAt, Forward, Stepping
<1>4. CASE Goto(s, "finishing")
  <2>1. pc'[s] = "finishing"
    BY <1>1, <1>4 DEF Goto, TypeOK
  <2> QED
    BY <1>2, <2>1 DEF FlatAt, Forward, Stepping
<1> QED
  BY <1>2, <1>3, <1>4 DEF Loop

\* A step by call p that leaves the loops as they are.
LEMMA FlatRest ==
  ASSUME TypeInv, NEW p \in Procs, frames' = frames,
         p \in Calls => FlatAt(p),
         \/ ~Forward(p)'
         \/ /\ p \in Calls /\ Stepping(p) /\ pc[p] # "begin"
            /\ st'[p] = st[p] /\ pc'[p] \in {"calling", "backoff", "advance"}
  PROVE  p \in Calls => FlatAt(p)'
BY DEF FlatAt, Forward, Stepping

LEMMA FlatStart ==
  ASSUME TypeInv, NEW s \in Calls, Start(s)
  PROVE  FlatAt(s)' /\ frames' = frames
<1>1. PICK r \in RunIds :
        Put(s, [run |-> r, obj |-> s, status |-> "running", cur |-> NoStep])
  BY DEF Start
<1>2. st'[s].status = "running" /\ pc'[s] = "begin" /\ frames' = frames
  BY <1>1 DEF Start, Put, Goto, TypeInv, TypeOK, Procs
<1> QED
  BY <1>2 DEF FlatAt, Forward, Stepping

LEMMA FlatExecute ==
  ASSUME TypeInv, Flat, NEW s \in Calls, FlatAt(s), Begin(s) \/ Advance(s)
  PROVE  FlatAt(s)' /\ \A q \in Calls : q # s => frames'[q] = frames[q]
<1>1. CASE Begin(s)
  <2> DEFINE g == [block |-> Root, at |-> 1]
             f == <<g>>
  <2>1. g \in Frame
    BY DEF Frame
  <2>2. f \in Seq(Frame) /\ Len(f) = 1
    <3> HIDE DEF g
    <3> QED BY <2>1
  <2>3. Loop(s, f) /\ Stepping(s)
    BY <1>1 DEF Begin, Stepping
  <2> HIDE DEF f
  <2> QED
    BY <2>2, <2>3, FlatLoop
<1>2. CASE Advance(s)
  <2> DEFINE f == [frames[s] EXCEPT ![Len(frames[s])].at = @ + 1]
  <2>1. pc[s] = "advance" /\ Loop(s, f) /\ Stepping(s)
    BY <1>2 DEF Advance, Stepping
  <2>2. f \in Seq(Frame) /\ frames[s] \in Seq(Frame)
    BY <2>1, AdvanceFrames, TopType
  <2>3. Len(frames[s]) = 1
    BY <2>1 DEF FlatAt, Forward
  <2>4. Len(f) = 1
    <3> DEFINE g == [frames[s][1] EXCEPT !.at = @ + 1]
               h == [frames[s] EXCEPT ![1] = g]
    <3>1. frames[s][1] \in Frame
      BY <2>1, <2>3, TopType DEF Top
    <3>2. g \in Frame
      BY <3>1, NextFrame
    <3>3. Len(h) = 1
      <4> HIDE DEF g
      <4> QED BY <2>2, <2>3, <3>2, ExceptSeq
    <3>4. f = h
      BY <2>3
    <3> QED
      BY <3>3, <3>4
  <2> HIDE DEF f
  <2> QED
    BY <2>1, <2>2, <2>4, FlatLoop
<1> QED
  BY <1>1, <1>2

LEMMA FlatTool ==
  ASSUME TypeInv, Flat, NEW s \in Calls, FlatAt(s),
         \/ Deny(s) \/ Park(s) \/ Parked(s) \/ CallTool(s) \/ Branch(s) \/ Finish(s)
         \/ ToolOk(s) \/ ToolError(s) \/ Timeout(s) \/ Retry(s)
  PROVE  FlatAt(s)' /\ frames' = frames
<1>1. s \in Procs /\ TypeOK
  BY DEF Procs, TypeInv
<1>2. \A l : Goto(s, l) => pc'[s] = l
  BY <1>1 DEF Goto, TypeOK
<1>3. ~Branch(s)
  <2>1. SUFFICES ASSUME Branch(s) PROVE FALSE
    OBVIOUS
  <2>2. StepOf(Top(s)) \in Steps /\ Kind[StepOf(Top(s))] = "conditional"
    BY <2>1, TopType DEF Branch
  <2> QED
    BY <2>2 DEF Flat
<1>4. CASE Finish(s)
  <2>1. pc[s] = "finishing" /\ Len(frames[s]) = 1
    BY <1>4 DEF Finish, FlatAt, Forward
  <2>2. Goto(s, "done") /\ frames' = frames
    BY <1>4, <2>1 DEF Finish
  <2> QED
    BY <1>1, <1>2, <2>2, FlatRest DEF Forward
<1>5. CASE frames' = frames /\ (Goto(s, "unwind") \/ Goto(s, "parking") \/ Goto(s, "done"))
  BY <1>1, <1>2, <1>5, FlatRest DEF Forward
<1>6. ASSUME frames' = frames, Stepping(s), pc[s] # "begin",
             NEW x, CompleteStep(s, x)
      PROVE  FlatAt(s)' /\ frames' = frames
  <2>1. st'[s] = st[s] /\ pc'[s] = "advance"
    BY <1>1, <1>2, <1>6 DEF CompleteStep, Put, TypeOK
  <2> QED
    BY <1>1, <1>6, <2>1, FlatRest
<1>7. CASE /\ frames' = frames /\ Stepping(s) /\ pc[s] # "begin" /\ UNCHANGED st
           /\ Goto(s, "calling") \/ Goto(s, "backoff")
  BY <1>1, <1>2, <1>7, FlatRest
<1>8. CASE Deny(s) \/ Park(s) \/ Parked(s)
  BY <1>5, <1>8 DEF Deny, Park, Parked, FailStep
<1>9. CASE CallTool(s)
  BY <1>5, <1>7, <1>9 DEF CallTool, FailStep, Stepping
<1>10. CASE ToolOk(s)
  BY <1>6, <1>10 DEF ToolOk, Stepping
<1>11. CASE ToolError(s) \/ Timeout(s)
  BY <1>5, <1>7, <1>11 DEF ToolError, Timeout, AfterFailure, FailStep, Stepping
<1>12. CASE Retry(s)
  BY <1>7, <1>12 DEF Retry, Stepping
<1> QED
  BY <1>3, <1>4, <1>8, <1>9, <1>10, <1>11, <1>12

\* A call that compensates or decides executes no steps.
LEMMA FlatEnding ==
  ASSUME TypeInv, NEW p \in Procs, p \in Calls => FlatAt(p),
         \/ Unwind(p) \/ Failing(p) \/ UndoAnswer(p)
         \/ p \in Decisions /\
              (Refuse(p) \/ Approve(p) \/ Approved(p) \/ ApprovedDone(p) \/ Reject(p))
         \/ p \in Decisions /\ \E kind \in {"approve", "reject"} : Decide(p, kind)
  PROVE  (p \in Calls => FlatAt(p)') /\ frames' = frames
<1>1. \A l : Goto(p, l) => pc'[p] = l
  BY DEF Goto, TypeInv, TypeOK
<1>2. p \notin Decisions => ~Forward(p)'
  BY <1>1 DEF Unwind, Failing, UndoAnswer, UndoOk, UndoError, Undone, Forward
<1>3. frames' = frames
  BY DEF Unwind, Failing, UndoAnswer, UndoOk, UndoError, Undone, Refuse, Approve,
         Approved, ApprovedDone, Reject, Decide
<1> QED
  BY <1>2, <1>3, FlatRest

LEMMA FlatStep ==
  ASSUME TypeInv, CopiesOK, Flat, FlatOK, [Next]_vars
  PROVE  FlatOK'
<1>1. ASSUME NEW p \in Procs, Alone(p), p \in Calls => FlatAt(p)',
             \A q \in Calls : q # p => frames'[q] = frames[q]
      PROVE  FlatOK'
  <2>1. \A q \in Calls : q # p => FlatAt(q)'
    BY <1>1 DEF Alone, FlatOK, FlatAt, Forward, Stepping, Procs
  <2> QED
    BY <1>1, <2>1 DEF FlatOK
<1>2. CASE UNCHANGED vars
  BY <1>2 DEF vars, control, FlatOK, FlatAt, Forward, Stepping
<1>3. ASSUME NEW s \in Calls, NEW x \in Steps, LateAnswer(s, x)
      PROVE  FlatOK'
  BY <1>3 DEF LateAnswer, control, FlatOK, FlatAt, Forward, Stepping
<1>4. ASSUME NEW s \in Calls,
             \/ Start(s) \/ Begin(s) \/ Advance(s) \/ Deny(s) \/ Park(s) \/ Parked(s)
             \/ CallTool(s) \/ Branch(s) \/ Finish(s)
             \/ ToolOk(s) \/ ToolError(s) \/ Timeout(s) \/ Retry(s)
      PROVE  FlatOK'
  <2>1. s \in Procs /\ FlatAt(s)
    BY DEF Procs, FlatOK
  <2>2. Alone(s)
    <3>1. CASE Parked(s)
      <4>1. Goto(s, "done") /\ UNCHANGED <<st, store>> /\ "done" \in Locations
        BY <3>1 DEF Parked, Locations
      <4> QED
        BY <2>1, <4>1, GotoAlone
    <3> QED
      BY <1>4, <3>1, StartMove, BeginMove, AdvanceMove, ToolMove, ParkMove,
         BranchMove, FinishMove DEF Move
  <2>3. FlatAt(s)' /\ \A q \in Calls : q # s => frames'[q] = frames[q]
    BY <1>4, <2>1, FlatStart, FlatExecute, FlatTool
  <2> QED
    BY <1>1, <2>1, <2>2, <2>3
<1>5. ASSUME NEW p \in Procs,
             \/ Unwind(p) \/ Failing(p) \/ UndoAnswer(p)
             \/ p \in Decisions /\
                  (Refuse(p) \/ Approve(p) \/ Approved(p) \/ ApprovedDone(p) \/ Reject(p))
             \/ p \in Decisions /\ \E kind \in {"approve", "reject"} : Decide(p, kind)
      PROVE  FlatOK'
  <2>1. Alone(p)
    BY <1>5, UnwindMove, FailingMove, UndoneMove, DecisionMove, DecideMove
    DEF UndoAnswer, Move
  <2>2. (p \in Calls => FlatAt(p)') /\ frames' = frames
    BY <1>5, FlatEnding DEF FlatOK
  <2> QED
    BY <1>1, <2>1, <2>2
<1> QED
  BY <1>2, <1>3, <1>4, <1>5 DEF Next, Segment, Timer, Answer, UndoAnswer, Procs

FlatInv == OwnerInv /\ FlatOK

LEMMA FlatInit == Init => FlatInv
<1> SUFFICES ASSUME Init PROVE FlatInv
  OBVIOUS
<1>1. FlatOK
  BY DEF Init, FlatOK, FlatAt, Forward, Stepping, Procs
<1> QED
  BY <1>1, OwnerInit DEF FlatInv

LEMMA FlatInvStep ==
  ASSUME Flat
  PROVE  FlatInv /\ [Next]_vars => FlatInv'
BY OwnerStep, FlatStep DEF FlatInv, OwnerInv, SagaInv, LedgerInv

\* While the steps of a flat workflow are executed the run is stored as
\* running, whoever polls or decides meanwhile.
THEOREM ExecutingCorrect ==
  ASSUME Flat, Serialised, UniqueRunIds
  PROVE  Spec => []ExecutingIsActive
<1>1. FlatInv => ExecutingIsActive
  <2> SUFFICES ASSUME FlatInv, NEW s \in Calls, Forward(s), pc[s] # "finishing"
               PROVE  store[st[s].run].status = "running"
    BY DEF ExecutingIsActive
  <2>1. Stepping(s) /\ Holder(s) /\ s \in Procs
    BY DEF Forward, Stepping, Holder, Procs
  <2>2. st[s].status = "running"
    BY <2>1 DEF FlatInv, FlatOK, FlatAt
  <2>3. store[st[s].run] = st[s]
    BY <2>1 DEF FlatInv, OwnerInv, HolderOK
  <2> QED
    BY <2>2, <2>3
<1> QED
  BY <1>1, FlatInit, FlatInvStep, PTL DEF Spec

\* The stored statuses of a run of a flat workflow: decided once, and final
\* once completed or failed.
THEOREM LifecycleCorrect ==
  ASSUME Flat, Serialised, UniqueRunIds
  PROVE  Spec => StatusLifecycle
<1> DEFINE L == {<<"running", "waiting_for_approval">>, <<"running", "completed">>,
                 <<"running", "compensating">>, <<"waiting_for_approval", "running">>,
                 <<"waiting_for_approval", "compensating">>,
                 <<"compensating", "failed">>}
           B(r) == store[r] # NoState /\ store'[r].status # store[r].status =>
                     <<store[r].status, store'[r].status>> \in L
<1>1. ASSUME FlatInv, [Next]_vars, NEW r \in RunIds,
             store[r] # NoState, store'[r].status # store[r].status
      PROVE  <<store[r].status, store'[r].status>> \in L
  <2>1. TypeInv /\ CopiesOK /\ HolderOK /\ FlatOK /\ FiledOK
    BY <1>1 DEF FlatInv, OwnerInv, SagaInv, LedgerInv
  <2>2. PICK p \in Procs : Move(p) /\ Stores(p)
    BY <1>1, <2>1, StepStores DEF Aside
  <2>3. store'[r] = st'[p] /\ store'[r] # store[r]
    BY <1>1, <2>2 DEF Move, Alone
  <2>4. ~Keeps(p) /\ ~Fetches(p)
    BY <2>3 DEF Keeps, Fetches
  <2>5. ~Begins(p)
    <3>1. SUFFICES ASSUME Begins(p) PROVE FALSE
      OBVIOUS
    <3>2. PICK x \in State : store[x.run] = NoState /\ Put(p, x)
      BY <3>1 DEF Begins
    <3> QED
      BY <1>1, <2>1, <2>3, <3>2, PutStores
  <2>6. Writes(p) /\ Holder(p)
    BY <2>2, <2>4, <2>5 DEF Stores, Writes
  <2>7. store[r] = st[p]
    <3>1. PICK x \in State : x.run = st[p].run /\ Put(p, x)
      BY <2>6 DEF Writes
    <3>2. x.run = r
      BY <2>1, <2>3, <3>1, PutStores
    <3> QED
      BY <2>1, <2>6, <3>1, <3>2 DEF HolderOK
  <2>8. CASE p \in Calls /\ (Forwards(p) \/ Parks(p) \/ Fails(p))
    <3>1. Stepping(p)
      <4>1. pc[p] # "finishing"
        <5>1. SUFFICES ASSUME pc[p] = "finishing" PROVE FALSE
          OBVIOUS
        <5>2. Len(frames[p]) = 1
          BY <2>1, <2>8, <5>1 DEF FlatOK, FlatAt, Forward
        <5>3. Len(frames[p]) > 1
          BY <2>6, <5>1 DEF Writes
        <5> QED
          BY <5>2, <5>3
      <4> QED
        BY <2>1, <2>6, <2>8, <4>1
        DEF Forwards, Parks, Fails, Ended, Holder, Stepping, TypeInv, ControlOK,
            StartLocations
    <3>2. store[r].status = "running"
      BY <2>1, <2>7, <2>8, <3>1 DEF FlatOK, FlatAt
    <3>3. store'[r].status \in {"running", "completed", "waiting_for_approval", "compensating"}
      BY <2>3, <2>8 DEF Forwards, Parks, Fails, Holds
    <3> QED
      BY <1>1, <3>2, <3>3
  <2>9. CASE Leaves(p) \/ Pops(p) \/ Resumes(p) \/ Reads(p)
    BY <1>1, <2>3, <2>7, <2>9 DEF Leaves, Pops, Resumes, Reads
  <2>10. CASE Empties(p)
    <3>1. st[p].status = "compensating" /\ st'[p].status = "failed"
      BY <2>1, <2>10 DEF Empties, Holds, CopiesOK
    <3> QED
      BY <2>3, <2>7, <3>1
  <2>11. CASE Accepts(p)
    <3>1. CASE st[p].status = "waiting_for_approval" /\ st'[p].status = "running"
      BY <2>3, <2>7, <3>1
    <3>2. CASE pc[p] = "approving" /\ st'[p].status = "completed"
      <4>1. st[p].status = "running"
        BY <1>1, <2>11, <3>2 DEF Accepts, FlatInv, OwnerInv, SagaInv, GivenUpOK
      <4> QED
        BY <2>3, <2>7, <3>2, <4>1
    <3> QED
      BY <2>11, <3>1, <3>2 DEF Accepts, Holds
  <2>12. CASE Rejects(p)
    <3>1. st[p].status = "waiting_for_approval" /\ st'[p].status = "compensating"
      BY <2>12 DEF Rejects, Holds
    <3> QED
      BY <2>3, <2>7, <3>1
  <2> QED
    BY <2>2, <2>8, <2>9, <2>10, <2>11, <2>12 DEF Move
<1>2. FlatInv /\ [Next]_vars => [\A r \in RunIds : B(r)]_vars
  BY <1>1
<1> QED
  BY <1>2, FlatInit, FlatInvStep, PTL DEF Spec, StatusLifecycle

-----------------------------------------------------------------------------
(* At most one effect of a step that retries tool errors only.  A start()    *)
(* walks the document forwards: every tool it has called stands at an earlier *)
(* place than the step it executes, so that no step is executed twice; and an *)
(* attempt that may have had an effect is the last one.                       *)

Used(s, x) == effects[s][x] + late[s][x]

\* The steps whose tool must not take effect twice.
Once == {x \in Steps : RetryOn[x] = "tool_error"}

\* No tool of such a step has been called but of steps that begin before place
\* n, or at it.
Passed(first, s, n)  == \A x \in Once : Used(s, x) > 0 => first[x] < n
Reached(first, s, n) == \A x \in Once : Used(s, x) > 0 => first[x] <= n

\* Every loop but the outermost executes an arm of the step its outer loop
\* points at.
Nested(f) ==
  \A i \in 1 .. Len(f) - 1 :
    /\ Kind[StepOf(f[i])] = "conditional"
    /\ \E holds \in BOOLEAN : f[i + 1].block = Arm[StepOf(f[i])][holds]

\* What start() s has called so far lies behind the place where it stands.
EffectAt(first, last, s) ==
  /\ \A x \in Once : Used(s, x) <= 1
  /\ pc[s] \in {"idle", "begin"} => \A x \in Once : Used(s, x) = 0
  /\ pc[s] \in {"checking", "calling", "backoff", "advance", "finishing"} =>
       Nested(frames[s])
  /\ pc[s] \in {"checking", "calling", "backoff"} =>
       Passed(first, s, first[StepOf(Top(s))])
  /\ pc[s] = "advance" => Reached(first, s, last[StepOf(Top(s))])
  /\ pc[s] = "finishing" /\ Len(frames[s]) > 1 =>
       Reached(first, s, last[StepOf(frames[s][Len(frames[s]) - 1])])

\* The frames a loop head may receive: what has been called lies before the step
\* it will execute, or, past the end of an arm, within the conditional step.
LoopReady(first, last, s, f) ==
  /\ f \in Seq(Frame) /\ Len(f) > 0 /\ Nested(f)
  /\ InBlock(f[Len(f)]) => Passed(first, s, first[StepOf(f[Len(f)])])
  /\ ~InBlock(f[Len(f)]) /\ Len(f) > 1 => Reached(first, s, last[StepOf(f[Len(f) - 1])])

LEMMA LoopEffect ==
  ASSUME TypeInv, NEW first, NEW last, NEW s \in Calls, EffectAt(first, last, s),
         NEW f, LoopReady(first, last, s, f), f[Len(f)].at > 0,
         Loop(s, f), UNCHANGED tools
  PROVE  EffectAt(first, last, s)' /\ \A q \in Calls : q # s => frames'[q] = frames[q]
<1>1. s \in Procs /\ TypeOK /\ UNCHANGED <<effects, late>>
  BY DEF Procs, TypeInv, tools
<1>2. frames'[s] = f /\ \A q \in Calls : q # s => frames'[q] = frames[q]
  BY <1>1 DEF Loop, TypeOK
<1>3. /\ Nested(frames[s])'
      /\ \A x \in Once : Used(s, x)' = Used(s, x)
      /\ \A n : Passed(first, s, n)' <=> Passed(first, s, n)
      /\ \A n : Reached(first, s, n)' <=> Reached(first, s, n)
  <2>1. Nested(frames[s])'
    BY <1>2 DEF LoopReady, Nested, StepOf
  <2> QED
    BY <1>1, <2>1 DEF Used, Passed, Reached
<1>4. f[Len(f)].at \in Nat /\ Len(Body[f[Len(f)].block]) \in Nat /\ Len(f) \in Nat
  <2>1. Len(f) \in Nat /\ f[Len(f)] \in Frame
    BY LenProperties, ElementOfSeq DEF LoopReady
  <2> QED
    BY <2>1, LenProperties DEF Frame
<1>5. CASE f[Len(f)].at <= Len(Body[f[Len(f)].block]) /\ Goto(s, "checking")
  <2>1. pc'[s] = "checking"
    BY <1>1, <1>5 DEF Goto, TypeOK
  <2>2. InBlock(f[Len(f)])
    BY <1>4, <1>5 DEF InBlock
  <2>3. Passed(first, s, first[StepOf(f[Len(f)])])'
    BY <1>3, <2>2 DEF LoopReady
  <2>4. (Passed(first, s, first[StepOf(Top(s))]))'
    BY <1>2, <2>3 DEF Top, StepOf
  <2> QED
    BY <1>2, <1>3, <2>1, <2>4 DEF EffectAt
<1>6. CASE f[Len(f)].at > Len(Body[f[Len(f)].block]) /\ Goto(s, "finishing")
  <2>1. pc'[s] = "finishing"
    BY <1>1, <1>6 DEF Goto, TypeOK
  <2>2. ~InBlock(f[Len(f)])
    BY <1>4, <1>6 DEF InBlock
  <2>3. Len(f) > 1 => Reached(first, s, last[StepOf(f[Len(f) - 1])])'
    BY <1>3, <2>2 DEF LoopReady
  <2>4. Len(frames'[s]) > 1 =>
          (Reached(first, s, last[StepOf(frames[s][Len(frames[s]) - 1])]))'
    BY <1>2, <2>3 DEF StepOf
  <2> QED
    BY <1>2, <1>3, <2>1, <2>4 DEF EffectAt
<1> QED
  BY <1>2, <1>4, <1>5, <1>6 DEF Loop

\* Calls and answers of tools are counted for the step that the loop points at,
\* or taken back from the calls that a timeout has given up.
LEMMA EffectRest ==
  ASSUME TypeInv, NEW first, NEW last, NEW s \in Calls, EffectAt(first, last, s),
         frames'[s] = frames[s],
         \A x \in Once : Used(s, x)' \in Nat /\ Used(s, x)' <= Used(s, x),
         \/ pc'[s] = pc[s]
         \/ pc'[s] \notin {"idle", "begin", "checking", "calling", "backoff", "advance", "finishing"}
         \/ pc[s] \in {"checking", "calling", "backoff"} /\ pc'[s] \in {"calling", "backoff"}
         \/ pc[s] = "idle" /\ pc'[s] = "begin"
  PROVE  EffectAt(first, last, s)'
<1>1. \A x \in Once : Used(s, x) \in Nat
  BY DEF TypeInv, TypeOK, Used, Once
<1>2. \A x \in Once : /\ Used(s, x) <= 1 => Used(s, x)' <= 1
                      /\ Used(s, x) = 0 => Used(s, x)' = 0
                      /\ Used(s, x)' > 0 => Used(s, x) > 0
  BY <1>1
<1>3. /\ \A n : Passed(first, s, n) => Passed(first, s, n)'
      /\ \A n : Reached(first, s, n) => Reached(first, s, n)'
  BY <1>2 DEF Passed, Reached
<1>4. (Nested(frames[s]) => Nested(frames[s])') /\ Top(s)' = Top(s)
  BY DEF Nested, Top, StepOf
<1>5. Passed(first, s, first[StepOf(Top(s))]) => (Passed(first, s, first[StepOf(Top(s))]))'
  BY <1>3, <1>4 DEF StepOf
<1>6. Reached(first, s, last[StepOf(Top(s))]) => (Reached(first, s, last[StepOf(Top(s))]))'
  BY <1>3, <1>4 DEF StepOf
<1>7. Reached(first, s, last[StepOf(frames[s][Len(frames[s]) - 1])])
        => (Reached(first, s, last[StepOf(frames[s][Len(frames[s]) - 1])]))'
  BY <1>3 DEF StepOf
<1> QED
  BY <1>2, <1>4, <1>5, <1>6, <1>7 DEF EffectAt

\* What the numbering says of the steps that follow one another.
LEMMA OrderFacts ==
  ASSUME NEW first, NEW last, DocumentOrder(first, last)
  PROVE  /\ \A x \in Steps : first[x] \in Nat /\ last[x] \in Nat /\ first[x] <= last[x]
         /\ \A f \in Frame, g \in Frame :
              InBlock(f) /\ InBlock(g) /\ g.block = f.block /\ g.at = f.at + 1 =>
                last[StepOf(f)] < first[StepOf(g)]
         /\ \A x \in Steps, holds \in BOOLEAN, f \in Frame :
              Kind[x] = "conditional" /\ InBlock(f) /\ f.block = Arm[x][holds] =>
                first[x] < first[StepOf(f)] /\ last[StepOf(f)] <= last[x]
<1>1. \A b \in Blocks : Body[b] \in Seq(Steps) /\ Len(Body[b]) \in Nat
  BY LenProperties
<1>2. ASSUME NEW f \in Frame, NEW g \in Frame,
             InBlock(f), InBlock(g), g.block = f.block, g.at = f.at + 1
      PROVE  last[StepOf(f)] < first[StepOf(g)]
  <2>1. f.block \in Blocks /\ f.at \in 1 .. Len(Body[f.block]) - 1
    BY <1>1, <1>2 DEF InBlock, Frame
  <2> QED
    BY <1>2, <2>1 DEF DocumentOrder, StepOf
<1>3. ASSUME NEW x \in Steps, NEW holds \in BOOLEAN, NEW f \in Frame,
             Kind[x] = "conditional", InBlock(f), f.block = Arm[x][holds]
      PROVE  first[x] < first[StepOf(f)] /\ last[StepOf(f)] <= last[x]
  BY <1>3 DEF DocumentOrder, StepOf, InBlock
<1> QED
  BY <1>2, <1>3 DEF DocumentOrder

\* What has been called up to the end of a step has been called before the next,
\* and within the conditional step whose arm has ended.
LEMMA PassedOn ==
  ASSUME TypeInv, NEW first, NEW last, DocumentOrder(first, last), NEW s \in Calls,
         NEW x \in Steps, NEW y \in Steps
  PROVE  /\ Reached(first, s, last[x]) /\ last[x] < first[y] => Passed(first, s, first[y])
         /\ Reached(first, s, last[x]) /\ last[x] <= last[y] => Reached(first, s, last[y])
         /\ Passed(first, s, first[x]) /\ first[x] < first[y] => Passed(first, s, first[y])
         /\ Passed(first, s, first[x]) => Reached(first, s, last[x])
<1>1. \A z \in Steps : first[z] \in Nat /\ last[z] \in Nat /\ first[z] <= last[z]
  BY DEF DocumentOrder
<1>2. \A z \in Once : first[z] \in Nat
  BY <1>1 DEF Once
<1> QED
  BY <1>1, <1>2 DEF Passed, Reached

LEMMA EffectBegin ==
  ASSUME TypeInv, NEW first, NEW last, NEW s \in Calls, EffectAt(first, last, s), Begin(s)
  PROVE  EffectAt(first, last, s)' /\ \A q \in Calls : q # s => frames'[q] = frames[q]
<1> DEFINE g == [block |-> Root, at |-> 1]
           f == <<g>>
<1>1. g \in Frame /\ g.at > 0
  BY DEF Frame
<1>2. f \in Seq(Frame) /\ Len(f) = 1 /\ f[1] = g
  <2> HIDE DEF g
  <2> QED BY <1>1
<1>3. Loop(s, f) /\ pc[s] = "begin" /\ UNCHANGED tools
  BY DEF Begin
<1> HIDE DEF f, g
<1>4. \A x \in Once : Used(s, x) = 0
  BY <1>3 DEF EffectAt
<1>5. LoopReady(first, last, s, f)
  BY <1>2, <1>4 DEF LoopReady, Nested, Passed
<1>6. f[Len(f)].at > 0
  BY <1>1, <1>2
<1> QED
  BY <1>3, <1>5, <1>6, LoopEffect

LEMMA EffectAdvance ==
  ASSUME TypeInv, NEW first, NEW last, DocumentOrder(first, last),
         NEW s \in Calls, EffectAt(first, last, s), Advance(s)
  PROVE  EffectAt(first, last, s)' /\ \A q \in Calls : q # s => frames'[q] = frames[q]
<1> DEFINE n == Len(frames[s])
           g == [frames[s][n] EXCEPT !.at = @ + 1]
           f == [frames[s] EXCEPT ![n] = g]
<1>1. pc[s] = "advance" /\ Loop(s, f) /\ UNCHANGED tools
  BY DEF Advance
<1>2. /\ frames[s] \in Seq(Frame) /\ n \in Nat \ {0} /\ Top(s) \in Frame
      /\ StepOf(Top(s)) \in Steps /\ frames[s][n] = Top(s)
      /\ \A i \in 1 .. n : InBlock(frames[s][i]) /\ frames[s][i] \in Frame
      /\ n \in 1 .. n /\ InBlock(Top(s))
  <2>1. frames[s] \in Seq(Frame) /\ n \in Nat \ {0} /\ Top(s) \in Frame
    BY <1>1, TopType
  <2>2. StepOf(Top(s)) \in Steps /\ frames[s][n] = Top(s)
    BY <1>1, TopType DEF Top
  <2>3. \A i \in 1 .. n : InBlock(frames[s][i]) /\ frames[s][i] \in Frame
    BY <1>1, <2>1, AllInBlock, ElementOfSeq
  <2>4. n \in 1 .. n
    BY <2>1
  <2> QED
    BY <2>1, <2>2, <2>3, <2>4
<1>3. g \in Frame /\ g.at > 0 /\ g.block = Top(s).block /\ g.at = Top(s).at + 1
  <2>1. frames[s][n] \in Frame
    BY <1>2
  <2>2. \A h \in Frame : /\ [h EXCEPT !.at = @ + 1].block = h.block
                         /\ [h EXCEPT !.at = @ + 1].at = h.at + 1
    BY DEF Frame
  <2> QED
    BY <1>2, <2>1, <2>2, NextFrame
<1> HIDE DEF g
<1>4. f \in Seq(Frame) /\ Len(f) = n /\ \A i \in 1 .. n : f[i] = IF i = n THEN g ELSE frames[s][i]
  BY <1>2, <1>3, ExceptSeq
<1> HIDE DEF f
<1>5. Nested(frames[s]) /\ Reached(first, s, last[StepOf(Top(s))])
  BY <1>1 DEF EffectAt
<1>6. Nested(f)
  <2> SUFFICES ASSUME NEW i \in 1 .. n - 1
               PROVE  /\ Kind[StepOf(f[i])] = "conditional"
                      /\ \E holds \in BOOLEAN : f[i + 1].block = Arm[StepOf(f[i])][holds]
    BY <1>4 DEF Nested
  <2>1. i \in 1 .. n /\ i # n /\ i + 1 \in 1 .. n
    BY <1>2
  <2>2. f[i] = frames[s][i] /\ f[i + 1].block = frames[s][i + 1].block
    BY <1>2, <1>3, <1>4, <2>1
  <2> QED
    BY <1>5, <2>2 DEF Nested
<1>7. f[n] = g
  BY <1>2, <1>4
<1>8. ASSUME InBlock(g)
      PROVE  Passed(first, s, first[StepOf(g)])
  <2>1. InBlock(Top(s)) /\ StepOf(g) \in Steps
    BY <1>2, <1>3, <1>8, StepOfType
  <2>2. last[StepOf(Top(s))] < first[StepOf(g)]
    BY <1>2, <1>3, <1>8, <2>1, OrderFacts
  <2> QED
    BY <1>2, <1>5, <2>1, <2>2, PassedOn
<1>9. ASSUME n > 1
      PROVE  Reached(first, s, last[StepOf(f[n - 1])])
  <2>1. n - 1 \in 1 .. n - 1 /\ n - 1 \in 1 .. n /\ n - 1 # n /\ n - 1 + 1 = n
    BY <1>2, <1>9
  <2> DEFINE x == StepOf(frames[s][n - 1])
  <2>2. x \in Steps /\ f[n - 1] = frames[s][n - 1]
    BY <1>2, <1>4, <2>1, StepOfType
  <2>3. Kind[x] = "conditional" /\ \E holds \in BOOLEAN : frames[s][n].block = Arm[x][holds]
    BY <1>5, <2>1 DEF Nested
  <2>4. last[StepOf(Top(s))] <= last[x]
    <3> HIDE DEF x
    <3> QED BY <1>2, <2>2, <2>3, OrderFacts
  <2> HIDE DEF x
  <2>5. Reached(first, s, last[x])
    BY <1>2, <1>5, <2>2, <2>4, PassedOn
  <2> QED
    BY <2>2, <2>5 DEF x
<1>10. LoopReady(first, last, s, f)
  BY <1>2, <1>4, <1>6, <1>7, <1>8, <1>9 DEF LoopReady
<1>11. f[Len(f)].at > 0
  BY <1>3, <1>4, <1>7
<1> QED
  BY <1>1, <1>10, <1>11, LoopEffect

\* A step that completes, whether or not its tool has been called for it.
LEMMA EffectComplete ==
  ASSUME TypeInv, NEW first, NEW last, DocumentOrder(first, last),
         NEW s \in Calls, EffectAt(first, last, s),
         pc[s] \in {"checking", "calling"}, frames' = frames, pc'[s] = "advance",
         NEW x \in Steps, x = StepOf(Top(s)),
         \A y \in Once : Used(s, y)' \in {Used(s, y), IF y = x THEN Used(s, y) + 1 ELSE Used(s, y)}
  PROVE  EffectAt(first, last, s)'
<1>1. \A y \in Once : Used(s, y) \in Nat /\ y \in Steps
  BY DEF TypeInv, TypeOK, Used, Once
<1>2. Passed(first, s, first[x]) /\ Nested(frames[s]) /\ \A y \in Once : Used(s, y) <= 1
  BY DEF EffectAt
<1>3. x \in Once => Used(s, x) = 0
  <2>1. ~(first[x] < first[x])
    BY OrderFacts
  <2>2. x \in Once => ~(Used(s, x) > 0)
    BY <1>2, <2>1 DEF Passed
  <2> QED
    BY <1>1, <2>2
<1>4. \A y \in Once : Used(s, y)' <= 1
  <2> SUFFICES ASSUME NEW y \in Once PROVE Used(s, y)' <= 1
    OBVIOUS
  <2>1. CASE y = x
    <3>1. Used(s, y)' = 0 \/ Used(s, y)' = 0 + 1
      BY <1>3, <2>1
    <3> QED
      BY <3>1
  <2>2. CASE y # x
    <3>1. Used(s, y)' = Used(s, y)
      BY <2>2
    <3> QED
      BY <1>2, <3>1
  <2> QED
    BY <2>1, <2>2
<1>5. Reached(first, s, last[x]) /\ first[x] <= last[x]
  BY <1>2, PassedOn, OrderFacts
<1>6. Reached(first, s, last[x])'
  <2> SUFFICES ASSUME NEW y \in Once, Used(s, y)' > 0
               PROVE  first[y] <= last[x]
    BY DEF Reached
  <2>1. CASE y = x
    BY <1>5, <2>1
  <2>2. CASE y # x
    <3>1. Used(s, y) > 0
      BY <1>1, <2>2
    <3> QED
      BY <1>5, <3>1 DEF Reached
  <2> QED
    BY <2>1, <2>2
<1>7. Nested(frames[s])' /\ StepOf(Top(s))' = x
  BY <1>2 DEF Nested, StepOf, Top
<1>8. (Reached(first, s, last[StepOf(Top(s))]))'
  BY <1>6, <1>7
<1> QED
  BY <1>4, <1>7, <1>8 DEF EffectAt

LEMMA EffectBranch ==
  ASSUME TypeInv, NEW first, NEW last, DocumentOrder(first, last),
         NEW s \in Calls, EffectAt(first, last, s), Branch(s)
  PROVE  EffectAt(first, last, s)' /\ \A q \in Calls : q # s => frames'[q] = frames[q]
<1> DEFINE n == Len(frames[s])
           x == StepOf(Top(s))
<1>1. pc[s] = "checking" /\ x \in Steps /\ UNCHANGED effects /\ Kind[x] = "conditional"
  BY TopType DEF Branch
<1>2. PICK holds \in BOOLEAN :
        \/ /\ Body[Arm[x][holds]] # <<>>
           /\ Loop(s, Append(frames[s], [block |-> Arm[x][holds], at |-> 1]))
           /\ UNCHANGED late
        \/ CompleteStep(s, x) /\ UNCHANGED frames
  BY DEF Branch
<1>3. CASE CompleteStep(s, x) /\ UNCHANGED frames
  <2>1. pc'[s] = "advance" /\ UNCHANGED <<effects, late>>
    BY <1>1, <1>3 DEF CompleteStep, Goto, TypeInv, TypeOK, Procs
  <2>2. \A y \in Once : Used(s, y)' = Used(s, y)
    BY <2>1 DEF Used
  <2> HIDE DEF x
  <2>3. EffectAt(first, last, s)'
    BY <1>1, <1>3, <2>1, <2>2, EffectComplete DEF x
  <2> QED
    BY <1>3, <2>3
<1> DEFINE g == [block |-> Arm[x][holds], at |-> 1]
           f == Append(frames[s], g)
<1>4. CASE Body[g.block] # <<>> /\ Loop(s, f) /\ UNCHANGED late
  <2>1. g.block \in Blocks /\ g.block = Arm[x][holds] /\ g \in Frame /\ g.at = 1
    BY <1>1 DEF Frame
  <2>2. /\ frames[s] \in Seq(Frame) /\ n \in Nat \ {0} /\ n \in 1 .. n
        /\ frames[s][n] = Top(s)
    BY <1>1, TopType DEF Top
  <2>3. InBlock(g)
    <3>1. Body[g.block] \in Seq(Steps)
      BY <2>1
    <3>2. Len(Body[g.block]) \in Nat \ {0}
      BY <1>4, <3>1, EmptySeq
    <3> QED
      BY <2>1, <3>2 DEF InBlock
  <2> HIDE DEF g
  <2>4. f \in Seq(Frame) /\ Len(f) = n + 1 /\ f[n + 1] = g /\ \A i \in 1 .. n : f[i] = frames[s][i]
    BY <2>1, <2>2, AppendProperties
  <2> HIDE DEF f
  <2>5. Nested(frames[s]) /\ Passed(first, s, first[x])
    BY <1>1 DEF EffectAt
  <2>6. Nested(f)
    <3> SUFFICES ASSUME NEW i \in 1 .. n
                 PROVE  /\ Kind[StepOf(f[i])] = "conditional"
                        /\ \E h \in BOOLEAN : f[i + 1].block = Arm[StepOf(f[i])][h]
      BY <2>2, <2>4 DEF Nested
    <3>1. f[i] = frames[s][i]
      BY <2>4
    <3>2. CASE i = n
      BY <1>1, <2>1, <2>2, <2>4, <3>1, <3>2
    <3>3. CASE i # n
      <4>1. i \in 1 .. n - 1 /\ i + 1 \in 1 .. n
        BY <2>2, <3>3
      <4> QED
        BY <2>4, <2>5, <3>1, <4>1 DEF Nested
    <3> QED
      BY <3>2, <3>3
  <2>7. StepOf(g) \in Steps /\ first[x] < first[StepOf(g)]
    <3> HIDE DEF x
    <3> QED BY <1>1, <2>1, <2>3, StepOfType, OrderFacts
  <2>8. Passed(first, s, first[StepOf(g)])
    <3> HIDE DEF x
    <3> QED BY <1>1, <2>5, <2>7, PassedOn
  <2>9. LoopReady(first, last, s, f)
    BY <2>2, <2>3, <2>4, <2>6, <2>8 DEF LoopReady
  <2>10. f[Len(f)].at > 0
    BY <2>1, <2>4
  <2>11. UNCHANGED tools
    BY <1>1, <1>4 DEF tools
  <2> QED
    BY <1>4, <2>9, <2>10, <2>11, LoopEffect
<1> QED
  BY <1>2, <1>3, <1>4

LEMMA EffectFinish ==
  ASSUME TypeInv, NEW first, NEW last, NEW s \in Calls, EffectAt(first, last, s), Finish(s)
  PROVE  EffectAt(first, last, s)' /\ \A q \in Calls : q # s => frames'[q] = frames[q]
<1>1. pc[s] = "finishing" /\ UNCHANGED effects /\ s \in Procs /\ TypeOK
  BY DEF Finish, Procs, TypeInv
<1>2. CASE Goto(s, "done") /\ UNCHANGED <<frames, late>>
  <2>1. pc'[s] = "done" /\ frames'[s] = frames[s]
    BY <1>1, <1>2 DEF Goto, TypeOK
  <2>2. \A x \in Once : Used(s, x)' = Used(s, x)
    BY <1>1, <1>2 DEF Used
  <2>3. \A x \in Once : Used(s, x) \in Nat
    BY <1>1 DEF TypeOK, Used, Once
  <2>4. \A x \in Once : Used(s, x)' \in Nat /\ Used(s, x)' <= Used(s, x)
    BY <2>2, <2>3
  <2>5. EffectAt(first, last, s)'
    BY <2>1, <2>4, EffectRest
  <2> QED
    BY <1>2, <2>5
<1> DEFINE n == Len(frames[s])
           outer == SubSeq(frames[s], 1, n - 1)
<1>3. CASE /\ n > 1
           /\ frames' = [frames EXCEPT ![s] = outer]
           /\ CompleteStep(s, StepOf(outer[Len(outer)]))
  <2>1. /\ frames'[s] = outer
        /\ \A q \in Calls : q # s => frames'[q] = frames[q]
    BY <1>1, <1>3 DEF TypeOK
  <2>2. pc'[s] = "advance" /\ UNCHANGED <<effects, late>>
    BY <1>1, <1>3 DEF CompleteStep, Goto, TypeOK
  <2>3. n \in Nat /\ Len(outer) = n - 1 /\ \A i \in 1 .. n - 1 : outer[i] = frames[s][i]
    <3>1. frames[s] \in Seq(Frame)
      BY <1>1 DEF TypeOK, Frame
    <3>2. n \in Nat /\ Len(outer) = n - 1
      BY <1>1, <1>3, <3>1, FinishFrames, LenProperties
    <3> QED
      BY <3>1, <3>2
  <2> HIDE DEF outer
  <2>4. Nested(frames[s]) /\ Reached(first, s, last[StepOf(frames[s][n - 1])])
    BY <1>1, <1>3 DEF EffectAt
  <2>5. Nested(outer)
    <3> SUFFICES ASSUME NEW i \in 1 .. n - 2
                 PROVE  /\ Kind[StepOf(outer[i])] = "conditional"
                        /\ \E h \in BOOLEAN : outer[i + 1].block = Arm[StepOf(outer[i])][h]
      BY <2>3 DEF Nested
    <3>1. i \in 1 .. n - 1 /\ i + 1 \in 1 .. n - 1
      BY <2>3
    <3> QED
      BY <2>3, <2>4, <3>1 DEF Nested
  <2>6. Nested(frames[s])' /\ StepOf(Top(s))' = StepOf(frames[s][n - 1])
    <3>1. n - 1 \in 1 .. n - 1
      BY <1>3, <2>3
    <3>2. Nested(frames[s])'
      BY <2>1, <2>5 DEF Nested, StepOf
    <3>3. Top(s)' = frames[s][n - 1]
      BY <2>1, <2>3, <3>1 DEF Top
    <3> QED
      BY <3>2, <3>3 DEF StepOf
  <2>7. \A x \in Once : Used(s, x)' = Used(s, x)
    BY <2>2 DEF Used
  <2>8. (Reached(first, s, last[StepOf(Top(s))]))'
    BY <2>4, <2>6, <2>7 DEF Reached
  <2> QED
    BY <2>1, <2>2, <2>6, <2>7, <2>8 DEF EffectAt
<1> QED
  BY <1>2, <1>3 DEF Finish

LEMMA EffectTool ==
  ASSUME TypeInv, NEW first, NEW last, DocumentOrder(first, last),
         NEW s \in Calls, EffectAt(first, last, s), ToolOk(s) \/ Timeout(s)
  PROVE  EffectAt(first, last, s)' /\ frames' = frames
<1> DEFINE x == StepOf(Top(s))
<1>1. pc[s] = "calling" /\ frames' = frames /\ x \in Steps /\ TypeOK /\ s \in Procs
  BY TopType DEF ToolOk, Timeout, TypeInv, Procs
<1>2. effects[s] \in [Steps -> Nat] /\ late[s] \in [Steps -> Nat]
  BY <1>1 DEF TypeOK
<1> HIDE DEF x
<1>3. CASE ToolOk(s)
  <2>1. effects'[s] = [effects[s] EXCEPT ![x] = @ + 1] /\ late' = late /\ pc'[s] = "advance"
    BY <1>1, <1>3 DEF ToolOk, CompleteStep, Goto, TypeOK, x
  <2>2. \A y \in Once : Used(s, y)' \in {Used(s, y), IF y = x THEN Used(s, y) + 1 ELSE Used(s, y)}
    <3> SUFFICES ASSUME NEW y \in Once
                 PROVE  Used(s, y)' = IF y = x THEN Used(s, y) + 1 ELSE Used(s, y)
      OBVIOUS
    <3>1. effects[s][y] \in Nat /\ late[s][y] \in Nat /\ late'[s][y] = late[s][y]
      BY <1>2, <2>1 DEF Once
    <3>2. CASE y = x
      <4>1. effects'[s][y] = effects[s][y] + 1
        BY <1>1, <1>2, <2>1, <3>2 DEF Once
      <4>2. effects[s][y] + 1 + late[s][y] = effects[s][y] + late[s][y] + 1
        BY <3>1
      <4> QED
        BY <3>1, <3>2, <4>1, <4>2 DEF Used
    <3>3. CASE y # x
      <4>1. effects'[s][y] = effects[s][y]
        BY <1>1, <1>2, <2>1, <3>3 DEF Once
      <4> QED
        BY <3>1, <3>3, <4>1 DEF Used
    <3> QED
      BY <3>2, <3>3
  <2> QED
    BY <1>1, <2>1, <2>2, EffectComplete DEF x
<1>4. CASE Timeout(s)
  <2>1. late'[s] = [late[s] EXCEPT ![x] = @ + 1] /\ effects' = effects
    BY <1>1, <1>4 DEF Timeout, AfterFailure, FailStep, TypeOK, x
  <2>2. \A y \in Once : Used(s, y)' = IF y = x THEN Used(s, y) + 1 ELSE Used(s, y)
    <3> SUFFICES ASSUME NEW y \in Once
                 PROVE  Used(s, y)' = IF y = x THEN Used(s, y) + 1 ELSE Used(s, y)
      OBVIOUS
    <3>1. effects[s][y] \in Nat /\ late[s][y] \in Nat
      BY <1>2 DEF Once
    <3>2. effects'[s][y] = effects[s][y]
      BY <2>1
    <3>3. CASE y = x
      <4>1. late'[s][y] = late[s][y] + 1
        BY <1>1, <1>2, <2>1, <3>3 DEF Once
      <4>2. effects[s][y] + (late[s][y] + 1) = effects[s][y] + late[s][y] + 1
        BY <3>1
      <4> QED
        BY <3>2, <3>3, <4>1, <4>2 DEF Used
    <3>4. CASE y # x
      <4>1. late'[s][y] = late[s][y]
        BY <1>1, <1>2, <2>1, <3>4 DEF Once
      <4> QED
        BY <3>2, <3>4, <4>1 DEF Used
    <3> QED
      BY <3>3, <3>4
  <2>3. \A y \in Once : Used(s, y) \in Nat
    BY <1>2 DEF Used, Once
  <2>4. CASE x \in Once
    <3>1. pc'[s] = "unwind"
      BY <1>1, <1>4, <2>4 DEF Timeout, AfterFailure, FailStep, Goto, TypeOK, x, Once
    <3>2. Passed(first, s, first[x])
      BY <1>1 DEF EffectAt, x
    <3>3. Used(s, x) = 0
      <4>1. ~(first[x] < first[x])
        BY <1>1, OrderFacts
      <4>2. ~(Used(s, x) > 0)
        BY <2>4, <3>2, <4>1 DEF Passed
      <4> QED
        BY <2>3, <2>4, <4>2
    <3>4. \A y \in Once : Used(s, y)' <= 1
      <4>1. \A y \in Once : Used(s, y) <= 1
        BY DEF EffectAt
      <4> SUFFICES ASSUME NEW y \in Once PROVE Used(s, y)' <= 1
        OBVIOUS
      <4>2. CASE y = x
        <5>1. Used(s, y)' = 0 + 1
          BY <2>2, <3>3, <4>2
        <5> QED
          BY <5>1
      <4>3. CASE y # x
        <5>1. Used(s, y)' = Used(s, y)
          BY <2>2, <4>3
        <5> QED
          BY <4>1, <5>1
      <4> QED
        BY <4>2, <4>3
    <3> QED
      BY <1>1, <3>1, <3>4 DEF EffectAt
  <2>5. CASE x \notin Once
    <3>1. pc'[s] \in {"unwind", "backoff"}
      BY <1>1, <1>4 DEF Timeout, AfterFailure, FailStep, Goto, TypeOK
    <3>2. \A y \in Once : Used(s, y)' \in Nat /\ Used(s, y)' <= Used(s, y)
      <4>1. \A y \in Once : Used(s, y)' = Used(s, y)
        BY <2>2, <2>5
      <4> QED
        BY <2>3, <4>1
    <3>3. frames'[s] = frames[s]
      BY <1>1
    <3>4. EffectAt(first, last, s)'
      BY <1>1, <3>1, <3>2, <3>3, EffectRest
    <3> QED
      BY <1>1, <3>4
  <2> QED
    BY <1>1, <2>4, <2>5
<1> QED
  BY <1>3, <1>4

\* An answer that comes late turns a call given up into an effect, or into none.
LEMMA AnsweredUse ==
  ASSUME TypeInv, NEW r \in Calls, NEW y \in Steps, LateAnswer(r, y), NEW s \in Calls
  PROVE  \A x \in Once : Used(s, x)' \in Nat /\ Used(s, x)' <= Used(s, x)
<1>1. \A q \in Calls : effects[q] \in [Steps -> Nat] /\ late[q] \in [Steps -> Nat]
  BY DEF TypeInv, TypeOK
<1> SUFFICES ASSUME NEW x \in Once
             PROVE  Used(s, x)' \in Nat /\ Used(s, x)' <= Used(s, x)
  OBVIOUS
<1>2. x \in Steps /\ effects[s][x] \in Nat /\ late[s][x] \in Nat
  BY <1>1 DEF Once
<1>3. CASE s = r /\ x = y
  <2>1. late[s][x] > 0 /\ late'[s][x] = late[s][x] - 1
    BY <1>1, <1>2, <1>3 DEF LateAnswer, TypeInv, TypeOK
  <2>2. effects'[s][x] = effects[s][x] + 1 \/ effects'[s][x] = effects[s][x]
    BY <1>1, <1>2, <1>3 DEF LateAnswer, TypeInv, TypeOK
  <2>3. \A a, b \in Nat : b > 0 => /\ (a + 1) + (b - 1) = a + b
                                 /\ a + (b - 1) \in Nat /\ a + (b - 1) <= a + b
    OBVIOUS
  <2>4. Used(s, x) = effects[s][x] + late[s][x]
    BY DEF Used
  <2>5. CASE effects'[s][x] = effects[s][x] + 1
    <3>1. Used(s, x)' = effects[s][x] + 1 + (late[s][x] - 1)
      BY <2>1, <2>5 DEF Used
    <3>2. effects[s][x] + 1 + (late[s][x] - 1) = effects[s][x] + late[s][x]
      BY <1>2, <2>1, <2>3
    <3>3. /\ effects[s][x] + late[s][x] \in Nat
          /\ effects[s][x] + late[s][x] <= effects[s][x] + late[s][x]
      BY <1>2
    <3> QED
      BY <2>4, <3>1, <3>2, <3>3
  <2>6. CASE effects'[s][x] = effects[s][x]
    <3>1. Used(s, x)' = effects[s][x] + (late[s][x] - 1)
      BY <2>1, <2>6 DEF Used
    <3>2. /\ effects[s][x] + (late[s][x] - 1) \in Nat
          /\ effects[s][x] + (late[s][x] - 1) <= effects[s][x] + late[s][x]
      BY <1>2, <2>1, <2>3
    <3> QED
      BY <2>4, <3>1, <3>2
  <2> QED
    BY <2>2, <2>5, <2>6
<1>4. CASE ~(s = r /\ x = y)
  <2>1. late'[s][x] = late[s][x] /\ effects'[s][x] = effects[s][x]
    <3>1. CASE s # r
      BY <3>1 DEF LateAnswer, TypeInv, TypeOK
    <3>2. CASE s = r /\ x # y
      <4>1. /\ late'[s] = [late[s] EXCEPT ![y] = @ - 1]
            /\ effects'[s] = [effects[s] EXCEPT ![y] = @ + 1] \/ effects'[s] = effects[s]
        BY <3>2 DEF LateAnswer, TypeInv, TypeOK
      <4> QED
        BY <1>1, <1>2, <3>2, <4>1
    <3> QED
      BY <1>4, <3>1, <3>2
  <2> QED
    BY <1>2, <2>1 DEF Used
<1> QED
  BY <1>3, <1>4

LEMMA EffectStep ==
  ASSUME TypeInv, CopiesOK, NEW first, NEW last, DocumentOrder(first, last),
         \A s \in Calls : EffectAt(first, last, s), [Next]_vars
  PROVE  \A s \in Calls : EffectAt(first, last, s)'
<1> DEFINE Goal == \A s \in Calls : EffectAt(first, last, s)'
<1>1. ASSUME NEW s \in Calls, frames'[s] = frames[s], pc'[s] = pc[s],
             effects'[s] = effects[s], late'[s] = late[s]
      PROVE  EffectAt(first, last, s)'
  <2>1. \A x \in Once : Used(s, x)' = Used(s, x)
    BY <1>1 DEF Used
  <2>2. \A x \in Once : Used(s, x) \in Nat
    BY DEF TypeInv, TypeOK, Used, Once
  <2> QED
    BY <1>1, <2>1, <2>2, EffectRest
<1>2. ASSUME NEW p \in Procs, Alone(p), p \in Calls => EffectAt(first, last, p)',
             \A q \in Calls : q # p => /\ frames'[q] = frames[q]
                                      /\ effects'[q] = effects[q] /\ late'[q] = late[q]
      PROVE  Goal
  <2>1. \A q \in Calls : q # p => pc'[q] = pc[q]
    BY <1>2 DEF Alone, Procs
  <2> QED
    BY <1>1, <1>2, <2>1
<1>3. CASE UNCHANGED vars
  BY <1>1, <1>3 DEF vars, control, tools
<1>4. ASSUME NEW r \in Calls, NEW y \in Steps, LateAnswer(r, y)
      PROVE  Goal
  <2> SUFFICES ASSUME NEW s \in Calls PROVE EffectAt(first, last, s)'
    OBVIOUS
  <2>1. pc'[s] = pc[s] /\ frames'[s] = frames[s]
    BY <1>4 DEF LateAnswer, control
  <2>2. \A x \in Once : Used(s, x)' \in Nat /\ Used(s, x)' <= Used(s, x)
    BY <1>4, AnsweredUse
  <2> QED
    BY <2>1, <2>2, EffectRest
<1>5. ASSUME NEW s \in Calls,
             Begin(s) \/ Advance(s) \/ Branch(s) \/ Finish(s) \/ ToolOk(s) \/ Timeout(s)
      PROVE  Goal
  <2>1. Alone(s) /\ s \in Procs
    BY <1>5, BeginMove, AdvanceMove, BranchMove, FinishMove, ToolMove DEF Move, Procs
  <2>2. EffectAt(first, last, s)' /\ \A q \in Calls : q # s => frames'[q] = frames[q]
    BY <1>5, EffectBegin, EffectAdvance, EffectBranch, EffectFinish, EffectTool
  <2>3. \A q \in Calls : q # s => effects'[q] = effects[q] /\ late'[q] = late[q]
    <3>1. CASE Begin(s) \/ Advance(s)
      BY <3>1 DEF Begin, Advance, tools
    <3>2. CASE Branch(s) \/ Finish(s)
      BY <3>2 DEF Branch, Finish, CompleteStep
    <3>3. CASE ToolOk(s) \/ Timeout(s)
      BY <3>3 DEF ToolOk, Timeout, CompleteStep, AfterFailure, FailStep, TypeInv, TypeOK
    <3> QED
      BY <1>5, <3>1, <3>2, <3>3
  <2> QED
    BY <1>2, <2>1, <2>2, <2>3
<1>6. ASSUME NEW s \in Calls,
             \/ Start(s) \/ Deny(s) \/ Park(s) \/ Parked(s) \/ CallTool(s)
             \/ ToolError(s) \/ Retry(s)
      PROVE  Goal
  <2>1. Alone(s) /\ s \in Procs
    <3>1. CASE Parked(s)
      <4>1. Goto(s, "done") /\ UNCHANGED <<st, store>> /\ "done" \in Locations
        BY <3>1 DEF Parked, Locations
      <4> QED
        BY <4>1, GotoAlone DEF Procs
    <3> QED
      BY <1>6, <3>1, StartMove, ParkMove, ToolMove DEF Move, Procs
  <2>2. UNCHANGED <<frames, effects, late>>
    BY <1>6 DEF Start, Deny, Park, Parked, CallTool, ToolError, Retry, AfterFailure,
                FailStep, tools
  <2>3. \A l : Goto(s, l) => pc'[s] = l
    BY <2>1 DEF Goto, TypeInv, TypeOK
  <2>4. \/ pc'[s] \in {"parking", "done", "unwind"}
        \/ pc[s] \in {"checking", "calling", "backoff"} /\ pc'[s] \in {"calling", "backoff"}
        \/ pc[s] = "idle" /\ pc'[s] = "begin"
    BY <1>6, <2>3 DEF Start, Deny, Park, Parked, CallTool, ToolError, Retry, AfterFailure,
                      FailStep
  <2>5. \A x \in Once : Used(s, x)' = Used(s, x)
    BY <2>2 DEF Used
  <2>6. \A x \in Once : Used(s, x) \in Nat
    BY DEF TypeInv, TypeOK, Used, Once
  <2>7. \A x \in Once : Used(s, x)' \in Nat /\ Used(s, x)' <= Used(s, x)
    BY <2>5, <2>6
  <2>8. EffectAt(first, last, s) /\ frames'[s] = frames[s]
    BY <2>2
  <2>9. EffectAt(first, last, s)'
    BY <2>4, <2>7, <2>8, EffectRest
  <2> QED
    BY <1>2, <2>1, <2>2, <2>9
<1>7. ASSUME NEW p \in Procs,
             \/ Unwind(p) \/ Failing(p) \/ UndoAnswer(p)
             \/ p \in Decisions /\
                  (Refuse(p) \/ Approve(p) \/ Approved(p) \/ ApprovedDone(p) \/ Reject(p))
             \/ p \in Decisions /\ \E kind \in {"approve", "reject"} : Decide(p, kind)
      PROVE  Goal
  <2>1. Alone(p)
    BY <1>7, UnwindMove, FailingMove, UndoneMove, DecisionMove, DecideMove
    DEF UndoAnswer, Move
  <2>2. UNCHANGED <<frames, effects, late>>
    BY <1>7 DEF Unwind, Failing, UndoAnswer, UndoOk, UndoError, Undone, Refuse, Approve,
                Approved, ApprovedDone, Reject, Decide, tools
  <2>3. ASSUME p \in Calls PROVE EffectAt(first, last, p)'
    <3>1. p \notin Decisions
      BY <2>3
    <3>2. pc'[p] \in {"undoing", "unwind", "failing", "done"}
      BY <1>7, <3>1 DEF Unwind, Failing, UndoAnswer, UndoOk, UndoError, Undone, Goto,
                        TypeInv, TypeOK
    <3>3. \A x \in Once : Used(p, x)' = Used(p, x)
      BY <2>2 DEF Used
    <3>4. \A x \in Once : Used(p, x) \in Nat
      BY <2>3 DEF TypeInv, TypeOK, Used, Once
    <3>5. \A x \in Once : Used(p, x)' \in Nat /\ Used(p, x)' <= Used(p, x)
      BY <3>3, <3>4
    <3>6. EffectAt(first, last, p) /\ frames'[p] = frames[p]
      BY <2>2, <2>3
    <3> QED
      BY <2>3, <3>2, <3>5, <3>6, EffectRest
  <2> QED
    BY <1>2, <2>1, <2>2, <2>3
<1> QED
  BY <1>3, <1>4, <1>5, <1>6, <1>7 DEF Next, Segment, Timer, Answer, UndoAnswer, Procs

\* A step whose tool must not take effect twice, because its retry policy covers
\* tool errors only (the default of executeWithRetry()), is called at most once
\* with effect: in every workflow whose ids can be numbered in document order,
\* for any timeouts, late answers, verdicts and decisions.
THEOREM EffectCorrect ==
  ASSUME NEW first, NEW last, DocumentOrder(first, last)
  PROVE  Spec => []EffectAtMostOnce
<1> DEFINE Inv == LedgerInv /\ \A s \in Calls : EffectAt(first, last, s)
<1>1. Init => Inv
  <2> SUFFICES ASSUME Init PROVE Inv
    OBVIOUS
  <2>1. \A s \in Calls : EffectAt(first, last, s)
    BY DEF Init, EffectAt, Used, Once, Procs
  <2> QED
    BY <2>1, LedgerInvInit
<1>2. Inv /\ [Next]_vars => Inv'
  BY LedgerInvStep, EffectStep DEF LedgerInv
<1>3. Inv => EffectAtMostOnce
  BY DEF EffectAt, EffectAtMostOnce, Used, Once
<1> QED
  BY <1>1, <1>2, <1>3, PTL DEF Spec
=============================================================================
