------------------------- MODULE WorkflowRunnerProofs -------------------------
(***************************************************************************)
(* Theorems about WorkflowRunner, for every workflow, policy, number of    *)
(* calls and choice of run ids: types, the ledger of compensation and the  *)
(* emptiness of the stack of a failed run.                                 *)
(***************************************************************************)
EXTENDS WorkflowRunner, SequenceTheorems, TLAPS

Frame == [block : Blocks, at : Nat]

StartLocations ==
  {"idle", "begin", "checking", "calling", "backoff", "advance", "finishing",
   "parking", "unwind", "undoing", "failing", "done"}

DecisionLocations ==
  {"idle", "approve", "reject", "refused", "approving", "approved", "unwind",
   "undoing", "failing", "done"}

\* A frame points at a step of its block.
InBlock(f) == f.at \in 1 .. Len(Body[f.block])

\* The nested loops of a start() all point at steps, except that the innermost
\* one is past the end of its block when the block is over.
FramesOK(s) ==
  /\ pc[s] \in {"checking", "calling", "backoff", "advance", "finishing"} =>
       /\ Len(frames[s]) > 0
       /\ \A i \in 1 .. Len(frames[s]) - 1 : InBlock(frames[s][i])
  /\ pc[s] \in {"checking", "calling", "backoff", "advance"} =>
       InBlock(frames[s][Len(frames[s])])

\* What the types of the variables rest on: which calls have a state, whose
\* arrays it names, and where the loops stand.
ControlOK ==
  /\ \A s \in Calls :
       /\ pc[s] \in StartLocations
       /\ pc[s] # "idle" => st[s] \in State /\ st[s].obj = s
       /\ FramesOK(s)
  /\ \A d \in Decisions :
       /\ pc[d] \in DecisionLocations
       /\ pc[d] \notin {"idle", "refused"} => st[d] \in State
  /\ \A p \in Procs : pc[p] = "undoing" => entry[p] \in Steps

TypeInv == TypeOK /\ ControlOK

-----------------------------------------------------------------------------

USE RunnerAssumption

\* Reading a block at a position inside it yields a step.
LEMMA StepOfType ==
  ASSUME NEW f \in Frame, InBlock(f)
  PROVE  StepOf(f) \in Steps
<1>1. Body[f.block] \in Seq(Steps)
  BY DEF Frame
<1> QED
  BY <1>1, ElementOfSeq DEF StepOf, InBlock

\* The innermost frame, while a step is being executed.
LEMMA TopType ==
  ASSUME TypeInv, NEW s \in Calls,
         pc[s] \in {"checking", "calling", "backoff", "advance"}
  PROVE  /\ frames[s] \in Seq(Frame)
         /\ Len(frames[s]) \in Nat \ {0}
         /\ Top(s) \in Frame
         /\ StepOf(Top(s)) \in Steps
<1>1. frames[s] \in Seq(Frame) /\ Len(frames[s]) > 0 /\ InBlock(Top(s))
  BY DEF TypeInv, TypeOK, ControlOK, FramesOK, Frame, Top
<1>2. Len(frames[s]) \in Nat \ {0}
  BY <1>1, LenProperties
<1>3. Top(s) \in Frame
  BY <1>1, <1>2, ElementOfSeq DEF Top
<1> QED
  BY <1>1, <1>2, <1>3, StepOfType

LEMMA StateOfCall ==
  ASSUME TypeInv, NEW s \in Calls, pc[s] # "idle"
  PROVE  st[s] \in State /\ st[s].obj = s
BY DEF TypeInv, ControlOK

LEMMA PutType ==
  ASSUME TypeOK, NEW p \in Procs, NEW x \in State, Put(p, x)
  PROVE  /\ st' \in [Procs -> State \cup {NoState}]
         /\ store' \in [RunIds -> State \cup {NoState}]
         /\ st'[p] = x
         /\ \A q \in Procs : q # p => st'[q] = st[q]
         /\ \A r \in RunIds : store'[r] \in {x, store[r]}
<1>1. x.run \in RunIds
  BY DEF State
<1> QED
  BY <1>1 DEF Put, TypeOK

LEMMA GotoType ==
  ASSUME TypeOK, NEW p \in Procs, NEW l \in Locations, Goto(p, l)
  PROVE  /\ pc' \in [Procs -> Locations]
         /\ pc'[p] = l
         /\ \A q \in Procs : q # p => pc'[q] = pc[q]
BY DEF Goto, TypeOK

\* The loop head keeps the types of what it writes.
LEMMA LoopType ==
  ASSUME TypeInv, NEW s \in Calls, pc[s] # "idle",
         NEW f \in Seq(Frame), Len(f) > 0, f[Len(f)].at > 0,
         \A i \in 1 .. Len(f) - 1 : InBlock(f[i]),
         Loop(s, f)
  PROVE  /\ pc' \in [Procs -> Locations]
         /\ st' \in [Procs -> State \cup {NoState}]
         /\ store' \in [RunIds -> State \cup {NoState}]
         /\ frames' \in [Calls -> Seq(Frame)]
         /\ \A p \in Procs : p # s => pc'[p] = pc[p] /\ st'[p] = st[p]
         /\ \A q \in Calls : q # s => frames'[q] = frames[q]
         /\ pc'[s] \in {"checking", "finishing"}
         /\ st'[s] \in State /\ st'[s].obj = s
         /\ st'[s].status \in {st[s].status, "completed"}
         /\ \A r \in RunIds : store'[r] \in {store[r], st'[s]}
         /\ FramesOK(s)'
<1> DEFINE top == f[Len(f)]
<1>1. s \in Procs /\ st[s] \in State /\ st[s].obj = s
  BY StateOfCall DEF Procs
<1>2. top \in Frame /\ Len(f) \in Nat \ {0}
  BY LenProperties, ElementOfSeq
<1>3. Len(Body[top.block]) \in Nat
  BY <1>2, LenProperties DEF Frame
<1>4. TypeOK /\ frames \in [Calls -> Seq(Frame)]
  BY DEF TypeInv, TypeOK, Frame
<1>5. /\ frames' \in [Calls -> Seq(Frame)]
      /\ frames'[s] = f
      /\ \A q \in Calls : q # s => frames'[q] = frames[q]
  BY <1>4 DEF Loop
<1>6. CASE /\ top.at <= Len(Body[top.block])
           /\ Put(s, [st[s] EXCEPT !.cur = StepOf(top)])
           /\ Goto(s, "checking")
  <2>1. InBlock(top)
    BY <1>2, <1>3, <1>6 DEF InBlock, Frame
  <2>2. StepOf(top) \in Steps
    BY <2>1, <1>2, StepOfType
  <2> DEFINE x == [st[s] EXCEPT !.cur = StepOf(top)]
  <2>3. x \in State /\ x.obj = s /\ x.status = st[s].status
    BY <1>1, <2>2 DEF State
  <2>4. /\ st' \in [Procs -> State \cup {NoState}]
        /\ store' \in [RunIds -> State \cup {NoState}]
        /\ st'[s] = x
        /\ \A q \in Procs : q # s => st'[q] = st[q]
        /\ \A r \in RunIds : store'[r] \in {x, store[r]}
    <3> HIDE DEF x
    <3> QED BY <1>1, <1>4, <1>6, <2>3, PutType DEF x
  <2>5. /\ pc' \in [Procs -> Locations]
        /\ pc'[s] = "checking"
        /\ \A q \in Procs : q # s => pc'[q] = pc[q]
    BY <1>1, <1>4, <1>6, GotoType DEF Locations
  <2>6. FramesOK(s)'
    BY <1>5, <2>1, <2>5, <1>2 DEF FramesOK, InBlock
  <2> HIDE DEF x
  <2> QED
    BY <1>5, <2>3, <2>4, <2>5, <2>6
<1>7. CASE /\ top.at > Len(Body[top.block])
           /\ Put(s, [st[s] EXCEPT !.status = "completed", !.cur = NoStep])
           /\ Goto(s, "finishing")
  <2> DEFINE x == [st[s] EXCEPT !.status = "completed", !.cur = NoStep]
  <2>3. x \in State /\ x.obj = s /\ x.status = "completed"
    BY <1>1 DEF State, Statuses
  <2>4. /\ st' \in [Procs -> State \cup {NoState}]
        /\ store' \in [RunIds -> State \cup {NoState}]
        /\ st'[s] = x
        /\ \A q \in Procs : q # s => st'[q] = st[q]
        /\ \A r \in RunIds : store'[r] \in {x, store[r]}
    <3> HIDE DEF x
    <3> QED BY <1>1, <1>4, <1>7, <2>3, PutType DEF x
  <2>5. /\ pc' \in [Procs -> Locations]
        /\ pc'[s] = "finishing"
        /\ \A q \in Procs : q # s => pc'[q] = pc[q]
    BY <1>1, <1>4, <1>7, GotoType DEF Locations
  <2>6. FramesOK(s)'
    BY <1>5, <2>5, <1>2 DEF FramesOK, InBlock
  <2> HIDE DEF x
  <2> QED
    BY <1>5, <2>3, <2>4, <2>5, <2>6
<1> QED
  BY <1>6, <1>7 DEF Loop

\* A record of a step that the loop points at.
LEMMA PushType ==
  ASSUME TypeOK, NEW s \in Calls, NEW x \in Steps,
         NEW outcome \in {"completed", "failed", "rejected"},
         Push(s, x, outcome)
  PROVE  history' \in [Calls -> Seq(StepRecord)]
<1> DEFINE e == [step |-> x, outcome |-> outcome]
<1>1. e \in StepRecord
  BY DEF StepRecord
<1>2. history[s] \in Seq(StepRecord)
  BY DEF TypeOK
<1>3. Append(history[s], e) \in Seq(StepRecord)
  BY <1>1, <1>2, AppendProperties
<1> QED
  BY <1>3 DEF Push, TypeOK

LEMMA CompleteStepType ==
  ASSUME TypeInv, NEW s \in Calls, pc[s] # "idle", NEW x \in Steps,
         CompleteStep(s, x)
  PROVE  /\ pc' \in [Procs -> Locations]
         /\ st' \in [Procs -> State \cup {NoState}]
         /\ store' \in [RunIds -> State \cup {NoState}]
         /\ history' \in [Calls -> Seq(StepRecord)]
         /\ stack' \in [Calls -> Seq(Steps)]
         /\ done' \in [Calls -> Seq(Steps)]
         /\ pc'[s] = "advance"
         /\ st'[s] = st[s]
         /\ \A p \in Procs : p # s => pc'[p] = pc[p] /\ st'[p] = st[p]
         /\ \A r \in RunIds : store'[r] \in {store[r], st'[s]}
         /\ UNCHANGED <<entry, late, undone, undoOk>>
         /\ \/ UNCHANGED <<stack, done>>
            \/ /\ stack' = [stack EXCEPT ![s] = Append(@, x)]
               /\ done' = [done EXCEPT ![s] = Append(@, x)]
<1>1. s \in Procs /\ st[s] \in State
  BY StateOfCall DEF Procs
<1>2. TypeOK /\ stack[s] \in Seq(Steps) /\ done[s] \in Seq(Steps)
  BY DEF TypeInv, TypeOK
<1>3. history' \in [Calls -> Seq(StepRecord)]
  BY <1>2, PushType DEF CompleteStep
<1>4. Append(stack[s], x) \in Seq(Steps) /\ Append(done[s], x) \in Seq(Steps)
  BY <1>2, AppendProperties
<1>5. stack' \in [Calls -> Seq(Steps)] /\ done' \in [Calls -> Seq(Steps)]
  BY <1>2, <1>4 DEF CompleteStep, TypeOK
<1>6. /\ st' \in [Procs -> State \cup {NoState}]
      /\ store' \in [RunIds -> State \cup {NoState}]
      /\ st'[s] = st[s]
      /\ \A p \in Procs : p # s => st'[p] = st[p]
      /\ \A r \in RunIds : store'[r] \in {st[s], store[r]}
  BY <1>1, <1>2, PutType DEF CompleteStep
<1>7. /\ pc' \in [Procs -> Locations]
      /\ pc'[s] = "advance"
      /\ \A p \in Procs : p # s => pc'[p] = pc[p]
  BY <1>1, <1>2, GotoType DEF CompleteStep, Locations
<1> QED
  BY <1>3, <1>5, <1>6, <1>7 DEF CompleteStep

LEMMA FailStepType ==
  ASSUME TypeInv, NEW s \in Calls,
         pc[s] \in {"checking", "calling", "backoff", "advance"},
         FailStep(s)
  PROVE  /\ pc' \in [Procs -> Locations]
         /\ st' \in [Procs -> State \cup {NoState}]
         /\ store' \in [RunIds -> State \cup {NoState}]
         /\ history' \in [Calls -> Seq(StepRecord)]
         /\ pc'[s] = "unwind"
         /\ st'[s] \in State /\ st'[s].obj = s /\ st'[s].status = "compensating"
         /\ \A p \in Procs : p # s => pc'[p] = pc[p] /\ st'[p] = st[p]
         /\ \A r \in RunIds : store'[r] \in {store[r], st'[s]}
         /\ UNCHANGED <<stack, entry, effects, logs, closing>>
<1>1. s \in Procs /\ st[s] \in State /\ st[s].obj = s
  BY StateOfCall DEF Procs
<1>2. TypeOK
  BY DEF TypeInv
<1>3. StepOf(Top(s)) \in Steps
  BY TopType
<1>4. history' \in [Calls -> Seq(StepRecord)]
  BY <1>2, <1>3, PushType DEF FailStep
<1> DEFINE x == [st[s] EXCEPT !.status = "compensating"]
<1>5. x \in State /\ x.obj = s /\ x.status = "compensating"
  BY <1>1 DEF State, Statuses
<1>6. /\ st' \in [Procs -> State \cup {NoState}]
      /\ store' \in [RunIds -> State \cup {NoState}]
      /\ st'[s] = x
      /\ \A p \in Procs : p # s => st'[p] = st[p]
      /\ \A r \in RunIds : store'[r] \in {x, store[r]}
  <2>1. Put(s, x)
    BY DEF FailStep
  <2> HIDE DEF x
  <2> QED
    BY <1>1, <1>2, <1>5, <2>1, PutType
<1>7. /\ pc' \in [Procs -> Locations]
      /\ pc'[s] = "unwind"
      /\ \A p \in Procs : p # s => pc'[p] = pc[p]
  BY <1>1, <1>2, GotoType DEF FailStep, Locations
<1> HIDE DEF x
<1> QED
  BY <1>4, <1>5, <1>6, <1>7 DEF FailStep

-----------------------------------------------------------------------------

\* A step of start() s that leaves the other calls alone keeps ControlOK.
LEMMA ControlStart ==
  ASSUME ControlOK, NEW s \in Calls,
         pc'[s] \in StartLocations,
         st'[s] \in State, st'[s].obj = s,
         FramesOK(s)',
         pc'[s] = "undoing" => entry'[s] \in Steps,
         \A p \in Procs : p # s => /\ pc'[p] = pc[p]
                                  /\ st'[p] = st[p]
                                  /\ entry'[p] = entry[p],
         \A q \in Calls : q # s => frames'[q] = frames[q]
  PROVE  ControlOK'
<1>1. \A q \in Calls : q # s => pc'[q] = pc[q] /\ st'[q] = st[q] /\ frames'[q] = frames[q]
  BY DEF Procs
<1>2. \A q \in Calls : q # s => FramesOK(q)'
  BY <1>1 DEF ControlOK, FramesOK, InBlock
<1>3. \A d \in Decisions : d # s /\ pc'[d] = pc[d] /\ st'[d] = st[d]
  BY DEF Procs
<1> QED
  BY <1>1, <1>2, <1>3 DEF ControlOK

\* A step of a decision d that leaves the other calls alone keeps ControlOK.
LEMMA ControlDecision ==
  ASSUME ControlOK, NEW d \in Decisions,
         pc'[d] \in DecisionLocations,
         pc'[d] \notin {"idle", "refused"} => st'[d] \in State,
         pc'[d] = "undoing" => entry'[d] \in Steps,
         \A p \in Procs : p # d => /\ pc'[p] = pc[p]
                                  /\ st'[p] = st[p]
                                  /\ entry'[p] = entry[p],
         frames' = frames
  PROVE  ControlOK'
<1>1. \A q \in Calls : pc'[q] = pc[q] /\ st'[q] = st[q]
  BY DEF Procs
<1>2. \A q \in Calls : FramesOK(q)'
  BY <1>1 DEF ControlOK, FramesOK, InBlock
<1>3. \A e \in Decisions : e # d => pc'[e] = pc[e] /\ st'[e] = st[e]
  BY DEF Procs
<1> QED
  BY <1>1, <1>2, <1>3 DEF ControlOK

-----------------------------------------------------------------------------

(* The frames that the loop head receives. *)

LEMMA NextFrame ==
  ASSUME NEW h \in Frame
  PROVE  [h EXCEPT !.at = @ + 1] \in Frame /\ [h EXCEPT !.at = @ + 1].at > 0
<1>1. h.at \in Nat /\ h.at + 1 \in Nat /\ h.at + 1 > 0
  BY DEF Frame
<1>2. \A y \in Nat : [h EXCEPT !.at = y] \in Frame /\ [h EXCEPT !.at = y].at = y
  BY DEF Frame
<1> QED
  BY <1>1, <1>2

LEMMA AdvanceFrames ==
  ASSUME TypeInv, NEW s \in Calls, pc[s] = "advance"
  PROVE  LET f == [frames[s] EXCEPT ![Len(frames[s])].at = @ + 1] IN
         /\ f \in Seq(Frame) /\ Len(f) > 0 /\ f[Len(f)].at > 0
         /\ \A i \in 1 .. Len(f) - 1 : InBlock(f[i])
<1> DEFINE n == Len(frames[s])
           g == [frames[s][n] EXCEPT !.at = @ + 1]
           f == [frames[s] EXCEPT ![n] = g]
<1>1. frames[s] \in Seq(Frame) /\ n \in Nat \ {0} /\ Top(s) \in Frame
  BY TopType
<1>2. g \in Frame /\ g.at > 0
  <2>1. frames[s][n] \in Frame
    BY <1>1 DEF Top
  <2> QED
    BY <2>1, NextFrame
<1>3. f \in Seq(Frame) /\ Len(f) = n /\ \A i \in 1 .. n : f[i] = IF i = n THEN g ELSE frames[s][i]
  <2> HIDE DEF g
  <2> QED BY <1>1, <1>2, ExceptSeq
<1>4. \A i \in 1 .. n - 1 : InBlock(frames[s][i])
  BY DEF TypeInv, ControlOK, FramesOK
<1>5. \A i \in 1 .. n - 1 : InBlock(f[i])
  BY <1>1, <1>3, <1>4
<1>6. f = [frames[s] EXCEPT ![Len(frames[s])].at = @ + 1]
  OBVIOUS
<1>7. Len(f) > 0 /\ f[Len(f)].at > 0
  BY <1>1, <1>2, <1>3
<1> HIDE DEF f
<1> QED
  BY <1>1, <1>3, <1>5, <1>6, <1>7

LEMMA BranchFrames ==
  ASSUME TypeInv, NEW s \in Calls, pc[s] = "checking", NEW b \in Blocks
  PROVE  LET f == Append(frames[s], [block |-> b, at |-> 1]) IN
         /\ f \in Seq(Frame) /\ Len(f) > 0 /\ f[Len(f)].at > 0
         /\ \A i \in 1 .. Len(f) - 1 : InBlock(f[i])
<1> DEFINE n == Len(frames[s])
           g == [block |-> b, at |-> 1]
           f == Append(frames[s], g)
<1>1. frames[s] \in Seq(Frame) /\ n \in Nat \ {0}
  BY TopType
<1>2. g \in Frame /\ g.at > 0
  BY DEF Frame
<1>3. f \in Seq(Frame) /\ Len(f) = n + 1 /\ f[n + 1] = g /\ \A i \in 1 .. n : f[i] = frames[s][i]
  <2> HIDE DEF g
  <2> QED BY <1>1, <1>2, AppendProperties
<1>4. \A i \in 1 .. n : InBlock(frames[s][i])
  <2>1. \A i \in 1 .. n - 1 : InBlock(frames[s][i])
    BY DEF TypeInv, ControlOK, FramesOK
  <2>2. InBlock(frames[s][n])
    BY DEF TypeInv, ControlOK, FramesOK
  <2> QED
    BY <1>1, <2>1, <2>2
<1> QED
  BY <1>1, <1>2, <1>3, <1>4

LEMMA FinishFrames ==
  ASSUME TypeInv, NEW s \in Calls, pc[s] = "finishing", Len(frames[s]) > 1
  PROVE  LET outer == SubSeq(frames[s], 1, Len(frames[s]) - 1) IN
         /\ outer \in Seq(Frame) /\ Len(outer) = Len(frames[s]) - 1
         /\ \A i \in 1 .. Len(outer) : InBlock(outer[i])
         /\ StepOf(outer[Len(outer)]) \in Steps
<1> DEFINE n == Len(frames[s])
           f == SubSeq(frames[s], 1, n - 1)
<1>1. frames[s] \in Seq(Frame)
  BY DEF TypeInv, TypeOK, Frame
<1>2. n \in Nat /\ n > 1
  BY <1>1, LenProperties
<1>3. f \in Seq(Frame) /\ Len(f) = n - 1 /\ \A i \in 1 .. n - 1 : f[i] = frames[s][i]
  <2>1. n - 1 \in Int /\ 1 \in Int /\ n - 1 >= 1 /\ (n - 1) - 1 + 1 = n - 1
    BY <1>2
  <2>2. \A i \in 1 .. n - 1 : frames[s][i] \in Frame
    <3>1. \A i \in 1 .. n - 1 : i \in 1 .. Len(frames[s])
      BY <1>2
    <3> QED
      BY <1>1, <3>1, ElementOfSeq
  <2>3. /\ f \in Seq(Frame) /\ Len(f) = IF 1 <= n - 1 THEN (n - 1) - 1 + 1 ELSE 0
        /\ \A i \in 1 .. (n - 1) - 1 + 1 : f[i] = frames[s][1 + i - 1]
    BY <2>1, <2>2, SubSeqProperties
  <2> QED
    BY <1>2, <2>1, <2>3
<1>4. \A i \in 1 .. n - 1 : InBlock(frames[s][i])
  BY DEF TypeInv, ControlOK, FramesOK
<1>5. \A i \in 1 .. n - 1 : InBlock(f[i])
  BY <1>3, <1>4
<1>6. f[n - 1] \in Frame
  BY <1>2, <1>3, ElementOfSeq
<1>7. InBlock(f[n - 1])
  <2>1. n - 1 \in 1 .. n - 1
    BY <1>2
  <2> QED
    BY <1>5, <2>1
<1>8. StepOf(f[n - 1]) \in Steps
  BY <1>6, <1>7, StepOfType
<1> QED
  BY <1>3, <1>5, <1>8

-----------------------------------------------------------------------------

(* Each step of start() keeps the types. *)

LEMMA StartType ==
  ASSUME TypeInv, NEW s \in Calls, Start(s)
  PROVE  TypeInv'
<1>1. TypeOK /\ ControlOK /\ s \in Procs
  BY DEF TypeInv, Procs
<1>2. PICK r \in RunIds :
        Put(s, [run |-> r, obj |-> s, status |-> "running", cur |-> NoStep])
  BY DEF Start
<1> DEFINE x == [run |-> r, obj |-> s, status |-> "running", cur |-> NoStep]
<1>3. x \in State /\ x.obj = s
  BY DEF State, Statuses
<1>4. /\ st' \in [Procs -> State \cup {NoState}]
      /\ store' \in [RunIds -> State \cup {NoState}]
      /\ st'[s] = x
      /\ \A p \in Procs : p # s => st'[p] = st[p]
  <2> HIDE DEF x
  <2> QED BY <1>1, <1>2, <1>3, PutType DEF x
<1>5. /\ pc' \in [Procs -> Locations]
      /\ pc'[s] = "begin"
      /\ \A p \in Procs : p # s => pc'[p] = pc[p]
  BY <1>1, GotoType DEF Start, Locations
<1>6. UNCHANGED <<frames, attempt, shared, entry, tools, logs, closing>>
  BY DEF Start
<1>7. TypeOK'
  BY <1>1, <1>4, <1>5, <1>6 DEF TypeOK, shared, tools, logs
<1>8. FramesOK(s)'
  BY <1>5 DEF FramesOK
<1> HIDE DEF x
<1>9. ControlOK'
  <2>1. pc'[s] \in StartLocations /\ pc'[s] # "undoing"
    BY <1>5 DEF StartLocations
  <2>2. st'[s] \in State /\ st'[s].obj = s
    BY <1>3, <1>4
  <2>3. \A p \in Procs : p # s => /\ pc'[p] = pc[p]
                                 /\ st'[p] = st[p]
                                 /\ entry'[p] = entry[p]
    BY <1>4, <1>5, <1>6
  <2>4. \A q \in Calls : q # s => frames'[q] = frames[q]
    BY <1>6
  <2> QED
    BY <1>1, <1>8, <2>1, <2>2, <2>3, <2>4, ControlStart
<1> QED
  BY <1>7, <1>9 DEF TypeInv

LEMMA BeginType ==
  ASSUME TypeInv, NEW s \in Calls, Begin(s)
  PROVE  TypeInv'
<1> DEFINE g == [block |-> Root, at |-> 1]
           f == <<g>>
<1>1. TypeOK /\ ControlOK
  BY DEF TypeInv
<1>2. g \in Frame /\ g.at > 0
  BY DEF Frame
<1>3. f \in Seq(Frame) /\ Len(f) = 1 /\ f[1] = g
  <2>1. \A h \in Frame : <<h>> \in Seq(Frame) /\ Len(<<h>>) = 1 /\ <<h>>[1] = h
    OBVIOUS
  <2> HIDE DEF g
  <2> QED BY <1>2, <2>1
<1>4. \A i \in 1 .. Len(f) - 1 : InBlock(f[i])
  <2> HIDE DEF f
  <2> QED BY <1>3
<1>5. Loop(s, f) /\ UNCHANGED <<attempt, shared, entry, tools, logs, closing>> /\ pc[s] # "idle"
  BY DEF Begin
<1> HIDE DEF f, g
<1>10. Len(f) > 0 /\ f[Len(f)].at > 0
  BY <1>2, <1>3
<1>6. /\ pc' \in [Procs -> Locations]
      /\ st' \in [Procs -> State \cup {NoState}]
      /\ store' \in [RunIds -> State \cup {NoState}]
      /\ frames' \in [Calls -> Seq(Frame)]
      /\ \A p \in Procs : p # s => pc'[p] = pc[p] /\ st'[p] = st[p]
      /\ \A q \in Calls : q # s => frames'[q] = frames[q]
      /\ pc'[s] \in {"checking", "finishing"}
      /\ st'[s] \in State /\ st'[s].obj = s
      /\ FramesOK(s)'
  BY <1>3, <1>4, <1>5, <1>10, LoopType
<1>7. TypeOK'
  BY <1>1, <1>5, <1>6 DEF TypeOK, shared, tools, logs, Frame
<1>8. ControlOK'
  BY <1>1, <1>5, <1>6, ControlStart DEF StartLocations
<1> QED
  BY <1>7, <1>8 DEF TypeInv

LEMMA AdvanceType ==
  ASSUME TypeInv, NEW s \in Calls, Advance(s)
  PROVE  TypeInv'
<1> DEFINE f == [frames[s] EXCEPT ![Len(frames[s])].at = @ + 1]
<1>1. TypeOK /\ ControlOK
  BY DEF TypeInv
<1>2. /\ f \in Seq(Frame) /\ Len(f) > 0 /\ f[Len(f)].at > 0
      /\ \A i \in 1 .. Len(f) - 1 : InBlock(f[i])
  BY AdvanceFrames DEF Advance
<1>3. Loop(s, f) /\ UNCHANGED <<attempt, shared, entry, tools, logs, closing>> /\ pc[s] # "idle"
  BY DEF Advance
<1> HIDE DEF f
<1>4. /\ pc' \in [Procs -> Locations]
      /\ st' \in [Procs -> State \cup {NoState}]
      /\ store' \in [RunIds -> State \cup {NoState}]
      /\ frames' \in [Calls -> Seq(Frame)]
      /\ \A p \in Procs : p # s => pc'[p] = pc[p] /\ st'[p] = st[p]
      /\ \A q \in Calls : q # s => frames'[q] = frames[q]
      /\ pc'[s] \in {"checking", "finishing"}
      /\ st'[s] \in State /\ st'[s].obj = s
      /\ FramesOK(s)'
  BY <1>2, <1>3, LoopType
<1>5. TypeOK'
  BY <1>1, <1>3, <1>4 DEF TypeOK, shared, tools, logs, Frame
<1>6. ControlOK'
  BY <1>1, <1>3, <1>4, ControlStart DEF StartLocations
<1> QED
  BY <1>5, <1>6 DEF TypeInv

\* A step that fails: whatever else changes is a counter of the call.
LEMMA FailType ==
  ASSUME TypeInv, NEW s \in Calls,
         pc[s] \in {"checking", "calling", "backoff", "advance"},
         FailStep(s), UNCHANGED frames,
         attempt' \in [Calls -> Nat],
         late' \in [Calls -> [Steps -> Nat]]
  PROVE  TypeInv'
<1>1. TypeOK /\ ControlOK
  BY DEF TypeInv
<1>2. /\ pc' \in [Procs -> Locations]
      /\ st' \in [Procs -> State \cup {NoState}]
      /\ store' \in [RunIds -> State \cup {NoState}]
      /\ history' \in [Calls -> Seq(StepRecord)]
      /\ pc'[s] = "unwind"
      /\ st'[s] \in State /\ st'[s].obj = s
      /\ \A p \in Procs : p # s => pc'[p] = pc[p] /\ st'[p] = st[p]
      /\ UNCHANGED <<stack, entry, effects, logs, closing>>
  BY FailStepType
<1>3. TypeOK'
  BY <1>1, <1>2 DEF TypeOK, logs
<1>4. FramesOK(s)'
  BY <1>2 DEF FramesOK
<1>5. ControlOK'
  BY <1>1, <1>2, <1>4, ControlStart DEF StartLocations
<1> QED
  BY <1>3, <1>5 DEF TypeInv

\* A call that moves to another suspension point inside the same step.
LEMMA MoveType ==
  ASSUME TypeInv, NEW s \in Calls,
         pc[s] \in {"checking", "calling", "backoff", "advance"},
         NEW l \in {"calling", "backoff"},
         Goto(s, l), UNCHANGED <<st, store, frames, shared, entry, effects, logs, closing>>,
         attempt' \in [Calls -> Nat],
         late' \in [Calls -> [Steps -> Nat]]
  PROVE  TypeInv'
<1>1. TypeOK /\ ControlOK /\ s \in Procs
  BY DEF TypeInv, Procs
<1>2. /\ pc' \in [Procs -> Locations]
      /\ pc'[s] = l
      /\ \A p \in Procs : p # s => pc'[p] = pc[p]
  BY <1>1, GotoType DEF Locations
<1>3. TypeOK'
  BY <1>1, <1>2 DEF TypeOK, shared, logs
<1>4. FramesOK(s)'
  BY <1>1, <1>2 DEF ControlOK, FramesOK, InBlock
<1>5. st'[s] \in State /\ st'[s].obj = s
  BY StateOfCall
<1>6. ControlOK'
  BY <1>1, <1>2, <1>4, <1>5, ControlStart DEF StartLocations
<1> QED
  BY <1>3, <1>6 DEF TypeInv

LEMMA DenyType ==
  ASSUME TypeInv, NEW s \in Calls, Deny(s)
  PROVE  TypeInv'
<1>1. /\ attempt' \in [Calls -> Nat]
      /\ late' \in [Calls -> [Steps -> Nat]]
  BY DEF Deny, TypeInv, TypeOK
<1> QED
  BY <1>1, FailType DEF Deny

LEMMA ParkType ==
  ASSUME TypeInv, NEW s \in Calls, Park(s)
  PROVE  TypeInv'
<1> DEFINE x == [st[s] EXCEPT !.status = "waiting_for_approval"]
<1>1. TypeOK /\ ControlOK /\ s \in Procs
  BY DEF TypeInv, Procs
<1>2. x \in State /\ x.obj = s
  <2>1. st[s] \in State /\ st[s].obj = s
    BY StateOfCall DEF Park
  <2> QED
    BY <2>1 DEF State, Statuses
<1>3. Put(s, x) /\ Goto(s, "parking")
      /\ UNCHANGED <<frames, attempt, shared, entry, tools, logs, closing>>
  BY DEF Park
<1> HIDE DEF x
<1>4. /\ st' \in [Procs -> State \cup {NoState}]
      /\ store' \in [RunIds -> State \cup {NoState}]
      /\ st'[s] = x
      /\ \A p \in Procs : p # s => st'[p] = st[p]
  BY <1>1, <1>2, <1>3, PutType
<1>5. /\ pc' \in [Procs -> Locations]
      /\ pc'[s] = "parking"
      /\ \A p \in Procs : p # s => pc'[p] = pc[p]
  BY <1>1, <1>3, GotoType DEF Locations
<1>6. TypeOK'
  BY <1>1, <1>3, <1>4, <1>5 DEF TypeOK, shared, tools, logs
<1>7. FramesOK(s)'
  BY <1>5 DEF FramesOK
<1>8. ControlOK'
  <2>1. pc'[s] \in StartLocations /\ pc'[s] # "undoing"
    BY <1>5 DEF StartLocations
  <2>2. st'[s] \in State /\ st'[s].obj = s
    BY <1>2, <1>4
  <2>3. \A p \in Procs : p # s => /\ pc'[p] = pc[p]
                                 /\ st'[p] = st[p]
                                 /\ entry'[p] = entry[p]
    BY <1>3, <1>4, <1>5
  <2>4. \A q \in Calls : q # s => frames'[q] = frames[q]
    BY <1>3
  <2> QED
    BY <1>1, <1>7, <2>1, <2>2, <2>3, <2>4, ControlStart
<1> QED
  BY <1>6, <1>8 DEF TypeInv

LEMMA ParkedType ==
  ASSUME TypeInv, NEW s \in Calls, Parked(s)
  PROVE  TypeInv'
<1>1. TypeOK /\ ControlOK /\ s \in Procs /\ pc[s] # "idle"
  BY DEF TypeInv, Procs, Parked
<1>2. /\ pc' \in [Procs -> Locations]
      /\ pc'[s] = "done"
      /\ \A p \in Procs : p # s => pc'[p] = pc[p]
  BY <1>1, GotoType DEF Parked, Locations
<1>3. UNCHANGED <<st, store, frames, attempt, shared, entry, tools, logs, closing>>
  BY DEF Parked
<1>4. TypeOK'
  BY <1>1, <1>2, <1>3 DEF TypeOK, shared, tools, logs
<1>5. FramesOK(s)'
  BY <1>2 DEF FramesOK
<1>6. st'[s] \in State /\ st'[s].obj = s
  BY <1>1, <1>3, StateOfCall
<1>7. ControlOK'
  BY <1>1, <1>2, <1>3, <1>5, <1>6, ControlStart DEF StartLocations
<1> QED
  BY <1>4, <1>7 DEF TypeInv

LEMMA CallToolType ==
  ASSUME TypeInv, NEW s \in Calls, CallTool(s)
  PROVE  TypeInv'
<1>1. /\ attempt' \in [Calls -> Nat]
      /\ late' \in [Calls -> [Steps -> Nat]]
      /\ UNCHANGED <<frames, late>>
      /\ pc[s] = "checking"
  BY DEF CallTool, TypeInv, TypeOK
<1>2. \/ Goto(s, "calling") /\ UNCHANGED <<st, store, shared, entry, effects, logs, closing>>
      \/ FailStep(s)
  BY DEF CallTool
<1>3. CASE Goto(s, "calling") /\ UNCHANGED <<st, store, shared, entry, effects, logs, closing>>
  BY <1>1, <1>3, MoveType
<1>4. CASE FailStep(s)
  BY <1>1, <1>4, FailType
<1> QED
  BY <1>2, <1>3, <1>4

\* A step that completes, in a loop that is left where it stands or returns to
\* its outer loop.
LEMMA CompleteType ==
  ASSUME TypeInv, NEW s \in Calls, pc[s] # "idle", NEW x \in Steps,
         CompleteStep(s, x), UNCHANGED attempt,
         frames' \in [Calls -> Seq(Frame)],
         \A q \in Calls : q # s => frames'[q] = frames[q],
         Len(frames'[s]) > 0,
         \A i \in 1 .. Len(frames'[s]) : InBlock(frames'[s][i]),
         effects' \in [Calls -> [Steps -> Nat]],
         closing' \in [RunIds -> Seq({"workflow.completed", "workflow.failed"})]
  PROVE  TypeInv'
<1>1. TypeOK /\ ControlOK
  BY DEF TypeInv
<1>2. /\ pc' \in [Procs -> Locations]
      /\ st' \in [Procs -> State \cup {NoState}]
      /\ store' \in [RunIds -> State \cup {NoState}]
      /\ history' \in [Calls -> Seq(StepRecord)]
      /\ stack' \in [Calls -> Seq(Steps)]
      /\ done' \in [Calls -> Seq(Steps)]
      /\ pc'[s] = "advance"
      /\ st'[s] = st[s]
      /\ \A p \in Procs : p # s => pc'[p] = pc[p] /\ st'[p] = st[p]
      /\ UNCHANGED <<entry, late, undone, undoOk>>
  BY CompleteStepType
<1>3. TypeOK'
  BY <1>1, <1>2 DEF TypeOK, Frame
<1>4. FramesOK(s)'
  <2>1. Len(frames'[s]) \in Nat
    BY LenProperties
  <2>2. /\ \A i \in 1 .. Len(frames'[s]) - 1 : InBlock(frames'[s][i])
        /\ InBlock(frames'[s][Len(frames'[s])])
    BY <2>1
  <2> QED
    BY <2>2 DEF FramesOK, InBlock
<1>5. st'[s] \in State /\ st'[s].obj = s
  BY <1>2, StateOfCall
<1>6. ControlOK'
  BY <1>1, <1>2, <1>4, <1>5, ControlStart DEF StartLocations
<1> QED
  BY <1>3, <1>6 DEF TypeInv

\* While a step is being executed all frames point at steps.
LEMMA AllInBlock ==
  ASSUME TypeInv, NEW s \in Calls,
         pc[s] \in {"checking", "calling", "backoff", "advance"}
  PROVE  /\ frames \in [Calls -> Seq(Frame)]
         /\ Len(frames[s]) > 0
         /\ \A i \in 1 .. Len(frames[s]) : InBlock(frames[s][i])
<1>1. frames[s] \in Seq(Frame) /\ Len(frames[s]) \in Nat \ {0}
  BY TopType
<1>2. \A i \in 1 .. Len(frames[s]) - 1 : InBlock(frames[s][i])
  BY DEF TypeInv, ControlOK, FramesOK
<1>3. InBlock(frames[s][Len(frames[s])])
  BY DEF TypeInv, ControlOK, FramesOK
<1>4. frames \in [Calls -> Seq(Frame)]
  BY DEF TypeInv, TypeOK, Frame
<1> QED
  BY <1>1, <1>2, <1>3, <1>4

LEMMA EmitType ==
  ASSUME TypeOK, NEW p \in Procs, st[p] \in State,
         NEW event \in {"workflow.completed", "workflow.failed"},
         Emit(p, event)
  PROVE  closing' \in [RunIds -> Seq({"workflow.completed", "workflow.failed"})]
<1> DEFINE E == {"workflow.completed", "workflow.failed"}
<1>1. st[p].run \in RunIds
  BY DEF State
<1>2. closing \in [RunIds -> Seq(E)]
  BY DEF TypeOK
<1>3. Append(closing[st[p].run], event) \in Seq(E)
  BY <1>1, <1>2, AppendProperties
<1> QED
  BY <1>1, <1>2, <1>3 DEF Emit

LEMMA BranchType ==
  ASSUME TypeInv, NEW s \in Calls, Branch(s)
  PROVE  TypeInv'
<1> DEFINE x == StepOf(Top(s))
<1>1. TypeOK /\ ControlOK /\ pc[s] = "checking" /\ UNCHANGED <<attempt, effects, closing>>
  BY DEF TypeInv, Branch
<1>2. x \in Steps
  BY <1>1, TopType
<1>3. PICK holds \in BOOLEAN :
        \/ /\ Loop(s, Append(frames[s], [block |-> Arm[x][holds], at |-> 1]))
           /\ UNCHANGED <<shared, entry, late, logs>>
        \/ /\ CompleteStep(s, x)
           /\ UNCHANGED frames
  BY DEF Branch
<1>4. Arm[x][holds] \in Blocks
  BY <1>2
<1>5. CASE /\ Loop(s, Append(frames[s], [block |-> Arm[x][holds], at |-> 1]))
           /\ UNCHANGED <<shared, entry, late, logs>>
  <2> DEFINE f == Append(frames[s], [block |-> Arm[x][holds], at |-> 1])
  <2>1. /\ f \in Seq(Frame) /\ Len(f) > 0 /\ f[Len(f)].at > 0
        /\ \A i \in 1 .. Len(f) - 1 : InBlock(f[i])
    BY <1>1, <1>4, BranchFrames
  <2>2. Loop(s, f)
    BY <1>5
  <2> HIDE DEF f
  <2>3. /\ pc' \in [Procs -> Locations]
        /\ st' \in [Procs -> State \cup {NoState}]
        /\ store' \in [RunIds -> State \cup {NoState}]
        /\ frames' \in [Calls -> Seq(Frame)]
        /\ \A p \in Procs : p # s => pc'[p] = pc[p] /\ st'[p] = st[p]
        /\ \A q \in Calls : q # s => frames'[q] = frames[q]
        /\ pc'[s] \in {"checking", "finishing"}
        /\ st'[s] \in State /\ st'[s].obj = s
        /\ FramesOK(s)'
    BY <1>1, <2>1, <2>2, LoopType
  <2>4. TypeOK'
    BY <1>1, <1>5, <2>3 DEF TypeOK, shared, logs, Frame
  <2>5. ControlOK'
    BY <1>1, <1>5, <2>3, ControlStart DEF StartLocations
  <2> QED
    BY <2>4, <2>5 DEF TypeInv
<1>6. CASE CompleteStep(s, x) /\ UNCHANGED frames
  <2>1. /\ frames \in [Calls -> Seq(Frame)]
        /\ Len(frames[s]) > 0
        /\ \A i \in 1 .. Len(frames[s]) : InBlock(frames[s][i])
    BY <1>1, AllInBlock
  <2>2. /\ effects' \in [Calls -> [Steps -> Nat]]
        /\ closing' \in [RunIds -> Seq({"workflow.completed", "workflow.failed"})]
    BY <1>1 DEF TypeOK
  <2> HIDE DEF x
  <2> QED
    BY <1>1, <1>2, <1>6, <2>1, <2>2, CompleteType
<1> QED
  BY <1>3, <1>5, <1>6

LEMMA FinishType ==
  ASSUME TypeInv, NEW s \in Calls, Finish(s)
  PROVE  TypeInv'
<1>1. TypeOK /\ ControlOK /\ pc[s] = "finishing" /\ UNCHANGED <<attempt, effects>> /\ s \in Procs
  BY DEF TypeInv, Finish, Procs
<1>2. st[s] \in State /\ st[s].obj = s
  BY <1>1, StateOfCall
<1>3. closing' \in [RunIds -> Seq({"workflow.completed", "workflow.failed"})]
  BY <1>1, <1>2, EmitType DEF Finish
<1>4. CASE Goto(s, "done") /\ UNCHANGED <<st, store, frames, shared, entry, late, logs>>
  <2>1. /\ pc' \in [Procs -> Locations]
        /\ pc'[s] = "done"
        /\ \A p \in Procs : p # s => pc'[p] = pc[p]
    BY <1>1, <1>4, GotoType DEF Locations
  <2>2. TypeOK'
    BY <1>1, <1>3, <1>4, <2>1 DEF TypeOK, shared, logs
  <2>3. FramesOK(s)'
    BY <2>1 DEF FramesOK
  <2>4. ControlOK'
    BY <1>1, <1>2, <1>4, <2>1, <2>3, ControlStart DEF StartLocations
  <2> QED
    BY <2>2, <2>4 DEF TypeInv
<1>5. CASE /\ Len(frames[s]) > 1
           /\ LET outer == SubSeq(frames[s], 1, Len(frames[s]) - 1) IN
                /\ frames' = [frames EXCEPT ![s] = outer]
                /\ CompleteStep(s, StepOf(outer[Len(outer)]))
  <2> DEFINE outer == SubSeq(frames[s], 1, Len(frames[s]) - 1)
             x == StepOf(outer[Len(outer)])
  <2>1. /\ outer \in Seq(Frame) /\ Len(outer) = Len(frames[s]) - 1
        /\ \A i \in 1 .. Len(outer) : InBlock(outer[i])
        /\ x \in Steps
    BY <1>1, <1>5, FinishFrames
  <2>2. frames' = [frames EXCEPT ![s] = outer] /\ CompleteStep(s, x)
    BY <1>5
  <2>3. frames \in [Calls -> Seq(Frame)] /\ Len(frames[s]) \in Nat
    <3>1. frames \in [Calls -> Seq(Frame)]
      BY <1>1 DEF TypeOK, Frame
    <3> QED
      BY <3>1, LenProperties
  <2> HIDE DEF outer, x
  <2>4. /\ frames' \in [Calls -> Seq(Frame)]
        /\ frames'[s] = outer
        /\ \A q \in Calls : q # s => frames'[q] = frames[q]
    BY <2>1, <2>2, <2>3
  <2>5. Len(outer) > 0
    BY <1>5, <2>1, <2>3
  <2>6. effects' \in [Calls -> [Steps -> Nat]]
    BY <1>1 DEF TypeOK
  <2>7. UNCHANGED attempt /\ pc[s] # "idle"
    BY <1>1
  <2>8. /\ Len(frames'[s]) > 0
        /\ \A i \in 1 .. Len(frames'[s]) : InBlock(frames'[s][i])
    BY <2>1, <2>4, <2>5
  <2> QED
    BY <1>3, <2>1, <2>2, <2>4, <2>6, <2>7, <2>8, CompleteType
<1> QED
  BY <1>4, <1>5 DEF Finish

LEMMA ToolOkType ==
  ASSUME TypeInv, NEW s \in Calls, ToolOk(s)
  PROVE  TypeInv'
<1> DEFINE x == StepOf(Top(s))
<1>1. TypeOK /\ pc[s] = "calling" /\ UNCHANGED <<frames, attempt, closing>>
  BY DEF TypeInv, ToolOk
<1>2. x \in Steps
  BY <1>1, TopType
<1>3. effects' = [effects EXCEPT ![s][x] = @ + 1] /\ CompleteStep(s, x)
  BY DEF ToolOk
<1> HIDE DEF x
<1>4. effects' \in [Calls -> [Steps -> Nat]]
  BY <1>1, <1>2, <1>3 DEF TypeOK
<1>5. closing' \in [RunIds -> Seq({"workflow.completed", "workflow.failed"})]
  BY <1>1 DEF TypeOK
<1>6. /\ frames \in [Calls -> Seq(Frame)]
      /\ Len(frames[s]) > 0
      /\ \A i \in 1 .. Len(frames[s]) : InBlock(frames[s][i])
  BY <1>1, AllInBlock
<1> QED
  BY <1>1, <1>2, <1>3, <1>4, <1>5, <1>6, CompleteType

LEMMA AfterFailureType ==
  ASSUME TypeInv, NEW s \in Calls, NEW isTimeout \in BOOLEAN, pc[s] = "calling",
         AfterFailure(s, isTimeout), UNCHANGED <<frames, attempt>>,
         late' \in [Calls -> [Steps -> Nat]]
  PROVE  TypeInv'
<1>1. attempt' \in [Calls -> Nat]
  BY DEF TypeInv, TypeOK
<1>2. CASE FailStep(s)
  BY <1>1, <1>2, FailType
<1>3. CASE Goto(s, "backoff") /\ UNCHANGED <<st, store, shared, entry, effects, logs, closing>>
  BY <1>1, <1>3, MoveType
<1> QED
  BY <1>2, <1>3 DEF AfterFailure

LEMMA ToolErrorType ==
  ASSUME TypeInv, NEW s \in Calls, ToolError(s)
  PROVE  TypeInv'
<1>1. late' \in [Calls -> [Steps -> Nat]]
  BY DEF ToolError, TypeInv, TypeOK
<1> QED
  BY <1>1, AfterFailureType DEF ToolError

LEMMA TimeoutType ==
  ASSUME TypeInv, NEW s \in Calls, Timeout(s)
  PROVE  TypeInv'
<1> DEFINE x == StepOf(Top(s))
<1>1. x \in Steps
  BY TopType DEF Timeout
<1>2. late' = [late EXCEPT ![s][x] = @ + 1]
  BY DEF Timeout
<1> HIDE DEF x
<1>3. late' \in [Calls -> [Steps -> Nat]]
  BY <1>1, <1>2 DEF TypeInv, TypeOK
<1> QED
  BY <1>3, AfterFailureType DEF Timeout

LEMMA RetryType ==
  ASSUME TypeInv, NEW s \in Calls, Retry(s)
  PROVE  TypeInv'
<1>1. /\ attempt' \in [Calls -> Nat]
      /\ late' \in [Calls -> [Steps -> Nat]]
      /\ Goto(s, "calling")
      /\ UNCHANGED <<st, store, frames, shared, entry, effects, logs, closing>>
      /\ pc[s] = "backoff"
  BY DEF Retry, TypeInv, TypeOK, tools
<1> QED
  BY <1>1, MoveType

LEMMA LateAnswerType ==
  ASSUME TypeInv, NEW s \in Calls, NEW x \in Steps, LateAnswer(s, x)
  PROVE  TypeInv'
<1>1. TypeOK /\ ControlOK
  BY DEF TypeInv
<1>2. UNCHANGED <<pc, st, store, frames, attempt, shared, entry, logs, closing>>
  BY DEF LateAnswer, control
<1>3. late' \in [Calls -> [Steps -> Nat]]
  BY <1>1 DEF LateAnswer, TypeOK
<1>4. effects' \in [Calls -> [Steps -> Nat]]
  <2>1. effects \in [Calls -> [Steps -> Nat]]
    BY <1>1 DEF TypeOK
  <2>2. CASE effects' = [effects EXCEPT ![s][x] = @ + 1]
    BY <2>1, <2>2
  <2>3. CASE UNCHANGED effects
    BY <2>1, <2>3
  <2> QED
    BY <2>2, <2>3 DEF LateAnswer
<1>5. TypeOK'
  BY <1>1, <1>2, <1>3, <1>4 DEF TypeOK, shared, logs
<1>6. ControlOK'
  BY <1>1, <1>2 DEF ControlOK, FramesOK, InBlock
<1> QED
  BY <1>5, <1>6 DEF TypeInv

-----------------------------------------------------------------------------

(* Each step of compensate(), by a start() or by a decision, keeps the types. *)

LEMMA StateOfEnding ==
  ASSUME TypeInv, NEW p \in Procs, pc[p] \in {"unwind", "undoing", "failing"}
  PROVE  /\ st[p] \in State
         /\ st[p].obj \in Calls
         /\ p \in Calls => st[p].obj = p
         /\ pc[p] = "undoing" => entry[p] \in Steps
<1>1. st[p] \in State /\ (p \in Calls => st[p].obj = p)
  BY DEF TypeInv, ControlOK, Procs
<1>2. st[p].obj \in Calls
  BY <1>1 DEF State
<1> QED
  BY <1>1, <1>2 DEF TypeInv, ControlOK

LEMMA ControlEnding ==
  ASSUME TypeInv, NEW p \in Procs,
         pc[p] \in {"unwind", "undoing", "failing"},
         pc'[p] \in {"unwind", "undoing", "failing", "done"},
         st'[p] \in State, st'[p].obj = st[p].obj,
         pc'[p] = "undoing" => entry'[p] \in Steps,
         \A q \in Procs : q # p => /\ pc'[q] = pc[q]
                                  /\ st'[q] = st[q]
                                  /\ entry'[q] = entry[q],
         frames' = frames
  PROVE  ControlOK'
<1>1. ControlOK
  BY DEF TypeInv
<1>2. CASE p \in Calls
  <2>1. FramesOK(p)'
    BY DEF FramesOK
  <2>2. st'[p].obj = p
    BY <1>2, StateOfEnding
  <2> QED
    BY <1>1, <1>2, <2>1, <2>2, ControlStart DEF StartLocations
<1>3. CASE p \in Decisions
  BY <1>1, <1>3, ControlDecision DEF DecisionLocations
<1> QED
  BY <1>2, <1>3 DEF Procs

\* The front of a stack, and its last element.
LEMMA PopType ==
  ASSUME NEW S, NEW q \in Seq(S), Len(q) > 0
  PROVE  /\ Len(q) \in Nat \ {0}
         /\ q[Len(q)] \in S
         /\ SubSeq(q, 1, Len(q) - 1) \in Seq(S)
         /\ Len(SubSeq(q, 1, Len(q) - 1)) = Len(q) - 1
         /\ \A i \in 1 .. Len(q) - 1 : SubSeq(q, 1, Len(q) - 1)[i] = q[i]
<1> DEFINE n == Len(q)
           f == SubSeq(q, 1, n - 1)
<1>1. n \in Nat \ {0} /\ q[n] \in S
  BY LenProperties, ElementOfSeq
<1>2. n - 1 \in Int /\ 1 \in Int /\ (n - 1) - 1 + 1 = n - 1
  BY <1>1
<1>3. \A i \in 1 .. n - 1 : q[i] \in S
  <2>1. \A i \in 1 .. n - 1 : i \in 1 .. Len(q)
    BY <1>1
  <2> QED
    BY <2>1, ElementOfSeq
<1>4. /\ f \in Seq(S) /\ Len(f) = IF 1 <= n - 1 THEN (n - 1) - 1 + 1 ELSE 0
      /\ \A i \in 1 .. (n - 1) - 1 + 1 : f[i] = q[1 + i - 1]
  BY <1>2, <1>3, SubSeqProperties
<1>5. Len(f) = n - 1 /\ \A i \in 1 .. n - 1 : f[i] = q[i]
  BY <1>1, <1>2, <1>4
<1> QED
  BY <1>1, <1>4, <1>5

LEMMA UnwindType ==
  ASSUME TypeInv, NEW p \in Procs, Unwind(p)
  PROVE  TypeInv'
<1> DEFINE s == st[p].obj
           n == Len(stack[s])
           x == [st[p] EXCEPT !.status = "failed"]
<1>1. /\ TypeOK
      /\ st[p] \in State /\ s \in Calls
      /\ UNCHANGED <<frames, attempt, history, tools, done, undoOk, closing>>
      /\ pc[p] = "unwind"
  BY StateOfEnding DEF TypeInv, Unwind
<1>2. CASE /\ n > 0
           /\ stack' = [stack EXCEPT ![s] = SubSeq(@, 1, n - 1)]
           /\ entry' = [entry EXCEPT ![p] = stack[s][n]]
           /\ undone' = [undone EXCEPT ![s] = Append(@, stack[s][n])]
           /\ Goto(p, "undoing")
           /\ UNCHANGED <<st, store>>
  <2>1. stack[s] \in Seq(Steps) /\ undone[s] \in Seq(Steps)
    BY <1>1 DEF TypeOK
  <2>2. SubSeq(stack[s], 1, n - 1) \in Seq(Steps) /\ stack[s][n] \in Steps
    BY <1>2, <2>1, PopType
  <2>3. Append(undone[s], stack[s][n]) \in Seq(Steps)
    BY <2>1, <2>2, AppendProperties
  <2>4. /\ pc' \in [Procs -> Locations]
        /\ pc'[p] = "undoing"
        /\ \A q \in Procs : q # p => pc'[q] = pc[q]
    BY <1>1, <1>2, GotoType DEF Locations
  <2> HIDE DEF n, s
  <2>5. stack' \in [Calls -> Seq(Steps)] /\ undone' \in [Calls -> Seq(Steps)]
    BY <1>1, <1>2, <2>2, <2>3 DEF TypeOK
  <2>6. /\ entry' \in [Procs -> Steps \cup {NoStep}]
        /\ entry'[p] \in Steps
        /\ \A q \in Procs : q # p => entry'[q] = entry[q]
    BY <1>1, <1>2, <2>2 DEF TypeOK
  <2>7. TypeOK'
    BY <1>1, <1>2, <2>4, <2>5, <2>6 DEF TypeOK, tools
  <2>8. ControlOK'
    BY <1>1, <1>2, <2>4, <2>6, ControlEnding
  <2> QED
    BY <2>7, <2>8 DEF TypeInv
<1>3. CASE /\ Put(p, x)
           /\ Goto(p, "failing")
           /\ UNCHANGED <<stack, entry, undone>>
  <2>1. x \in State /\ x.obj = s
    BY <1>1 DEF State, Statuses
  <2>2. /\ pc' \in [Procs -> Locations]
        /\ pc'[p] = "failing"
        /\ \A q \in Procs : q # p => pc'[q] = pc[q]
    BY <1>1, <1>3, GotoType DEF Locations
  <2> HIDE DEF x
  <2>3. /\ st' \in [Procs -> State \cup {NoState}]
        /\ store' \in [RunIds -> State \cup {NoState}]
        /\ st'[p] = x
        /\ \A q \in Procs : q # p => st'[q] = st[q]
    BY <1>1, <1>3, <2>1, PutType
  <2>4. TypeOK'
    BY <1>1, <1>3, <2>2, <2>3 DEF TypeOK, tools
  <2>5. ControlOK'
    BY <1>1, <1>3, <2>1, <2>2, <2>3, ControlEnding
  <2> QED
    BY <2>4, <2>5 DEF TypeInv
<1> QED
  BY <1>2, <1>3 DEF Unwind

\* What the two answers of a compensation tool have in common.
LEMMA UndoneType ==
  ASSUME TypeInv, NEW p \in Procs, Undone(p),
         history' \in [Calls -> Seq(StepRecord)],
         undoOk' \in [Calls -> SUBSET Steps]
  PROVE  TypeInv'
<1>1. /\ TypeOK
      /\ st[p] \in State /\ pc[p] = "undoing"
      /\ Put(p, st[p]) /\ Goto(p, "unwind")
      /\ entry' = [entry EXCEPT ![p] = NoStep]
      /\ UNCHANGED <<frames, attempt, stack, tools, done, undone, closing>>
  BY StateOfEnding DEF TypeInv, Undone
<1>2. /\ pc' \in [Procs -> Locations]
      /\ pc'[p] = "unwind"
      /\ \A q \in Procs : q # p => pc'[q] = pc[q]
  BY <1>1, GotoType DEF Locations
<1>3. /\ st' \in [Procs -> State \cup {NoState}]
      /\ store' \in [RunIds -> State \cup {NoState}]
      /\ st'[p] = st[p]
      /\ \A q \in Procs : q # p => st'[q] = st[q]
  BY <1>1, PutType
<1>4. /\ entry' \in [Procs -> Steps \cup {NoStep}]
      /\ \A q \in Procs : q # p => entry'[q] = entry[q]
  BY <1>1 DEF TypeOK
<1>5. TypeOK'
  BY <1>1, <1>2, <1>3, <1>4 DEF TypeOK, tools
<1>6. ControlOK'
  BY <1>1, <1>2, <1>3, <1>4, ControlEnding
<1> QED
  BY <1>5, <1>6 DEF TypeInv

LEMMA MarkType ==
  ASSUME NEW h \in Seq(StepRecord), NEW x \in Steps
  PROVE  Mark(h, x) \in Seq(StepRecord)
<1> DEFINE n == Len(h)
           g(i) == IF h[i].step = x /\ \A j \in 1 .. i - 1 : h[j].step # x
                     THEN [h[i] EXCEPT !.outcome = "compensated"]
                     ELSE h[i]
<1>1. n \in Nat /\ DOMAIN h = 1 .. n
  BY LenProperties
<1>2. \A i \in 1 .. n : g(i) \in StepRecord
  <2>1. \A e \in StepRecord : [e EXCEPT !.outcome = "compensated"] \in StepRecord
    BY DEF StepRecord
  <2>2. \A i \in 1 .. n : h[i] \in StepRecord
    BY ElementOfSeq
  <2> QED
    BY <2>1, <2>2
<1>3. Mark(h, x) = [i \in 1 .. n |-> g(i)]
  BY <1>1 DEF Mark
<1> HIDE DEF g
<1>4. [i \in 1 .. n |-> g(i)] \in [1 .. n -> StepRecord]
  BY <1>2
<1> HIDE DEF n
<1> QED
  BY <1>1, <1>3, <1>4

LEMMA UndoOkType ==
  ASSUME TypeInv, NEW p \in Procs, UndoOk(p)
  PROVE  TypeInv'
<1> DEFINE s == st[p].obj
<1>1. /\ TypeOK /\ Undone(p) /\ s \in Calls /\ entry[p] \in Steps
      /\ history' = [history EXCEPT ![s] = Mark(@, entry[p])]
      /\ undoOk' = [undoOk EXCEPT ![s] = @ \cup {entry[p]}]
  BY StateOfEnding DEF TypeInv, UndoOk, Undone
<1> HIDE DEF s
<1>2. Mark(history[s], entry[p]) \in Seq(StepRecord)
  BY <1>1, MarkType DEF TypeOK
<1>3. history' \in [Calls -> Seq(StepRecord)]
  BY <1>1, <1>2 DEF TypeOK
<1>4. undoOk' \in [Calls -> SUBSET Steps]
  BY <1>1 DEF TypeOK
<1> QED
  BY <1>1, <1>3, <1>4, UndoneType

LEMMA UndoErrorType ==
  ASSUME TypeInv, NEW p \in Procs, UndoError(p)
  PROVE  TypeInv'
<1>1. /\ Undone(p)
      /\ history' \in [Calls -> Seq(StepRecord)]
      /\ undoOk' \in [Calls -> SUBSET Steps]
  BY DEF UndoError, TypeInv, TypeOK
<1> QED
  BY <1>1, UndoneType

LEMMA FailingType ==
  ASSUME TypeInv, NEW p \in Procs, Failing(p)
  PROVE  TypeInv'
<1>1. /\ TypeOK /\ st[p] \in State /\ pc[p] = "failing"
      /\ Emit(p, "workflow.failed") /\ Goto(p, "done")
      /\ UNCHANGED <<st, store, frames, attempt, shared, entry, tools, logs>>
  BY StateOfEnding DEF TypeInv, Failing
<1>2. /\ pc' \in [Procs -> Locations]
      /\ pc'[p] = "done"
      /\ \A q \in Procs : q # p => pc'[q] = pc[q]
  BY <1>1, GotoType DEF Locations
<1>3. closing' \in [RunIds -> Seq({"workflow.completed", "workflow.failed"})]
  BY <1>1, EmitType
<1>4. TypeOK'
  BY <1>1, <1>2, <1>3 DEF TypeOK, shared, tools, logs
<1>5. ControlOK'
  BY <1>1, <1>2, ControlEnding
<1> QED
  BY <1>4, <1>5 DEF TypeInv

-----------------------------------------------------------------------------

(* Each step of a decision keeps the types. *)

\* A decision, once it has read the state.
LEMMA StateOfDecision ==
  ASSUME TypeInv, NEW d \in Decisions, pc[d] \notin {"idle", "refused"}
  PROVE  st[d] \in State /\ d \in Procs
BY DEF TypeInv, ControlOK, Procs

LEMMA RecordType ==
  ASSUME TypeInv, NEW d \in Decisions, st[d] \in State,
         NEW outcome \in {"completed", "rejected"},
         Record(d, outcome)
  PROVE  history' \in [Calls -> Seq(StepRecord)]
<1>1. history \in [Calls -> Seq(StepRecord)] /\ TypeOK
  BY DEF TypeInv, TypeOK
<1>2. CASE st[d].cur = NoStep
  BY <1>1, <1>2 DEF Record
<1>3. CASE st[d].cur # NoStep
  <2>1. st[d].obj \in Calls /\ st[d].cur \in Steps
    BY <1>3 DEF State
  <2>2. Push(st[d].obj, st[d].cur, outcome)
    BY <1>3 DEF Record, Push
  <2> QED
    BY <1>1, <2>1, <2>2, PushType
<1> QED
  BY <1>2, <1>3

\* A decision that saves a new status: whatever else changes is the history.
LEMMA SaveType ==
  ASSUME TypeInv, NEW d \in Decisions, NEW x \in State,
         NEW l \in {"approving", "approved", "unwind"},
         Put(d, x), Goto(d, l),
         history' \in [Calls -> Seq(StepRecord)],
         UNCHANGED <<frames, attempt, stack, entry, tools, logs, closing>>
  PROVE  TypeInv'
<1>1. TypeOK /\ ControlOK /\ d \in Procs
  BY DEF TypeInv, Procs
<1>2. /\ st' \in [Procs -> State \cup {NoState}]
      /\ store' \in [RunIds -> State \cup {NoState}]
      /\ st'[d] = x
      /\ \A q \in Procs : q # d => st'[q] = st[q]
  BY <1>1, PutType
<1>3. /\ pc' \in [Procs -> Locations]
      /\ pc'[d] = l
      /\ \A q \in Procs : q # d => pc'[q] = pc[q]
  <2>1. l \in Locations
    BY DEF Locations
  <2> QED
    BY <1>1, <2>1, GotoType
<1>4. TypeOK'
  <2>1. UNCHANGED <<frames, attempt, stack, entry, effects, late, done, undone, undoOk, closing>>
    BY DEF tools, logs
  <2> QED
    BY <1>1, <1>2, <1>3, <2>1 DEF TypeOK
<1>5. ControlOK'
  BY <1>1, <1>2, <1>3, ControlDecision DEF DecisionLocations
<1> QED
  BY <1>4, <1>5 DEF TypeInv

LEMMA DecideType ==
  ASSUME TypeInv, NEW d \in Decisions, NEW kind \in {"approve", "reject"},
         Decide(d, kind)
  PROVE  TypeInv'
<1>1. /\ TypeOK /\ ControlOK /\ d \in Procs
      /\ UNCHANGED <<store, frames, attempt, shared, entry, tools, logs, closing>>
  BY DEF TypeInv, Procs, Decide
<1>2. PICK r \in RunIds :
        \/ /\ store[r] # NoState
           /\ st' = [st EXCEPT ![d] = store[r]]
           /\ Goto(d, kind)
        \/ /\ store[r] = NoState
           /\ Goto(d, "refused")
           /\ UNCHANGED st
  BY DEF Decide
<1>3. store[r] \in State \cup {NoState}
  BY <1>1 DEF TypeOK
<1>4. /\ pc' \in [Procs -> Locations]
      /\ pc'[d] \in {kind, "refused"}
      /\ \A q \in Procs : q # d => pc'[q] = pc[q]
  <2>1. CASE Goto(d, kind)
    <3>1. kind \in Locations
      BY DEF Locations
    <3> QED
      BY <1>1, <2>1, <3>1, GotoType
  <2>2. CASE Goto(d, "refused")
    BY <1>1, <2>2, GotoType DEF Locations
  <2> QED
    BY <1>2, <2>1, <2>2
<1>5. /\ st' \in [Procs -> State \cup {NoState}]
      /\ \A q \in Procs : q # d => st'[q] = st[q]
      /\ pc'[d] # "refused" => st'[d] \in State
  <2>1. st \in [Procs -> State \cup {NoState}] /\ pc \in [Procs -> Locations]
    BY <1>1 DEF TypeOK
  <2>2. CASE st' = [st EXCEPT ![d] = store[r]] /\ store[r] # NoState
    BY <1>1, <1>3, <2>1, <2>2
  <2>3. CASE Goto(d, "refused") /\ UNCHANGED st
    BY <1>1, <2>1, <2>3 DEF Goto
  <2> QED
    BY <1>2, <2>2, <2>3
<1>6. TypeOK'
  BY <1>1, <1>4, <1>5 DEF TypeOK, shared, tools, logs
<1>7. ControlOK'
  BY <1>1, <1>4, <1>5, ControlDecision DEF DecisionLocations
<1> QED
  BY <1>6, <1>7 DEF TypeInv

\* A decision that moves on without touching its state.
LEMMA LeaveType ==
  ASSUME TypeInv, NEW d \in Decisions, NEW l \in {"refused", "done"},
         pc[d] \notin {"idle", "refused"}, Goto(d, l),
         closing' \in [RunIds -> Seq({"workflow.completed", "workflow.failed"})],
         UNCHANGED <<st, store, frames, attempt, shared, entry, tools, logs>>
  PROVE  TypeInv'
<1>1. TypeOK /\ ControlOK /\ d \in Procs /\ st[d] \in State
  BY StateOfDecision DEF TypeInv
<1>2. /\ pc' \in [Procs -> Locations]
      /\ pc'[d] = l
      /\ \A q \in Procs : q # d => pc'[q] = pc[q]
  BY <1>1, GotoType DEF Locations
<1>3. TypeOK'
  BY <1>1, <1>2 DEF TypeOK, shared, tools, logs
<1>4. ControlOK'
  BY <1>1, <1>2, ControlDecision DEF DecisionLocations
<1> QED
  BY <1>3, <1>4 DEF TypeInv

LEMMA RefuseType ==
  ASSUME TypeInv, NEW d \in Decisions, Refuse(d)
  PROVE  TypeInv'
<1>1. /\ pc[d] \notin {"idle", "refused"} /\ Goto(d, "refused")
      /\ closing' \in [RunIds -> Seq({"workflow.completed", "workflow.failed"})]
      /\ UNCHANGED <<st, store, frames, attempt, shared, entry, tools, logs>>
  BY DEF Refuse, TypeInv, TypeOK
<1> QED
  BY <1>1, LeaveType

LEMMA ApprovedDoneType ==
  ASSUME TypeInv, NEW d \in Decisions, ApprovedDone(d)
  PROVE  TypeInv'
<1>1. /\ pc[d] \notin {"idle", "refused"} /\ Goto(d, "done")
      /\ Emit(d, "workflow.completed")
      /\ UNCHANGED <<st, store, frames, attempt, shared, entry, tools, logs>>
  BY DEF ApprovedDone
<1>2. closing' \in [RunIds -> Seq({"workflow.completed", "workflow.failed"})]
  BY <1>1, StateOfDecision, EmitType DEF TypeInv
<1> QED
  BY <1>1, <1>2, LeaveType

LEMMA ApproveType ==
  ASSUME TypeInv, NEW d \in Decisions, Approve(d)
  PROVE  TypeInv'
<1> DEFINE x == [st[d] EXCEPT !.status = "running"]
<1>1. /\ pc[d] \notin {"idle", "refused"} /\ Goto(d, "approving") /\ Put(d, x)
      /\ UNCHANGED <<frames, attempt, stack, entry, tools, logs, closing>>
      /\ history' \in [Calls -> Seq(StepRecord)]
  BY DEF Approve, shared, TypeInv, TypeOK
<1>2. st[d] \in State
  BY <1>1, StateOfDecision
<1>3. x \in State
  BY <1>2 DEF State, Statuses
<1> HIDE DEF x
<1> QED
  BY <1>1, <1>3, SaveType

LEMMA ApprovedType ==
  ASSUME TypeInv, NEW d \in Decisions, Approved(d)
  PROVE  TypeInv'
<1> DEFINE x == [st[d] EXCEPT !.status = "completed", !.cur = NoStep]
<1>1. /\ pc[d] \notin {"idle", "refused"} /\ Goto(d, "approved") /\ Put(d, x)
      /\ UNCHANGED <<frames, attempt, stack, entry, tools, logs, closing>>
      /\ Record(d, "completed")
  BY DEF Approved
<1>2. st[d] \in State
  BY <1>1, StateOfDecision
<1>3. x \in State
  BY <1>2 DEF State, Statuses
<1>4. history' \in [Calls -> Seq(StepRecord)]
  BY <1>1, <1>2, RecordType
<1> HIDE DEF x
<1> QED
  BY <1>1, <1>3, <1>4, SaveType

LEMMA RejectType ==
  ASSUME TypeInv, NEW d \in Decisions, Reject(d)
  PROVE  TypeInv'
<1> DEFINE x == [st[d] EXCEPT !.status = "compensating"]
<1>1. /\ pc[d] \notin {"idle", "refused"} /\ Goto(d, "unwind") /\ Put(d, x)
      /\ UNCHANGED <<frames, attempt, stack, entry, tools, logs, closing>>
      /\ Record(d, "rejected")
  BY DEF Reject
<1>2. st[d] \in State
  BY <1>1, StateOfDecision
<1>3. x \in State
  BY <1>2 DEF State, Statuses
<1>4. history' \in [Calls -> Seq(StepRecord)]
  BY <1>1, <1>2, RecordType
<1> HIDE DEF x
<1> QED
  BY <1>1, <1>3, <1>4, SaveType

-----------------------------------------------------------------------------

LEMMA TypeInit == Init => TypeInv
<1> SUFFICES ASSUME Init PROVE TypeOK /\ ControlOK
  BY DEF TypeInv
<1>1. TypeOK
  BY DEF Init, TypeOK, Locations
<1>2. ControlOK
  BY DEF Init, ControlOK, FramesOK, StartLocations, DecisionLocations, Procs
<1> QED
  BY <1>1, <1>2

LEMMA TypeStep == TypeInv /\ [Next]_vars => TypeInv'
<1> SUFFICES ASSUME TypeInv, [Next]_vars PROVE TypeInv'
  OBVIOUS
<1>1. ASSUME NEW s \in Calls, Start(s) \/ Timer(s) \/ Answer(s)
      PROVE  TypeInv'
  BY <1>1, StartType, TimeoutType, RetryType, ToolOkType, ToolErrorType
  DEF Timer, Answer
<1>2. ASSUME NEW s \in Calls, NEW x \in Steps, LateAnswer(s, x)
      PROVE  TypeInv'
  BY <1>2, LateAnswerType
<1>3. ASSUME NEW d \in Decisions, NEW kind \in {"approve", "reject"}, Decide(d, kind)
      PROVE  TypeInv'
  BY <1>3, DecideType
<1>4. ASSUME NEW p \in Procs, Segment(p) \/ UndoAnswer(p)
      PROVE  TypeInv'
  <2>1. CASE p \in Calls /\
               (Begin(p) \/ Advance(p) \/ Deny(p) \/ Park(p) \/ Parked(p)
                 \/ CallTool(p) \/ Branch(p) \/ Finish(p))
    BY <2>1, BeginType, AdvanceType, DenyType, ParkType, ParkedType,
       CallToolType, BranchType, FinishType
  <2>2. CASE p \in Decisions /\
               (Refuse(p) \/ Approve(p) \/ Approved(p) \/ ApprovedDone(p) \/ Reject(p))
    BY <2>2, RefuseType, ApproveType, ApprovedType, ApprovedDoneType, RejectType
  <2>3. CASE Unwind(p) \/ Failing(p) \/ UndoAnswer(p)
    BY <2>3, UnwindType, FailingType, UndoOkType, UndoErrorType DEF UndoAnswer
  <2> QED
    BY <1>4, <2>1, <2>2, <2>3 DEF Segment
<1>5. CASE UNCHANGED vars
  BY <1>5 DEF TypeInv, TypeOK, ControlOK, FramesOK, InBlock,
     vars, control, shared, tools, logs
<1> QED
  BY <1>1, <1>2, <1>3, <1>4, <1>5 DEF Next

\* Every variable keeps its type, whatever the workflow, the number of calls
\* and the interleaving of their segments: in particular every step that the
\* nested loops of executeSteps() announce is a step of their block, and
\* compensate() always has a step in hand when it calls a compensation tool.
THEOREM TypeCorrect == Spec => []TypeOK
<1>1. TypeInv => TypeOK
  BY DEF TypeInv
<1> QED
  BY <1>1, TypeInit, TypeStep, PTL DEF Spec
=============================================================================
