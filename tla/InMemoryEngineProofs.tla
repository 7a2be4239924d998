------------------------- MODULE InMemoryEngineProofs -------------------------
(***************************************************************************)
(* Theorems about InMemoryEngine, for every workflow, every answer of its  *)
(* registries, tools and policies, and any number of calls.                *)
(***************************************************************************)
EXTENDS InMemoryEngine, FiniteSetTheorems, TLAPS

AtStep == {"lookup", "calling", "fetching", "evaluating", "parking", "pausing"}

\* Call p may still write its run: it executes a step, or is about to run the
\* tail of _executeFrom().
Busy(p) == pc[p] \in {"lookup", "calling", "fetching", "evaluating", "returning"}

\* Who is at work has a run that was started, and a step to work at.
Owned ==
  \A p \in Procs :
    /\ pc[p] \notin {"idle", "refused"} => run[p] \in Calls /\ pc[run[p]] # "idle"
    /\ pc[p] \in AtStep => at[p] \in Steps

\* A run that was not started is as it was made, and one that was is not.
Fresh ==
  \A c \in Calls :
    /\ pc[c] = "idle" => runs[c].pending = NoId
    /\ pc[c] = "idle" <=> runs[c].status = "none"

\* Only the call whose policy parked a run is still about when others resume it.
Alone ==
  /\ \A p, q \in Procs : p # q /\ Busy(p) /\ Busy(q) /\ run[p] = run[q] => Asked(run[p])
  /\ \A p \in Procs :
       /\ Busy(p) /\ runs[run[p]].status = "waiting_for_approval" => Asked(run[p])
       /\ pc[p] = "parking" => Asked(run[p])

EngineInv ==
  /\ TypeOK /\ Owned /\ Fresh /\ Alone
  /\ OneExecutor /\ WaitingIsIdle /\ UnaskedIsOver /\ DecidedOnce

-----------------------------------------------------------------------------
(* What a step may do *)

USE EngineAssumption

Move(p, r, l, x, n) ==
  /\ pc' = [pc EXCEPT ![p] = l]
  /\ run' = [run EXCEPT ![p] = r]
  /\ at' = [at EXCEPT ![p] = x]
  /\ runs' = [runs EXCEPT ![r] = n]
  /\ parks' = IF l \in {"parking", "pausing"} THEN [parks EXCEPT ![r] = @ + 1] ELSE parks

AskedIn(o) == \E i \in DOMAIN o.history : o.history[i].outcome = "waiting"

\* How often a run object was decided, and how often it is to be.
DecidedIn(o) ==
  Cardinality({i \in DOMAIN o.history : o.history[i].outcome \in {"approved", "rejected"}})

Due(o) == IF o.status = "waiting_for_approval" THEN 1 ELSE 0

Works(l, x) ==
  l \in {"lookup", "calling", "fetching", "evaluating"} \/ (l = "returning" /\ ~Ends(x))

\* From the run object o a call comes to l, at x, and leaves the object n.
Leads(o, l, x, n) ==
  /\ l \in AtStep \cup {"returning", "done"}
  /\ x \in Ids
  /\ n \in Run /\ n.status # "none"
  /\ l \in AtStep => x \in Steps
  /\ AskedIn(o) => AskedIn(n)
  /\ DecidedIn(n) = DecidedIn(o)
  /\ l = "parking" => AskedIn(n)
  /\ l \in {"parking", "pausing"} <=> n.status = "waiting_for_approval"
  /\ l \in {"parking", "pausing"} => n.pending \in Steps
  /\ l \notin {"parking", "pausing"} => n.pending = o.pending
  /\ Works(l, x) => n.status = o.status

\* Call p has run r to itself, in the state o.
Owns(p, r, o) ==
  /\ r \in Calls
  /\ r = p \/ pc[r] # "idle"
  /\ r = p \/ p \notin Calls \/ pc[p] # "idle"
  /\ o \in Run
  /\ o.pending = NoId
  /\ o.status \in {"running", "completed", "failed"}
  /\ AskedIn(runs[r]) => AskedIn(o)
  /\ DecidedIn(o) = DecidedIn(runs[r]) + Due(runs[r])
  /\ o.status = "running" \/ AskedIn(o)
  /\ Settled(r) => Asked(r)
  /\ \A q \in Procs \ {p} :
       run[q] = r => /\ ~Executing(q)
                     /\ Busy(q) => AskedIn(runs[r])

\* Call p comes to its end after the run was parked or settled.
Trails(p, l, x, n) ==
  /\ run[p] \in Calls /\ pc[run[p]] # "idle"
  /\ x \in Ids
  /\ \/ pc[p] = "returning" /\ Ends(at[p]) /\ l = "done"
     \/ pc[p] = "parking" /\ l = "returning" /\ Ends(x)
     \/ pc[p] = "pausing" /\ l = "done"
  /\ \/ n = runs[run[p]]
     \/ /\ runs[run[p]].status = "running"
        /\ pc[p] = "returning"
        /\ n = [runs[run[p]] EXCEPT !.status = "completed"]

\* What a step may not do to a run that is over.
Closed == \A r \in Calls : Settled(r) /\ ~Asked(r) => runs'[r] = runs[r]

LEMMA AskedDef == ASSUME NEW r \in Calls PROVE Asked(r) <=> AskedIn(runs[r])
BY DEF Asked, AskedIn

LEMMA DecidedDef ==
  DecidedOnce <=> \A r \in Calls : parks[r] = DecidedIn(runs[r]) + Due(runs[r])
BY DEF DecidedOnce, Decisions, DecidedIn, Due

LEMMA DecidedNext ==
  DecidedOnce' <=> \A r \in Calls : parks'[r] = DecidedIn(runs'[r]) + Due(runs'[r])
BY DEF DecidedOnce, Decisions, DecidedIn, Due

LEMMA DecidedNat == ASSUME NEW o \in Run PROVE DecidedIn(o) \in Nat /\ Due(o) \in Nat
<1> DEFINE D == {i \in DOMAIN o.history : o.history[i].outcome \in {"approved", "rejected"}}
<1>1. /\ DOMAIN o.history = 1 .. Len(o.history)
      /\ Len(o.history) \in Nat
  BY DEF Run
<1>2. IsFiniteSet(1 .. Len(o.history))
  BY <1>1, FS_Interval
<1>3. IsFiniteSet(D)
  BY <1>1, <1>2, FS_Subset
<1> QED
  BY <1>3, FS_CardinalityType DEF DecidedIn, Due

LEMMA AskedNext ==
  ASSUME NEW r \in Calls PROVE Asked(r)' <=> AskedIn(runs'[r])
BY DEF Asked, AskedIn

LEMMA ExecutingDef == ASSUME NEW p \in Procs PROVE Executing(p) <=> Works(pc[p], at[p])
BY DEF Executing, Works

LEMMA ExecutingNext ==
  ASSUME NEW p \in Procs PROVE Executing(p)' <=> Works(pc'[p], at'[p])
BY DEF Executing, Works

\* A call that has a run to itself leaves it in order.
LEMMA OwnedMove ==
  ASSUME EngineInv, NEW p \in Procs, NEW r, NEW o, NEW l, NEW x, NEW n,
         Owns(p, r, o), Leads(o, l, x, n), Move(p, r, l, x, n)
  PROVE  EngineInv' /\ Closed
<1> USE DEF EngineInv
<1>1. /\ pc'[p] = l /\ run'[p] = r /\ at'[p] = x /\ runs'[r] = n
      /\ \A q \in Procs \ {p} : pc'[q] = pc[q] /\ run'[q] = run[q] /\ at'[q] = at[q]
      /\ \A c \in Calls \ {r} : runs'[c] = runs[c]
      /\ r \in Calls /\ n \in Run
  BY DEF Move, TypeOK, Owns, Leads
<1>2. TypeOK'
  BY DEF TypeOK, Move, Leads, Owns, AtStep
<1>3. \A q \in Procs \ {p} : /\ Executing(q)' <=> Executing(q)
                             /\ Busy(q)' <=> Busy(q)
  BY <1>1 DEF Executing, Busy
<1>4. Executing(p)' <=> Works(l, x)
  BY <1>1, ExecutingNext
<1>5. \A q \in Procs \ {p} :
        run[q] = r => ~Executing(q)' /\ (Busy(q) => Asked(r))
  BY <1>3, AskedDef DEF Owns
<1>6. \A c \in Calls : Asked(c) => AskedIn(runs'[c])
  BY <1>1, AskedDef DEF Leads, Owns
<1>7. Owned'
  <2>1. pc'[r] # "idle"
    BY <1>1 DEF Leads, Owns, AtStep, Procs
  <2>2. \A c \in Calls : pc[c] # "idle" => pc'[c] # "idle"
    BY <1>1 DEF Leads, AtStep, Procs
  <2> QED
    BY <1>1, <2>1, <2>2 DEF Owned, Leads, AtStep
<1>8. Fresh'
  <2>1. \A c \in Calls : pc'[c] = "idle" <=> pc[c] = "idle" /\ c # r
    BY <1>1 DEF Leads, Owns, AtStep, Procs
  <2> QED
    BY <1>1, <2>1 DEF Fresh, Leads
<1>9. OneExecutor'
  <2> SUFFICES ASSUME NEW a \in Procs, NEW b \in Procs,
                      Executing(a)', Executing(b)', run'[a] = run'[b]
               PROVE  a = b
    BY DEF OneExecutor
  <2>1. CASE a = p \/ b = p
    BY <1>1, <1>5, <2>1
  <2>2. CASE a # p /\ b # p
    BY <1>1, <1>3, <2>2 DEF OneExecutor
  <2> QED
    BY <2>1, <2>2
<1>10. WaitingIsIdle'
  <2> SUFFICES ASSUME NEW c \in Calls
               PROVE  /\ runs'[c].status = "waiting_for_approval" <=> runs'[c].pending # NoId
                      /\ runs'[c].status = "waiting_for_approval" =>
                           \A q \in Procs : ~(Executing(q)' /\ run'[q] = c)
    BY DEF WaitingIsIdle
  <2>1. CASE c = r
    <3>1. n.status = "waiting_for_approval" <=> n.pending # NoId
      BY DEF Leads, Owns
    <3>2. n.status = "waiting_for_approval" => ~Works(l, x)
      BY DEF Leads, Works
    <3> QED
      BY <1>1, <1>4, <1>5, <2>1, <3>1, <3>2
  <2>2. CASE c # r
    BY <1>1, <1>3, <2>2 DEF WaitingIsIdle
  <2> QED
    BY <2>1, <2>2
<1>11. UnaskedIsOver'
  <2> SUFFICES ASSUME NEW q \in Procs, Executing(q)', ~AskedIn(runs'[run'[q]])
               PROVE  ~(runs'[run'[q]].status \in {"completed", "failed"})
    BY DEF UnaskedIsOver, Asked, AskedIn, Settled
  <2>1. CASE q = p
    <3>1. ~AskedIn(n)
      BY <1>1, <2>1
    <3>2. n.status = "running"
      BY <1>4, <2>1, <3>1 DEF Leads, Owns
    <3> QED
      BY <1>1, <2>1, <3>2 DEF Settled
  <2>2. CASE q # p
    <3>1. run[q] \in Calls /\ run'[q] = run[q] /\ Executing(q)
      BY <1>1, <1>3, <2>2 DEF Owned, Executing
    <3>2. run[q] # r
      BY <1>5, <2>2
    <3>3. ~Asked(run[q])
      BY <1>6, <3>1
    <3> QED
      BY <1>1, <3>1, <3>2, <3>3 DEF UnaskedIsOver, Settled
  <2> QED
    BY <2>1, <2>2
<1>12. Alone'
  <2>1. ASSUME NEW a \in Procs, NEW b \in Procs, a # b, Busy(a)', Busy(b)', run'[a] = run'[b]
        PROVE  AskedIn(runs'[run'[a]])
    <3>1. CASE a # p /\ b # p
      <4>1. run[a] \in Calls /\ Busy(a) /\ Busy(b) /\ run[a] = run[b] /\ run'[a] = run[a]
        BY <1>1, <1>3, <2>1, <3>1 DEF Owned, Busy
      <4> QED
        BY <1>6, <2>1, <4>1 DEF Alone
    <3>2. CASE a = p \/ b = p
      <4>1. run'[a] = r /\ Asked(r)
        BY <1>1, <1>3, <1>5, <2>1, <3>2
      <4> QED
        BY <1>1, <1>6, <4>1
    <3> QED
      BY <3>1, <3>2
  <2>2. ASSUME NEW a \in Procs, Busy(a)', runs'[run'[a]].status = "waiting_for_approval"
        PROVE  AskedIn(runs'[run'[a]])
    <3>1. CASE a = p
      BY <1>1, <2>2, <3>1 DEF Leads, Busy
    <3>2. CASE a # p
      <4>1. run[a] \in Calls /\ Busy(a) /\ run'[a] = run[a]
        BY <1>1, <1>3, <2>2, <3>2 DEF Owned, Busy
      <4>2. CASE run[a] = r
        BY <1>5, <1>6, <3>2, <4>1, <4>2
      <4>3. CASE run[a] # r
        BY <1>1, <1>6, <2>2, <4>1, <4>3 DEF Alone
      <4> QED
        BY <4>2, <4>3
    <3> QED
      BY <3>1, <3>2
  <2>3. ASSUME NEW a \in Procs, pc'[a] = "parking"
        PROVE  AskedIn(runs'[run'[a]])
    <3>1. CASE a = p
      BY <1>1, <2>3, <3>1 DEF Leads
    <3>2. CASE a # p
      <4>1. run[a] \in Calls /\ pc[a] = "parking" /\ run'[a] = run[a]
        BY <1>1, <2>3, <3>2 DEF Owned
      <4> QED
        BY <1>6, <4>1 DEF Alone
    <3> QED
      BY <3>1, <3>2
  <2> QED
    BY <2>1, <2>2, <2>3 DEF Alone, Asked, AskedIn
<1>13. Closed
  BY <1>1 DEF Closed, Owns
<1>14. DecidedOnce'
  <2> SUFFICES ASSUME NEW c \in Calls PROVE parks'[c] = DecidedIn(runs'[c]) + Due(runs'[c])
    BY DecidedNext
  <2>1. /\ parks[c] = DecidedIn(runs[c]) + Due(runs[c])
        /\ DecidedIn(runs[c]) \in Nat /\ Due(runs[c]) \in Nat
    BY DecidedDef, DecidedNat DEF TypeOK
  <2>2. CASE c = r
    <3>1. DecidedIn(n) = parks[c] /\ parks[c] \in Nat
      BY <2>1, <2>2 DEF Leads, Owns
    <3>2. parks'[c] = parks[c] + Due(n)
      BY <1>1, <2>2, <3>1 DEF Move, TypeOK, Leads, Due
    <3> QED
      BY <1>1, <2>2, <3>1, <3>2
  <2>3. CASE c # r
    <3>1. parks'[c] = parks[c] /\ runs'[c] = runs[c]
      BY <1>1, <2>3 DEF Move, TypeOK
    <3> QED
      BY <2>1, <3>1
  <2> QED
    BY <2>2, <2>3
<1> QED
  BY <1>2, <1>7, <1>8, <1>9, <1>10, <1>11, <1>12, <1>13, <1>14

\* A call that comes to its end leaves its run in order too.
LEMMA TrailingMove ==
  ASSUME EngineInv, NEW p \in Procs, NEW l, NEW x, NEW n,
         Trails(p, l, x, n), Move(p, run[p], l, x, n)
  PROVE  EngineInv' /\ Closed
<1> USE DEF EngineInv
<1> DEFINE r == run[p]
<1>1. /\ pc'[p] = l /\ run'[p] = r /\ at'[p] = x /\ runs'[r] = n
      /\ \A q \in Procs \ {p} : pc'[q] = pc[q] /\ run'[q] = run[q] /\ at'[q] = at[q]
      /\ \A c \in Calls \ {r} : runs'[c] = runs[c]
      /\ r \in Calls /\ pc[r] # "idle" /\ pc[p] # "idle"
      /\ \A q \in Procs : run'[q] = run[q]
  BY DEF Move, TypeOK, Trails
<1>2. /\ n \in Run /\ n.history = runs[r].history /\ n.pending = runs[r].pending
      /\ n.status = runs[r].status \/ (runs[r].status = "running" /\ n.status = "completed")
      /\ l \in {"returning", "done"} /\ x \in Ids /\ ~Works(l, x)
      /\ l = "returning" => pc[p] = "parking"
      /\ parks' = parks
  <2>1. parks' = parks
    BY DEF Move, Trails
  <2> QED
    BY <1>1, <2>1 DEF TypeOK, Trails, Run, Works
<1>3. TypeOK'
  BY <1>1, <1>2 DEF TypeOK, Move
<1>4. \A q \in Procs \ {p} : /\ Executing(q)' <=> Executing(q)
                             /\ Busy(q)' <=> Busy(q)
  BY <1>1 DEF Executing, Busy
<1>5. ~Executing(p)'
  BY <1>1, <1>2, ExecutingNext
<1>6. \A c \in Calls : AskedIn(runs'[c]) <=> Asked(c)
  BY <1>1, <1>2 DEF Asked, AskedIn
<1>7. Owned' /\ Fresh'
  <2>1. \A c \in Calls : pc'[c] = "idle" <=> pc[c] = "idle"
    BY <1>1, <1>2 DEF Procs
  <2>2. Owned'
    BY <1>1, <1>2, <2>1 DEF Owned, AtStep
  <2>3. Fresh'
    BY <1>1, <1>2, <2>1 DEF Fresh
  <2> QED
    BY <2>2, <2>3
<1>8. OneExecutor'
  BY <1>1, <1>4, <1>5 DEF OneExecutor
<1>9. WaitingIsIdle'
  BY <1>1, <1>2, <1>4, <1>5 DEF WaitingIsIdle
<1>10. UnaskedIsOver'
  <2> SUFFICES ASSUME NEW q \in Procs, Executing(q)', ~AskedIn(runs'[run'[q]])
               PROVE  ~(runs'[run'[q]].status \in {"completed", "failed"})
    BY DEF UnaskedIsOver, Asked, AskedIn, Settled
  <2>1. q # p /\ Executing(q) /\ run[q] \in Calls /\ ~Asked(run[q])
    BY <1>1, <1>4, <1>5, <1>6 DEF Owned, Executing
  <2>2. CASE run[q] = r /\ n # runs[r]
    <3>1. Busy(p) /\ Busy(q)
      BY <2>1, <2>2 DEF Trails, Busy, Executing
    <3> QED
      BY <2>1, <2>2, <3>1 DEF Alone
  <2>3. CASE run[q] # r \/ n = runs[r]
    BY <1>1, <2>1, <2>3 DEF UnaskedIsOver, Settled
  <2> QED
    BY <2>2, <2>3
<1>11. Alone'
  <2>1. Busy(p)' => Asked(r)
    BY <1>1, <1>2 DEF Busy, Alone
  <2>2. ASSUME NEW a \in Procs, NEW b \in Procs, a # b, Busy(a)', Busy(b)', run'[a] = run'[b]
        PROVE  AskedIn(runs'[run'[a]])
    <3>1. CASE a = p \/ b = p
      BY <1>1, <1>6, <2>1, <2>2, <3>1
    <3>2. CASE a # p /\ b # p
      <4>1. run[a] \in Calls /\ Busy(a) /\ Busy(b) /\ run[a] = run[b] /\ run'[a] = run[a]
        BY <1>1, <1>4, <2>2, <3>2 DEF Owned, Busy
      <4> QED
        BY <1>6, <2>2, <4>1 DEF Alone
    <3> QED
      BY <3>1, <3>2
  <2>3. ASSUME NEW a \in Procs, Busy(a)', runs'[run'[a]].status = "waiting_for_approval"
        PROVE  AskedIn(runs'[run'[a]])
    <3>1. CASE a = p
      BY <1>1, <1>6, <2>1, <2>3, <3>1
    <3>2. CASE a # p
      <4>1. run[a] \in Calls /\ Busy(a) /\ run'[a] = run[a]
        BY <1>1, <1>4, <2>3, <3>2 DEF Owned, Busy
      <4>2. runs[run[a]].status = "waiting_for_approval"
        BY <1>1, <1>2, <2>3, <4>1
      <4> QED
        BY <1>6, <4>1, <4>2 DEF Alone
    <3> QED
      BY <3>1, <3>2
  <2>4. ASSUME NEW a \in Procs, pc'[a] = "parking"
        PROVE  AskedIn(runs'[run'[a]])
    <3>1. a # p /\ pc[a] = "parking" /\ run'[a] = run[a] /\ run[a] \in Calls
      BY <1>1, <1>2, <2>4 DEF Owned
    <3> QED
      BY <1>6, <3>1 DEF Alone
  <2> QED
    BY <2>2, <2>3, <2>4 DEF Alone, Asked, AskedIn
<1>12. Closed
  BY <1>1, <1>2 DEF Closed, Settled, Trails
<1>13. DecidedOnce'
  <2> SUFFICES ASSUME NEW c \in Calls PROVE parks'[c] = DecidedIn(runs'[c]) + Due(runs'[c])
    BY DecidedNext
  <2>1. parks'[c] = DecidedIn(runs[c]) + Due(runs[c])
    BY <1>2, DecidedDef
  <2>2. runs'[c].history = runs[c].history
    BY <1>1, <1>2
  <2>3. Due(runs'[c]) = Due(runs[c])
    BY <1>1, <1>2 DEF Due
  <2> QED
    BY <2>1, <2>2, <2>3 DEF DecidedIn
<1> QED
  BY <1>3, <1>7, <1>8, <1>9, <1>10, <1>11, <1>12, <1>13

-----------------------------------------------------------------------------
(* The steps *)

RecordOutcomes == {"completed", "failed", "denied", "waiting", "approved", "rejected"}

\* A record is appended, and nothing that was recorded is lost.
LEMMA RecordedOk ==
  ASSUME NEW o \in Run, NEW x \in Steps, NEW outcome \in RecordOutcomes
  PROVE  LET n == Recorded(o, x, outcome) IN
         /\ n \in Run /\ n.status = o.status /\ n.pending = o.pending
         /\ AskedIn(o) => AskedIn(n)
         /\ outcome = "waiting" => AskedIn(n)
         /\ DecidedIn(n) = DecidedIn(o) + IF outcome \in {"approved", "rejected"} THEN 1 ELSE 0
<1> DEFINE n == Recorded(o, x, outcome)
<1> DEFINE e == [step |-> x, outcome |-> outcome]
<1>1. /\ n = [o EXCEPT !.history = Append(o.history, e)]
      /\ o.history \in Seq([step : Steps, outcome : RecordOutcomes])
      /\ e \in [step : Steps, outcome : RecordOutcomes]
  BY DEF Recorded, Run, RecordOutcomes
<1>2. n \in Run /\ n.status = o.status /\ n.pending = o.pending
  <2> DEFINE S == Seq([step : Steps, outcome : RecordOutcomes])
  <2> DEFINE h == Append(o.history, e)
  <2>1. h \in S
    BY <1>1
  <2>2. Run = [status  : {"none", "running", "waiting_for_approval", "completed", "failed"},
               pending : Steps \cup {NoId},
               history : S]
    BY DEF Run, RecordOutcomes
  <2> HIDE DEF S, e, h
  <2>3. n = [o EXCEPT !.history = h]
    BY <1>1 DEF h
  <2> HIDE DEF n
  <2> QED
    BY <2>1, <2>2, <2>3
<1>3. /\ n.history = Append(o.history, e)
      /\ DOMAIN n.history = 1 .. Len(o.history) + 1
      /\ DOMAIN o.history = 1 .. Len(o.history)
      /\ \A i \in DOMAIN o.history : n.history[i] = o.history[i]
      /\ n.history[Len(o.history) + 1] = e
      /\ Len(o.history) \in Nat
  BY <1>1 DEF Run
<1>4. AskedIn(o) => AskedIn(n)
  BY <1>3 DEF AskedIn
<1>5. outcome = "waiting" => AskedIn(n)
  <2> SUFFICES ASSUME outcome = "waiting" PROVE AskedIn(n)
    OBVIOUS
  <2>1. Len(o.history) + 1 \in DOMAIN n.history
    BY <1>3
  <2> QED
    BY <1>3, <2>1 DEF AskedIn
<1>6. DecidedIn(n) = DecidedIn(o) + IF outcome \in {"approved", "rejected"} THEN 1 ELSE 0
  <2> DEFINE D(h) == {i \in DOMAIN h : h[i].outcome \in {"approved", "rejected"}}
  <2> DEFINE k == Len(o.history) + 1
  <2>1. IsFiniteSet(D(o.history)) /\ k \notin D(o.history)
    <3>1. IsFiniteSet(1 .. Len(o.history))
      BY <1>3, FS_Interval
    <3> QED
      BY <1>3, <3>1, FS_Subset
  <2>2. D(n.history) = IF outcome \in {"approved", "rejected"}
                         THEN D(o.history) \cup {k} ELSE D(o.history)
    BY <1>3
  <2>3. Cardinality(D(o.history) \cup {k}) = Cardinality(D(o.history)) + 1
    BY <2>1, FS_AddElement
  <2>4. Cardinality(D(o.history)) \in Nat
    BY <2>1, FS_CardinalityType
  <2>5. DecidedIn(n) = Cardinality(D(n.history)) /\ DecidedIn(o) = Cardinality(D(o.history))
    BY DEF DecidedIn
  <2> HIDE DEF D, n, k
  <2> QED
    BY <2>2, <2>3, <2>4, <2>5
<1> QED
  BY <1>2, <1>4, <1>5, <1>6

\* The head of the loop, entered by a call that has its run to itself.
LEMMA ProceedMove ==
  ASSUME EngineInv, NEW p \in Procs, NEW r \in Calls, NEW o, NEW id \in Ids,
         Owns(p, r, o), Proceed(p, r, id, o)
  PROVE  EngineInv' /\ Closed
<1>1. o \in Run /\ o.status \in {"running", "completed", "failed"} /\ o.pending = NoId
  BY DEF Owns
<1>2. ASSUME NEW l, NEW x, NEW n, Leads(o, l, x, n), Wait(p, r, l, x), Save(r, n),
             parks' = IF l \in {"parking", "pausing"} THEN [parks EXCEPT ![r] = @ + 1] ELSE parks
      PROVE  EngineInv' /\ Closed
  BY <1>2, OwnedMove DEF Move, Wait, Save
<1>3. CASE id \in Steps /\ Enter(p, r, id, o)
  <2>1. OnSuccess[id] \in Ids /\ OnFailure[id] \in Ids
    BY <1>3
  <2>2. ASSUME Save(r, o), UNCHANGED parks, NEW l \in {"lookup", "fetching", "returning"},
               NEW x \in Ids, l \in AtStep => x \in Steps, Wait(p, r, l, x)
        PROVE  EngineInv' /\ Closed
    <3>1. Leads(o, l, x, o)
      BY <1>1, <2>2 DEF Leads, AtStep
    <3> QED
      BY <1>2, <2>2, <3>1
  <2>3. CASE Type[id] = "tool" /\ Save(r, o) /\ UNCHANGED parks
             /\ \/ Wait(p, r, "lookup", id) \/ Wait(p, r, "returning", OnFailure[id])
    BY <1>3, <2>1, <2>2, <2>3 DEF AtStep
  <2>4. CASE Type[id] = "policy" /\ Save(r, o) /\ UNCHANGED parks
             /\ \/ Wait(p, r, "fetching", id) \/ Wait(p, r, "returning", OnSuccess[id])
    BY <1>3, <2>1, <2>2, <2>4 DEF AtStep
  <2>5. CASE Wait(p, r, "pausing", id) /\ Pause(r, o, id)
    <3> DEFINE n == [o EXCEPT !.status = "waiting_for_approval", !.pending = id]
    <3>1. Leads(o, "pausing", id, n)
      BY <1>1, <1>3 DEF Leads, AtStep, Works, Run, AskedIn, DecidedIn, Ids
    <3> QED
      BY <1>2, <2>5, <3>1 DEF Pause
  <2>6. CASE Wait(p, r, "done", id) /\ UNCHANGED parks
             /\ Save(r, Ended(Recorded(o, id, "completed"), "completed"))
    <3> DEFINE m == Recorded(o, id, "completed")
    <3>1. /\ m \in Run /\ m.status = o.status /\ m.pending = o.pending
          /\ AskedIn(o) => AskedIn(m)
          /\ DecidedIn(m) = DecidedIn(o) + 0
      BY <1>1, <1>3, RecordedOk DEF RecordOutcomes
    <3>2. Leads(o, "done", id, Ended(m, "completed"))
      <4> HIDE DEF m
      <4>1. DecidedIn(m) = DecidedIn(o)
        BY <1>1, <3>1, DecidedNat
      <4> QED
        BY <1>1, <1>3, <3>1, <4>1 DEF Leads, AtStep, Works, Run, AskedIn, DecidedIn, Ids, Ended
    <3> QED
      BY <1>2, <2>6, <3>2
  <2>7. CASE Wait(p, r, "done", id) /\ UNCHANGED parks /\ Save(r, Ended(o, "failed"))
    <3>1. Leads(o, "done", id, Ended(o, "failed"))
      BY <1>1, <1>3 DEF Leads, AtStep, Works, Run, AskedIn, DecidedIn, Ids, Ended
    <3> QED
      BY <1>2, <2>7, <3>1
  <2> QED
    BY <1>3, <2>3, <2>4, <2>5, <2>6, <2>7 DEF Enter
<1>4. CASE /\ Wait(p, r, "done", id) /\ UNCHANGED parks
           /\ Save(r, Ended(o, "completed")) \/ Save(r, o)
  <2>1. Leads(o, "done", id, Ended(o, "completed")) /\ Leads(o, "done", id, o)
    BY <1>1 DEF Leads, AtStep, Works, Run, AskedIn, DecidedIn, Ended
  <2> QED
    BY <1>2, <1>4, <2>1
<1> QED
  BY <1>3, <1>4 DEF Proceed

\* A call that executes a step has its run to itself.
LEMMA ExecutorOwns ==
  ASSUME EngineInv, NEW p \in Procs, Executing(p)
  PROVE  Owns(p, run[p], runs[run[p]])
<1> USE DEF EngineInv
<1>1. run[p] \in Calls /\ pc[run[p]] # "idle" /\ pc[p] # "idle"
  BY DEF Owned, Executing
<1>2. /\ runs[run[p]] \in Run
      /\ runs[run[p]].status \in {"running", "completed", "failed"}
      /\ runs[run[p]].pending = NoId
  BY <1>1 DEF TypeOK, Run, WaitingIsIdle, Fresh
<1>3. Settled(run[p]) => Asked(run[p])
  BY DEF UnaskedIsOver
<1>4. \A q \in Procs \ {p} :
        run[q] = run[p] => ~Executing(q) /\ (Busy(q) => Asked(run[p]))
  BY DEF OneExecutor, Alone, Busy, Executing
<1>5. DecidedIn(runs[run[p]]) = DecidedIn(runs[run[p]]) + Due(runs[run[p]])
  BY <1>2, DecidedNat DEF Due
<1> QED
  BY <1>1, <1>2, <1>3, <1>4, <1>5, AskedDef DEF Owns, Settled

\* A step hands its run on to the loop.
LEMMA ReturnMove ==
  ASSUME EngineInv, NEW p \in Procs, Executing(p), NEW id \in Ids, NEW n \in Run,
         Return(p, id, n),
         n.pending = runs[run[p]].pending,
         AskedIn(runs[run[p]]) => AskedIn(n),
         DecidedIn(n) = DecidedIn(runs[run[p]]),
         n.status = runs[run[p]].status \/ (n.status = "failed" /\ Ends(id))
  PROVE  EngineInv' /\ Closed
<1>1. Owns(p, run[p], runs[run[p]])
  BY ExecutorOwns
<1>2. Leads(runs[run[p]], "returning", id, n)
  BY <1>1 DEF Leads, Owns, AtStep, Works
<1> QED
  BY <1>1, <1>2, OwnedMove DEF Return, Wait, Save, Move

LEMMA OrStopId == \A id \in Ids : OrStop(id) \in Ids /\ (Ends(OrStop(id)) <=> Ends(id))
BY DEF OrStop, Ids, Ends

\* The record of the step that a call executes.
LEMMA StepRecord ==
  ASSUME EngineInv, NEW p \in Procs, pc[p] \in {"lookup", "calling", "fetching", "evaluating"},
         NEW outcome \in RecordOutcomes
  PROVE  /\ Executing(p) /\ run[p] \in Calls /\ at[p] \in Steps
         /\ OnSuccess[at[p]] \in Ids /\ OnFailure[at[p]] \in Ids
         /\ LET n == Recorded(runs[run[p]], at[p], outcome) IN
              /\ n \in Run /\ n.status = runs[run[p]].status
              /\ n.pending = runs[run[p]].pending
              /\ AskedIn(runs[run[p]]) => AskedIn(n)
              /\ outcome = "waiting" => AskedIn(n)
              /\ outcome \notin {"approved", "rejected"} =>
                   DecidedIn(n) = DecidedIn(runs[run[p]])
<1>1. Executing(p) /\ run[p] \in Calls /\ at[p] \in Steps /\ runs[run[p]] \in Run
  BY DEF EngineInv, Owned, AtStep, Executing, TypeOK
<1> QED
  BY <1>1, RecordedOk, DecidedNat

\* A step that fails, whatever it leaves behind.
LEMMA FailMove ==
  ASSUME EngineInv, NEW p \in Procs, pc[p] \in {"lookup", "calling", "fetching", "evaluating"},
         NEW outcome \in RecordOutcomes \ {"approved", "rejected"},
         \/ PolicyFails(p, outcome)
         \/ Return(p, OrStop(OnFailure[at[p]]), Recorded(runs[run[p]], at[p], outcome))
  PROVE  EngineInv' /\ Closed
<1> DEFINE o == Recorded(runs[run[p]], at[p], outcome)
<1> DEFINE id == OrStop(OnFailure[at[p]])
<1>1. /\ Executing(p) /\ o \in Run /\ o.status = runs[run[p]].status
      /\ o.pending = runs[run[p]].pending
      /\ AskedIn(runs[run[p]]) => AskedIn(o)
      /\ DecidedIn(o) = DecidedIn(runs[run[p]])
      /\ id \in Ids /\ (Ends(id) <=> Ends(OnFailure[at[p]]))
  BY StepRecord, OrStopId
<1>2. CASE Return(p, id, o)
  <2> HIDE DEF o, id
  <2> QED
    BY <1>1, <1>2, ReturnMove
<1>3. CASE Return(p, id, Ended(o, "failed")) /\ Ends(OnFailure[at[p]])
  <2> HIDE DEF o, id
  <2>1. /\ Ended(o, "failed") \in Run /\ Ended(o, "failed").pending = o.pending
        /\ Ended(o, "failed").status = "failed"
        /\ AskedIn(o) => AskedIn(Ended(o, "failed"))
        /\ DecidedIn(Ended(o, "failed")) = DecidedIn(o)
    BY <1>1 DEF Ended, Run, AskedIn, DecidedIn
  <2> QED
    BY <1>1, <1>3, <2>1, ReturnMove
<1> QED
  BY <1>2, <1>3 DEF PolicyFails

\* A refused call of resume() changes nothing but itself.
LEMMA RefuseMove ==
  ASSUME EngineInv, NEW d \in Resumes, NEW r \in Calls, Refuse(d, r)
  PROVE  EngineInv' /\ Closed
<1> USE DEF EngineInv
<1>1. /\ d \in Procs /\ d \notin Calls
      /\ pc'[d] = "refused" /\ run'[d] = NoId /\ at'[d] = NoId
      /\ \A q \in Procs \ {d} : pc'[q] = pc[q] /\ run'[q] = run[q] /\ at'[q] = at[q]
      /\ \A c \in Calls : pc'[c] = pc[c]
      /\ runs' = runs /\ parks' = parks
  BY DEF Refuse, Wait, TypeOK, Procs
<1>2. TypeOK'
  BY <1>1 DEF Refuse, Wait, TypeOK, Ids
<1>3. \A q \in Procs : /\ Executing(q)' <=> q # d /\ Executing(q)
                       /\ Busy(q)' <=> q # d /\ Busy(q)
  BY <1>1 DEF Executing, Busy
<1>4. Owned' /\ Fresh'
  BY <1>1 DEF Owned, Fresh, AtStep
<1>5. OneExecutor' /\ WaitingIsIdle'
  BY <1>1, <1>3 DEF OneExecutor, WaitingIsIdle
<1>6. UnaskedIsOver'
  <2> SUFFICES ASSUME NEW q \in Procs, Executing(q)', ~AskedIn(runs'[run'[q]])
               PROVE  ~(runs'[run'[q]].status \in {"completed", "failed"})
    BY DEF UnaskedIsOver, Asked, AskedIn, Settled
  <2> QED
    BY <1>1, <1>3 DEF UnaskedIsOver, Settled, Asked, AskedIn
<1>7. Alone'
  BY <1>1, <1>3 DEF Alone, Asked
<1>8. Closed
  BY <1>1 DEF Closed
<1>9. DecidedOnce'
  BY <1>1 DEF DecidedOnce, Decisions
<1> QED
  BY <1>2, <1>4, <1>5, <1>6, <1>7, <1>8, <1>9

\* A call that starts has its run to itself.
LEMMA StartOwns ==
  ASSUME EngineInv, NEW c \in Calls, pc[c] = "idle",
         NEW o, o = [runs[c] EXCEPT !.status = "running"]
  PROVE  Owns(c, c, o) /\ o.history = runs[c].history
<1>1. /\ runs[c] \in Run /\ c \in Procs
      /\ runs[c].pending = NoId /\ runs[c].status = "none"
  BY DEF EngineInv, TypeOK, Fresh, Procs
<1>2. \A q \in Procs : run[q] = c => ~Executing(q) /\ ~Busy(q)
  BY <1>1 DEF EngineInv, Owned, Executing, Busy
<1>3. o.history = runs[c].history /\ Due(runs[c]) = 0
  BY <1>1 DEF Run, Due
<1>4. DecidedIn(o) = DecidedIn(runs[c]) + Due(runs[c])
  <2>1. DecidedIn(o) = DecidedIn(runs[c]) /\ DecidedIn(runs[c]) \in Nat
    BY <1>1, <1>3, DecidedNat DEF DecidedIn
  <2> QED
    BY <1>3, <2>1
<1> QED
  BY <1>1, <1>2, <1>3, <1>4 DEF Owns, Run, AskedIn, Settled

LEMMA StartMove ==
  ASSUME EngineInv, NEW c \in Calls, Start(c)
  PROVE  EngineInv' /\ Closed
<1>1. pc[c] = "idle" /\ c \in Procs /\ First \in Ids
  BY DEF Start, Procs, Ids
<1>2. Proceed(c, c, First, [runs[c] EXCEPT !.status = "running"])
  BY DEF Start
<1> QED
  BY <1>1, <1>2, StartOwns, ProceedMove

LEMMA ResumeMove ==
  ASSUME EngineInv, NEW d \in Resumes, NEW r \in Calls, NEW approved \in BOOLEAN,
         Resume(d, r, approved)
  PROVE  EngineInv' /\ Closed
<1> DEFINE x == runs[r].pending
           next == IF approved THEN OnSuccess[x] ELSE OnFailure[x]
           m == Recorded(runs[r], x, IF approved THEN "approved" ELSE "rejected")
           o == [m EXCEPT !.pending = NoId, !.status = "running"]
           e == Ended(o, IF approved THEN "completed" ELSE "failed")
<1>1. /\ d \in Procs /\ d \notin Calls /\ runs[r] \in Run
      /\ runs[r].status = "waiting_for_approval" /\ x \in Steps /\ pc[r] # "idle"
  BY DEF Resume, EngineInv, TypeOK, Fresh, WaitingIsIdle, Run, Procs
<1>2. /\ m \in Run /\ (AskedIn(runs[r]) => AskedIn(m))
      /\ DecidedIn(m) = DecidedIn(runs[r]) + 1
  BY <1>1, RecordedOk DEF RecordOutcomes
<1>3. next \in Ids
  BY <1>1
<1>4. o \in Run /\ o.pending = NoId /\ o.status = "running" /\ (AskedIn(m) => AskedIn(o))
      /\ DecidedIn(o) = DecidedIn(runs[r]) + Due(runs[r])
  <2> HIDE DEF m
  <2> QED
    BY <1>1, <1>2 DEF Run, AskedIn, DecidedIn, Due
<1>5. /\ e \in Run /\ e.pending = NoId /\ e.status \in {"completed", "failed"}
      /\ (AskedIn(o) => AskedIn(e)) /\ DecidedIn(e) = DecidedIn(o)
  <2> HIDE DEF o
  <2> QED
    BY <1>4 DEF Run, AskedIn, DecidedIn, Ended
<1>6. \A q \in Procs : run[q] = r => ~Executing(q) /\ (Busy(q) => Asked(r))
  BY <1>1 DEF EngineInv, WaitingIsIdle, Alone
<1>7. Owns(d, r, o)
  <2> HIDE DEF o, m, x
  <2> QED
    BY <1>1, <1>2, <1>4, <1>6, AskedDef DEF Owns, Settled
<1>8. \/ Wait(d, r, "done", next) /\ Save(r, e) /\ UNCHANGED parks
      \/ Proceed(d, r, next, o)
  BY DEF Resume
<1>9. CASE Wait(d, r, "done", next) /\ Save(r, e) /\ UNCHANGED parks
  <2> HIDE DEF e, next, o
  <2>1. Leads(o, "done", next, e)
    BY <1>3, <1>4, <1>5 DEF Leads, AtStep, Works
  <2> QED
    BY <1>1, <1>7, <1>9, <2>1, OwnedMove DEF Wait, Save, Move
<1>10. CASE Proceed(d, r, next, o)
  <2> HIDE DEF next, o
  <2> QED
    BY <1>1, <1>3, <1>7, <1>10, ProceedMove
<1> QED
  BY <1>8, <1>9, <1>10

\* What a call does after one of its awaits.
LEMMA ExecuteMove ==
  ASSUME EngineInv, NEW p \in Procs, Execute(p)
  PROVE  EngineInv' /\ Closed
<1> DEFINE r == run[p]
<1>1. CASE Continue(p)
  <2>1. r \in Calls /\ pc[r] # "idle" /\ runs[r] \in Run /\ at[p] \in Ids
    BY <1>1 DEF Continue, EngineInv, Owned, TypeOK
  <2>2. CASE Ends(at[p])
    <3> DEFINE n == IF runs[r].status = "running" THEN Ended(runs[r], "completed") ELSE runs[r]
    <3>1. Move(p, r, "done", at[p], n)
      BY <1>1, <2>2 DEF Continue, Proceed, Ends, Wait, Save, Move
    <3>2. Trails(p, "done", at[p], n)
      BY <1>1, <2>1, <2>2 DEF Continue, Trails, Ended
    <3> QED
      BY <3>1, <3>2, TrailingMove
  <2>3. CASE ~Ends(at[p])
    <3>1. Executing(p)
      BY <1>1, <2>3 DEF Continue, Executing
    <3> QED
      BY <1>1, <2>1, <3>1, ExecutorOwns, ProceedMove DEF Continue
  <2> QED
    BY <2>2, <2>3
<1>2. CASE Paused(p)
  <2>1. /\ r \in Calls /\ pc[r] # "idle" /\ at[p] \in Ids
        /\ Move(p, r, "done", at[p], runs[r])
    BY <1>2 DEF Paused, EngineInv, Owned, TypeOK, Wait, Move
  <2>2. Trails(p, "done", at[p], runs[r])
    BY <1>2, <2>1 DEF Paused, Trails
  <2> QED
    BY <2>1, <2>2, TrailingMove
<1>3. CASE Parked(p)
  <2>1. /\ r \in Calls /\ pc[r] # "idle"
        /\ Move(p, r, "returning", NoId, runs[r])
    BY <1>3 DEF Parked, Return, EngineInv, Owned, Wait, Save, Move
  <2>2. Trails(p, "returning", NoId, runs[r])
    BY <1>3, <2>1 DEF Parked, Trails, Ends, Ids
  <2> QED
    BY <2>1, <2>2, TrailingMove
<1>4. ASSUME NEW l \in {"calling", "evaluating"}, pc[p] \in {"lookup", "fetching"},
             Wait(p, r, l, at[p]), UNCHANGED <<runs, parks>>
      PROVE  EngineInv' /\ Closed
  <2>1. /\ Executing(p) /\ r \in Calls /\ at[p] \in Steps
        /\ Move(p, r, l, at[p], runs[r])
    BY <1>4 DEF Executing, EngineInv, Owned, AtStep, TypeOK, Wait, Move
  <2>2. Owns(p, r, runs[r])
    BY <2>1, ExecutorOwns
  <2>3. Leads(runs[r], l, at[p], runs[r])
    BY <1>4, <2>1, <2>2 DEF Leads, Owns, AtStep, Works, Ids
  <2> QED
    BY <2>1, <2>2, <2>3, OwnedMove
<1>5. CASE ToolLookup(p)
  <2>1. pc[p] = "lookup" /\ "failed" \in RecordOutcomes \ {"approved", "rejected"}
    BY <1>5 DEF ToolLookup, RecordOutcomes
  <2>2. CASE Wait(p, r, "calling", at[p]) /\ UNCHANGED <<runs, parks>>
    BY <1>4, <2>1, <2>2
  <2>3. CASE Return(p, OrStop(OnFailure[at[p]]), Recorded(runs[r], at[p], "failed"))
    BY <2>1, <2>3, FailMove
  <2> QED
    BY <1>5, <2>2, <2>3 DEF ToolLookup
<1>6. CASE ToolError(p)
  BY <1>6, FailMove DEF ToolError, RecordOutcomes
<1>7. CASE PolicyLookup(p)
  <2>1. pc[p] = "fetching" /\ "failed" \in RecordOutcomes \ {"approved", "rejected"}
    BY <1>7 DEF PolicyLookup, RecordOutcomes
  <2>2. CASE Wait(p, r, "evaluating", at[p]) /\ UNCHANGED <<runs, parks>>
    BY <1>4, <2>1, <2>2
  <2>3. CASE PolicyFails(p, "failed")
    BY <2>1, <2>3, FailMove
  <2> QED
    BY <1>7, <2>2, <2>3 DEF PolicyLookup
<1>8. CASE PolicyDenies(p)
  BY <1>8, FailMove DEF PolicyDenies, RecordOutcomes
<1>9. CASE ToolOk(p) \/ PolicyAllows(p)
  <2> DEFINE n == Recorded(runs[r], at[p], "completed")
  <2>1. /\ Executing(p) /\ n \in Run /\ n.status = runs[r].status
        /\ n.pending = runs[r].pending /\ (AskedIn(runs[r]) => AskedIn(n))
        /\ DecidedIn(n) = DecidedIn(runs[r])
        /\ OnSuccess[at[p]] \in Ids
    BY <1>9, StepRecord DEF ToolOk, PolicyAllows, RecordOutcomes
  <2>2. Return(p, OnSuccess[at[p]], n)
    BY <1>9 DEF ToolOk, PolicyAllows
  <2> HIDE DEF n
  <2> QED
    BY <2>1, <2>2, ReturnMove
<1>10. CASE PolicyAsks(p)
  <2> DEFINE m == Recorded(runs[r], at[p], "waiting")
             n == [m EXCEPT !.status = "waiting_for_approval", !.pending = at[p]]
  <2>1. /\ Executing(p) /\ m \in Run /\ AskedIn(m) /\ DecidedIn(m) = DecidedIn(runs[r])
        /\ r \in Calls /\ at[p] \in Steps
    BY <1>10, StepRecord DEF PolicyAsks, RecordOutcomes
  <2>2. Move(p, r, "parking", at[p], n)
    BY <1>10 DEF PolicyAsks, Wait, Pause, Save, Move
  <2>3. Owns(p, r, runs[r])
    BY <2>1, ExecutorOwns
  <2>4. Leads(runs[r], "parking", at[p], n)
    <3> HIDE DEF m
    <3> QED
      BY <2>1 DEF Leads, AtStep, Works, Run, AskedIn, DecidedIn, Ids
  <2> HIDE DEF n
  <2> QED
    BY <2>1, <2>2, <2>3, <2>4, OwnedMove
<1> QED
  BY <1>1, <1>2, <1>3, <1>5, <1>6, <1>7, <1>8, <1>9, <1>10 DEF Execute

-----------------------------------------------------------------------------
(* The theorems *)

LEMMA EngineInit == Init => EngineInv
<1> SUFFICES ASSUME Init PROVE EngineInv
  OBVIOUS
<1>1. /\ \A p \in Procs : pc[p] = "idle" /\ run[p] = NoId
      /\ \A c \in Calls : runs[c] = [status |-> "none", pending |-> NoId, history |-> <<>>]
  BY DEF Init
<1>2. TypeOK
  <2>1. [status |-> "none", pending |-> NoId, history |-> <<>>] \in Run
    BY DEF Run
  <2> QED
    BY <2>1 DEF Init, TypeOK, Ids
<1>3. \A p \in Procs : ~Executing(p) /\ ~Busy(p)
  BY <1>1 DEF Executing, Busy
<1>4. Owned /\ Fresh
  BY <1>1 DEF Owned, Fresh, AtStep, Procs
<1>5. OneExecutor /\ UnaskedIsOver /\ Alone
  BY <1>1, <1>3 DEF OneExecutor, UnaskedIsOver, Alone
<1>6. WaitingIsIdle
  BY <1>1 DEF WaitingIsIdle
<1>7. DecidedOnce
  <2>1. \A r \in Calls : Cardinality(Decisions(r)) = 0
    <3>1. \A r \in Calls : Decisions(r) = {}
      BY <1>1 DEF Decisions
    <3>2. Cardinality({}) = 0
      BY FS_EmptySet
    <3> QED
      BY <3>1, <3>2
  <2>2. \A r \in Calls : parks[r] = 0 /\ runs[r].status = "none"
    BY <1>1 DEF Init
  <2> QED
    BY <2>1, <2>2 DEF DecidedOnce
<1> QED
  BY <1>2, <1>4, <1>5, <1>6, <1>7 DEF EngineInv

LEMMA EngineNext == EngineInv /\ [Next]_vars => EngineInv' /\ Closed
<1> SUFFICES ASSUME EngineInv, [Next]_vars PROVE EngineInv' /\ Closed
  OBVIOUS
<1>1. CASE \E c \in Calls : Start(c)
  BY <1>1, StartMove
<1>2. CASE \E d \in Resumes, r \in Calls : Refuse(d, r)
  BY <1>2, RefuseMove
<1>3. CASE \E d \in Resumes, r \in Calls, approved \in BOOLEAN : Resume(d, r, approved)
  BY <1>3, ResumeMove
<1>4. CASE \E p \in Procs : Execute(p)
  BY <1>4, ExecuteMove
<1>5. CASE UNCHANGED vars
  <2>1. EngineInv'
    BY <1>5 DEF vars, EngineInv, TypeOK, Owned, Fresh, Alone, Busy, Asked, OneExecutor,
                Executing, WaitingIsIdle, UnaskedIsOver, Settled, DecidedOnce, Decisions
  <2>2. Closed
    BY <1>5 DEF vars, Closed
  <2> QED
    BY <2>1, <2>2
<1> QED
  BY <1>1, <1>2, <1>3, <1>4, <1>5 DEF Next

\* The engine keeps its invariant, however its calls interleave.
THEOREM EngineCorrect == Spec => []EngineInv
<1>1. Init => EngineInv
  BY EngineInit
<1>2. EngineInv /\ [Next]_vars => EngineInv'
  BY EngineNext
<1> QED
  BY <1>1, <1>2, PTL DEF Spec

\* The engine's variables keep their types.
THEOREM EngineTypes == Spec => []TypeOK
BY EngineCorrect, PTL DEF EngineInv

\* Every parking of a run is answered by one decision, whoever races to decide.
THEOREM ParkIsDecidedOnce == Spec => []DecidedOnce
BY EngineCorrect, PTL DEF EngineInv

\* Two calls of resume() that race never execute the same run.
THEOREM ExecutorIsAlone == Spec => []OneExecutor
BY EngineCorrect, PTL DEF EngineInv

\* A run that is stored as waiting is not being executed by anybody.
THEOREM WaitingRunIsIdle == Spec => []WaitingIsIdle
BY EngineCorrect, PTL DEF EngineInv

\* While a call executes a run that no policy has parked, the run is not over.
THEOREM UnaskedRunIsOver == Spec => []UnaskedIsOver
BY EngineCorrect, PTL DEF EngineInv

\* A settled run that no policy has parked never changes again.
THEOREM UnaskedRunIsFinal == Spec => UnaskedIsFinal
<1>1. EngineInv /\ [Next]_vars =>
        [\A r \in Calls : Settled(r) /\ ~Asked(r) => runs'[r] = runs[r]]_vars
  BY EngineNext DEF Closed
<1> QED
  BY <1>1, EngineCorrect, PTL DEF Spec, UnaskedIsFinal
===============================================================================
