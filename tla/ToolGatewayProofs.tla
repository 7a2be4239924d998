-------------------------- MODULE ToolGatewayProofs --------------------------
(***************************************************************************)
(* Theorems about ToolGateway, for every set of policies, every registry   *)
(* and any number of callers.                                              *)
(***************************************************************************)
EXTENDS ToolGateway, OperatorLemmas

-----------------------------------------------------------------------------
(* The registries *)

USE RegistryAssumption, GatewayAssumption

\* A record that has left the draft state was approved by somebody.
Vetted(o) == o.lifecycle.state # "draft" => o.lifecycle.approvedBy \in Approvers

RecordOf(x) ==
  [lifecycle : Lifecycle, data : IF x \in Tools THEN ToolData ELSE Links]

StoreOK ==
  /\ store \in [Objects -> [lifecycle : Lifecycle, data : ToolData \cup Links] \cup {NoRecord}]
  /\ \A x \in Objects : store[x] # NoRecord => store[x] \in RecordOf(x) /\ Vetted(store[x])

\* What an operation of a registry does to object x.
Evolves(x) ==
  /\ store[x] # NoRecord =>
       /\ store'[x] # NoRecord
       /\ store[x].lifecycle.state # "draft" => store'[x].lifecycle.state # "draft"
  /\ State(x) = "deprecated" =>
       store'[x] # NoRecord /\ store'[x].lifecycle.state \in {"deprecated", "retired"}
  /\ State(x) = "retired" =>
       store'[x] # NoRecord /\ store'[x].lifecycle.state = "retired"

\* A first registration or a life-cycle change, as the registries make them.
Changes ==
  \/ \E x \in Objects, d \in ToolData \cup Links :
       (IF x \in Tools THEN d \in ToolData ELSE d \in Links) /\ Register(x, d)
  \/ \E x \in Objects, by \in Approvers : Transition(x, "active", by)
  \/ \E x \in Objects, to \in {"deprecated", "retired"} : Transition(x, to, NoOne)
  \/ UNCHANGED store

LEMMA RecordsAreNotNoRecord ==
  \A x : NoRecord \notin RecordOf(x)
         /\ RecordOf(x) \subseteq [lifecycle : Lifecycle, data : ToolData \cup Links]
BY DEF RecordOf

LEMMA StoreStep ==
  ASSUME StoreOK, Changes
  PROVE  StoreOK' /\ \A x \in Objects : Evolves(x)
<1>1. ASSUME NEW x \in Objects, NEW n \in RecordOf(x), Vetted(n),
             store' = [store EXCEPT ![x] = n],
             store[x] # NoRecord =>
               /\ store[x].lifecycle.state # "draft" => n.lifecycle.state # "draft"
               /\ store[x].lifecycle.state = "deprecated" =>
                    n.lifecycle.state \in {"deprecated", "retired"}
               /\ store[x].lifecycle.state = "retired" => n.lifecycle.state = "retired"
      PROVE  StoreOK' /\ \A y \in Objects : Evolves(y)
  <2>1. /\ store'[x] = n /\ n # NoRecord
        /\ \A y \in Objects \ {x} : store'[y] = store[y]
    BY <1>1, RecordsAreNotNoRecord DEF StoreOK
  <2>2. store' \in [Objects -> [lifecycle : Lifecycle, data : ToolData \cup Links] \cup {NoRecord}]
    BY <1>1, RecordsAreNotNoRecord DEF StoreOK
  <2>3. \A y \in Objects : store'[y] # NoRecord => store'[y] \in RecordOf(y) /\ Vetted(store'[y])
    BY <1>1, <2>1 DEF StoreOK
  <2>4. StoreOK'
    BY <2>2, <2>3 DEF StoreOK, Vetted, RecordOf
  <2>5. \A y \in Objects : Evolves(y)
    BY <1>1, <2>1 DEF Evolves, State
  <2> QED
    BY <2>4, <2>5
<1>2. ASSUME NEW x \in Objects, NEW d, IF x \in Tools THEN d \in ToolData ELSE d \in Links,
             Register(x, d)
      PROVE  StoreOK' /\ \A y \in Objects : Evolves(y)
  <2> DEFINE n == [lifecycle |-> InitialLifecycle, data |-> d]
  <2>1. n \in RecordOf(x) /\ Vetted(n)
    BY <1>2 DEF RecordOf, Vetted, InitialLifecycle, Lifecycle, States
  <2>2. store[x] = NoRecord /\ store' = [store EXCEPT ![x] = n]
    BY <1>2 DEF Register
  <2> HIDE DEF n
  <2> QED
    BY <1>1, <2>1, <2>2
<1>3. ASSUME NEW x \in Objects, NEW to, NEW by, Transition(x, to, by),
             \/ to = "active" /\ by \in Approvers
             \/ to \in {"deprecated", "retired"} /\ by = NoOne
      PROVE  StoreOK' /\ \A y \in Objects : Evolves(y)
  <2> DEFINE m == store[x].lifecycle
             n == [store[x] EXCEPT !.lifecycle = Transitioned(m, to, by)]
  <2>1. /\ store[x] \in RecordOf(x) /\ Vetted(store[x])
        /\ m \in Lifecycle /\ to \in ValidTransitions[m.state]
        /\ store' = [store EXCEPT ![x] = n]
    BY <1>3 DEF StoreOK, Transition, RecordOf
  <2>2. m.state \in States /\ m.approvedBy \in Approvers \cup {NoOne}
    BY <2>1 DEF Lifecycle
  <2>3. /\ to = "active" => m.state = "draft"
        /\ to # "active" => m.state \in {"active", "deprecated"}
        /\ to = "deprecated" => m.state = "active"
    BY <1>3, <2>1, <2>2 DEF ValidTransitions, States
  <2>4. Transitioned(m, to, by) \in Lifecycle
    BY <1>3, <2>2 DEF Transitioned, Lifecycle, States
  <2>5. /\ n \in RecordOf(x) /\ n.lifecycle = Transitioned(m, to, by)
    BY <2>1, <2>4 DEF RecordOf
  <2>6. n.lifecycle.state = to /\ to # "draft" /\ n.lifecycle.approvedBy \in Approvers
    BY <1>3, <2>1, <2>2, <2>3, <2>5 DEF Transitioned, Vetted
  <2> HIDE DEF n
  <2> QED
    BY <1>1, <1>3, <2>1, <2>3, <2>5, <2>6 DEF Vetted
<1>4. CASE UNCHANGED store
  BY <1>4 DEF StoreOK, Vetted, RecordOf, Evolves, State
<1> QED
  BY <1>2, <1>3, <1>4 DEF Changes

-----------------------------------------------------------------------------
(* The gateway *)

\* Every trace a call of callTool() may have.
Traces ==
  { <<>>, <<"call_started">>, <<"call_started", "policy_checked">>,
    <<"call_started", "call_completed">>, <<"call_started", "call_failed">>,
    <<"call_started", "policy_checked", "call_completed">>,
    <<"call_started", "policy_checked", "call_failed">> }

\* Events are appended one by one.
LEMMA AppendToOne ==
  ASSUME NEW a, NEW b PROVE Append(<<a>>, b) = <<a, b>>
<1> DEFINE S == {a, b}
           s == Append(<<a>>, b)
           t == <<a, b>>
<1>1. <<a>> \in Seq(S) /\ Len(<<a>>) = 1 /\ <<a>>[1] = a
  OBVIOUS
<1>2. s \in Seq(S) /\ Len(s) = 2 /\ s[1] = a /\ s[2] = b
  BY <1>1, AppendProperties
<1>3. t \in Seq(S) /\ Len(t) = 2 /\ t[1] = a /\ t[2] = b
  OBVIOUS
<1> HIDE DEF s, t
<1>4. \A i \in 1 .. Len(s) : s[i] = t[i]
  BY <1>2, <1>3
<1>5. s = t
  BY <1>2, <1>3, <1>4, SeqEqual
<1> QED
  BY <1>5 DEF s, t

LEMMA AppendToTwo ==
  ASSUME NEW a, NEW b, NEW c PROVE Append(<<a, b>>, c) = <<a, b, c>>
<1> DEFINE S == {a, b, c}
           s == Append(<<a, b>>, c)
           t == <<a, b, c>>
<1>1. <<a, b>> \in Seq(S) /\ Len(<<a, b>>) = 2 /\ <<a, b>>[1] = a /\ <<a, b>>[2] = b
  OBVIOUS
<1>2. s \in Seq(S) /\ Len(s) = 3 /\ s[1] = a /\ s[2] = b /\ s[3] = c
  BY <1>1, AppendProperties
<1>3. t \in Seq(S) /\ Len(t) = 3 /\ t[1] = a /\ t[2] = b /\ t[3] = c
  OBVIOUS
<1> HIDE DEF s, t
<1>4. \A i \in 1 .. Len(s) : s[i] = t[i]
  BY <1>2, <1>3
<1>5. s = t
  BY <1>2, <1>3, <1>4, SeqEqual
<1> QED
  BY <1>5 DEF s, t

\* The copy a call took was the record of a tool that is not a draft since.
Copied(c) ==
  /\ pc[c] # "idle" => call[c].tool \in Tools
  /\ pc[c] \in {"checking", "calling", "returned"} => Callable(c)
  /\ pc[c] # "idle" /\ Callable(c) =>
       /\ store[call[c].tool] # NoRecord
       /\ store[call[c].tool].lifecycle.state # "draft"

\* The decision a call has is what the policy says of its request.
Governed(c) ==
  /\ outcome[c] # "none" =>
       policy # NoPolicy /\ pc[c] # "idle" /\ outcome[c] = Evaluate(policy, Request(c))
  /\ Reached(c) /\ policy # NoPolicy => outcome[c] = "allow"

\* The trace of a call is as long as the call has come.
Traced(c) ==
  /\ trace[c] \in Traces
  /\ pc[c] = "resolving" => trace[c] = <<>>
  /\ pc[c] = "checking" => trace[c] = <<"call_started">>
  /\ pc[c] = "calling" =>
       trace[c] \in {<<"call_started">>, <<"call_started", "policy_checked">>}

CallsOK ==
  /\ pc \in [Callers -> {"idle", "resolving", "checking", "calling", "returned", "thrown"}]
  /\ call \in [Callers -> [tool : Tools, agent : Agents \cup {"unknown"}, input : Inputs]
                            \cup {NoRecord}]
  /\ record \in [Callers -> [lifecycle : Lifecycle, data : ToolData] \cup {NoRecord}]
  /\ outcome \in [Callers -> Outcomes \cup {"none"}]
  /\ DOMAIN trace = Callers /\ trace = [c \in Callers |-> trace[c]]

GatewayInv ==
  /\ StoreOK /\ CallsOK
  /\ boot \in 0 .. BootSteps /\ changes \in 0 .. MaxChanges
  /\ policy \in Policies \cup {NoPolicy}
  /\ \A c \in Callers : Copied(c) /\ Governed(c) /\ Traced(c)

LEMMA GatewayImplies == GatewayInv => TypeOK /\ ApprovedToolsOnly /\ GovernedCalls
<1> SUFFICES ASSUME GatewayInv PROVE TypeOK /\ ApprovedToolsOnly /\ GovernedCalls
  OBVIOUS
<1> USE DEF GatewayInv
<1>1. TypeOK
  <2>1. Traces \subseteq Seq({"call_started", "policy_checked", "call_completed", "call_failed"})
    BY DEF Traces
  <2> QED
    BY <2>1 DEF TypeOK, StoreOK, CallsOK, Traced
<1>2. ApprovedToolsOnly
  <2> SUFFICES ASSUME NEW c \in Callers, Reached(c)
               PROVE  /\ store[call[c].tool] # NoRecord
                      /\ store[call[c].tool].lifecycle.approvedBy \in Approvers
    BY DEF ApprovedToolsOnly
  <2>1. call[c].tool \in Objects /\ store[call[c].tool] # NoRecord
        /\ store[call[c].tool].lifecycle.state # "draft"
    BY DEF Reached, Copied, Objects
  <2> QED
    BY <2>1 DEF StoreOK, Vetted
<1>3. GovernedCalls
  <2> SUFFICES ASSUME NEW c \in Callers
               PROVE  /\ Reached(c) /\ policy # NoPolicy => Permits(policy, Request(c))
                      /\ outcome[c] # "none" =>
                           (outcome[c] = "allow" <=> Permits(policy, Request(c)))
    BY DEF GovernedCalls
  <2>1. policy # NoPolicy =>
          (Evaluate(policy, Request(c)) = "allow" <=> Permits(policy, Request(c)))
    BY EvaluatePermits
  <2> QED
    BY <2>1 DEF Governed
<1> QED
  BY <1>1, <1>2, <1>3

LEMMA GatewayInit == Init => GatewayInv
<1> SUFFICES ASSUME Init PROVE GatewayInv
  OBVIOUS
<1>1. StoreOK
  BY DEF Init, EmptyStore, StoreOK
<1>2. CallsOK
  BY DEF Init, CallsOK
<1>3. \A c \in Callers : Copied(c) /\ Governed(c) /\ Traced(c)
  BY DEF Init, Copied, Callable, Governed, Reached, Traced, Traces
<1>4. BootSteps \in Nat
  BY DEF BootSteps
<1> QED
  BY <1>1, <1>2, <1>3, <1>4 DEF Init, GatewayInv

\* What the steps of a call c leave alone.
LEMMA Others ==
  ASSUME GatewayInv, NEW c \in Callers, store' = store, policy' = policy,
         \A d \in Callers \ {c} :
           /\ pc'[d] = pc[d] /\ call'[d] = call[d] /\ record'[d] = record[d]
           /\ outcome'[d] = outcome[d] /\ trace'[d] = trace[d],
         Copied(c)', Governed(c)', Traced(c)'
  PROVE  \A d \in Callers : Copied(d)' /\ Governed(d)' /\ Traced(d)'
<1> SUFFICES ASSUME NEW d \in Callers, d # c PROVE Copied(d)' /\ Governed(d)' /\ Traced(d)'
  OBVIOUS
<1>1. Copied(d) /\ Governed(d) /\ Traced(d)
  BY DEF GatewayInv
<1> QED
  BY <1>1 DEF Copied, Callable, Governed, Reached, Request, Traced

\* A change of the registries leaves every call as it is.
LEMMA RegistryMove ==
  ASSUME GatewayInv, Changes, UNCHANGED <<policy, pc, calls>>,
         boot' \in 0 .. BootSteps, changes' \in 0 .. MaxChanges
  PROVE  GatewayInv' /\ \A x \in Objects : Evolves(x)
<1> USE DEF GatewayInv
<1>1. StoreOK' /\ \A x \in Objects : Evolves(x)
  BY StoreStep
<1>2. CallsOK'
  BY DEF CallsOK, calls
<1>3. ASSUME NEW c \in Callers PROVE Copied(c)' /\ Governed(c)' /\ Traced(c)'
  <2>1. /\ pc' = pc /\ call' = call /\ record' = record /\ outcome' = outcome
        /\ trace' = trace /\ policy' = policy
    BY DEF calls
  <2>2. Copied(c) /\ Governed(c) /\ Traced(c)
    OBVIOUS
  <2>3. pc[c] # "idle" => call[c].tool \in Objects
    BY <2>2 DEF Copied, Objects
  <2> QED
    BY <1>1, <2>1, <2>2, <2>3 DEF Copied, Callable, Governed, Reached, Request, Traced, Evolves
<1>4. policy' \in Policies \cup {NoPolicy} /\ BootSteps' = BootSteps
  BY DEF BootSteps
<1> QED
  BY <1>1, <1>2, <1>3, <1>4

LEMMA BootstrapMove ==
  ASSUME GatewayInv, Bootstrap
  PROVE  GatewayInv' /\ \A x \in Objects : Evolves(x)
<1> DEFINE i == boot \div 2 + 1
<1>1. boot \in Nat /\ boot < BootSteps /\ BootSteps = 2 * Len(BootTools) + 2
      /\ Len(BootTools) \in Nat
  BY DEF GatewayInv, Bootstrap, Ready, BootSteps
<1>2. i \in Nat /\ i >= 1 /\ boot + 1 \in 0 .. BootSteps
  BY <1>1
<1>3. i <= Len(BootTools) => BootTools[i] \in Tools
  BY <1>1, <1>2
<1>4. Changes
  <2> HIDE DEF i
  <2>1. CASE i <= Len(BootTools) /\ RegisterTool(BootTools[i], "mock", FALSE)
    BY <1>3, <2>1 DEF Changes, RegisterTool, ToolData, AdapterTypes, Objects
  <2>2. CASE i <= Len(BootTools) /\ Transition(BootTools[i], "active", "system-bootstrap")
    BY <1>3, <2>2 DEF Changes, Objects
  <2>3. CASE RegisterAgent(BootAgent, BootSkills)
    <3>1. BootAgent \in Objects /\ BootAgent \notin Tools
      BY DEF Objects
    <3>2. [allowed |-> BootSkills] \in Links
      BY DEF Links
    <3> QED
      BY <2>3, <3>1, <3>2 DEF Changes, RegisterAgent
  <2>4. CASE Transition(BootAgent, "active", "system-bootstrap")
    BY <2>4 DEF Changes, Objects
  <2> QED
    BY <2>1, <2>2, <2>3, <2>4 DEF Bootstrap, i
<1> QED
  BY <1>2, <1>4, RegistryMove DEF Bootstrap, GatewayInv

LEMMA AdministerMove ==
  ASSUME GatewayInv, Administer
  PROVE  GatewayInv' /\ \A x \in Objects : Evolves(x)
<1>1. changes' \in 0 .. MaxChanges
  BY DEF GatewayInv, Administer
<1>2. Changes
  <2>1. CASE \E t \in Tools, type \in AdapterTypes, url \in BOOLEAN : RegisterTool(t, type, url)
    BY <2>1 DEF Changes, RegisterTool, ToolData, Objects
  <2>2. CASE \E s \in Skills, links \in Grants : RegisterSkill(s, links)
    BY <2>2 DEF Changes, RegisterSkill, Links, Objects
  <2>3. CASE \E a \in Agents, links \in Grants : RegisterAgent(a, links)
    BY <2>3 DEF Changes, RegisterAgent, Links, Objects
  <2>4. CASE \E by \in Approvers, t \in Tools : ChangeTool(t, by)
    BY <2>4 DEF Changes, ChangeTool, Objects
  <2>5. CASE \E by \in Approvers, s \in Skills : ChangeSkill(s, by)
    BY <2>5 DEF Changes, ChangeSkill, Objects
  <2>6. CASE \E by \in Approvers, a \in Agents : ChangeAgent(a, by)
    BY <2>6 DEF Changes, ChangeAgent, Objects
  <2> QED
    BY <2>1, <2>2, <2>3, <2>4, <2>5, <2>6 DEF Administer
<1> QED
  BY <1>1, <1>2, RegistryMove DEF Administer, GatewayInv

\* A call takes a copy of the record of its tool.
LEMMA CallMove ==
  ASSUME GatewayInv, NEW c \in Callers, NEW t \in Tools, NEW a \in Agents \cup {"unknown"},
         NEW i \in Inputs, Call(c, t, a, i)
  PROVE  GatewayInv'
<1> USE DEF GatewayInv
<1>1. /\ pc'[c] = "resolving" /\ call'[c] = [tool |-> t, agent |-> a, input |-> i]
      /\ record'[c] = store[t] /\ outcome'[c] = "none" /\ trace'[c] = <<>>
      /\ \A d \in Callers \ {c} :
           /\ pc'[d] = pc[d] /\ call'[d] = call[d] /\ record'[d] = record[d]
           /\ outcome'[d] = outcome[d] /\ trace'[d] = trace[d]
      /\ UNCHANGED <<store, boot, changes, policy>>
  BY DEF Call, Goto, CallsOK
<1>2. t \in Objects /\ (store[t] # NoRecord => store[t] \in [lifecycle : Lifecycle, data : ToolData])
  BY DEF StoreOK, RecordOf, Objects
<1>3. CallsOK'
  <2>1. store[t] \in [lifecycle : Lifecycle, data : ToolData] \cup {NoRecord}
    BY <1>2
  <2>2. pc' \in [Callers -> {"idle", "resolving", "checking", "calling", "returned", "thrown"}]
    BY DEF Call, Goto, CallsOK
  <2>3. record' \in [Callers -> [lifecycle : Lifecycle, data : ToolData] \cup {NoRecord}]
    BY <2>1 DEF Call, CallsOK
  <2>4. call' \in [Callers -> [tool : Tools, agent : Agents \cup {"unknown"}, input : Inputs]
                               \cup {NoRecord}]
    <3>1. [tool |-> t, agent |-> a, input |-> i]
            \in [tool : Tools, agent : Agents \cup {"unknown"}, input : Inputs]
      OBVIOUS
    <3> QED
      BY <3>1 DEF Call, CallsOK
  <2>5. /\ outcome' \in [Callers -> Outcomes \cup {"none"}]
        /\ DOMAIN trace' = Callers /\ trace' = [d \in Callers |-> trace'[d]]
    BY DEF Call, CallsOK
  <2> QED
    BY <2>2, <2>3, <2>4, <2>5 DEF CallsOK
<1>4. Copied(c)' /\ Governed(c)' /\ Traced(c)'
  <2>1. Copied(c)'
    <3>1. store[t] # NoRecord /\ store[t].lifecycle.state = "active" =>
            store[t].lifecycle.state # "draft"
      OBVIOUS
    <3> QED
      BY <1>1, <3>1 DEF Copied, Callable
  <2> QED
    BY <1>1, <2>1 DEF Governed, Reached, Traced, Traces
<1>5. \A d \in Callers : Copied(d)' /\ Governed(d)' /\ Traced(d)'
  BY <1>1, <1>4, Others
<1>6. StoreOK' /\ BootSteps' = BootSteps
  BY <1>1 DEF StoreOK, Vetted, RecordOf, BootSteps
<1> QED
  BY <1>1, <1>3, <1>5, <1>6

\* What the end of a call has in its trace.
TellsOutcome(c) ==
  pc[c] # pc'[c] /\ pc'[c] \in {"returned", "thrown"} =>
    /\ pc'[c] = "returned" <=> Contains(trace'[c], "call_completed")
    /\ pc[c] = "calling" /\ pc'[c] = "thrown" <=> Contains(trace'[c], "call_failed")
    /\ Contains(trace'[c], "call_completed") \/ Contains(trace'[c], "call_failed")
         => Head(trace'[c]) = "call_started"

\* A step of a call that has its copy: it moves on to l, its trace becomes s,
\* and o is the decision it has.
Moves(c, l, s, o) ==
  /\ pc[c] \in {"resolving", "checking", "calling"}
  /\ l \in {"checking", "calling", "returned", "thrown"} /\ Goto(c, l)
  /\ s \in Traces /\ trace' = [trace EXCEPT ![c] = s]
  /\ o \in Outcomes \cup {"none"} /\ outcome' = [outcome EXCEPT ![c] = o]
  /\ UNCHANGED <<store, boot, changes, policy, call, record>>
  /\ l # "thrown" => Callable(c)
  /\ o # "none" => policy # NoPolicy /\ o = Evaluate(policy, Request(c))
  /\ l \in {"calling", "returned"} /\ policy # NoPolicy => o = "allow"
  /\ l = "checking" => s = <<"call_started">>
  /\ l = "calling" => s \in {<<"call_started">>, <<"call_started", "policy_checked">>}

LEMMA CallStep ==
  ASSUME GatewayInv, NEW c \in Callers, NEW l, NEW s, NEW o, Moves(c, l, s, o)
  PROVE  /\ GatewayInv'
         /\ pc'[c] = l /\ trace'[c] = s
         /\ \A d \in Callers \ {c} : pc'[d] = pc[d]
<1> USE DEF Moves
<1> USE DEF GatewayInv
<1>1. /\ pc'[c] = l /\ trace'[c] = s /\ outcome'[c] = o
      /\ \A d \in Callers \ {c} :
           /\ pc'[d] = pc[d] /\ call'[d] = call[d] /\ record'[d] = record[d]
           /\ outcome'[d] = outcome[d] /\ trace'[d] = trace[d]
  BY DEF Goto, CallsOK
<1>2. CallsOK'
  BY DEF Goto, CallsOK
<1>3. Copied(c)' /\ Governed(c)' /\ Traced(c)'
  <2>1. Copied(c) /\ Governed(c)
    OBVIOUS
  <2>2. Copied(c)'
    BY <1>1, <2>1 DEF Copied, Callable
  <2>3. Governed(c)'
    BY <1>1, <2>1 DEF Governed, Reached, Request
  <2>4. Traced(c)'
    BY <1>1 DEF Traced
  <2> QED
    BY <2>2, <2>3, <2>4
<1>4. \A d \in Callers : Copied(d)' /\ Governed(d)' /\ Traced(d)'
  BY <1>1, <1>3, Others
<1>5. StoreOK' /\ BootSteps' = BootSteps
  BY DEF StoreOK, Vetted, RecordOf, BootSteps
<1> QED
  BY <1>1, <1>2, <1>4, <1>5

\* The step of a call tells its outcome in its trace, and moves nobody else.
LEMMA ExecuteMove ==
  ASSUME GatewayInv, NEW c \in Callers, Execute(c)
  PROVE  GatewayInv' /\ \A d \in Callers : TellsOutcome(d)
<1> USE DEF GatewayInv
<1>1. /\ Copied(c) /\ Governed(c) /\ Traced(c)
      /\ outcome[c] \in Outcomes \cup {"none"} /\ outcome = [outcome EXCEPT ![c] = outcome[c]]
      /\ trace = [trace EXCEPT ![c] = trace[c]]
  BY DEF CallsOK
<1>2. ASSUME NEW l \in {"checking", "calling", "returned", "thrown"},
             pc'[c] = l, \A d \in Callers \ {c} : pc'[d] = pc[d], NEW s \in Traces, trace'[c] = s,
             pc[c] \in {"resolving", "checking", "calling"},
             l = "returned" => Len(s) \in {2, 3} /\ s[Len(s)] = "call_completed",
             l = "thrown" /\ pc[c] = "calling" => Len(s) \in {2, 3} /\ s[Len(s)] = "call_failed",
             l = "thrown" /\ pc[c] # "calling" =>
               s \in {<<>>, <<"call_started", "policy_checked">>}
      PROVE  \A d \in Callers : TellsOutcome(d)
  <2>1. TellsOutcome(c)
    BY <1>2 DEF TellsOutcome, Contains, Traces
  <2> QED
    BY <1>2, <2>1 DEF TellsOutcome
<1>3. CASE NotCallable(c)
  <2>1. /\ pc[c] = "resolving" /\ Goto(c, "thrown") /\ trace[c] = <<>>
        /\ UNCHANGED <<store, boot, changes, policy, call, record>>
        /\ outcome' = [outcome EXCEPT ![c] = outcome[c]]
        /\ trace' = [trace EXCEPT ![c] = <<>>]
    BY <1>1, <1>3 DEF NotCallable, calls, Traced
  <2>2. <<>> \in Traces /\ (outcome[c] # "none" => outcome[c] = Evaluate(policy, Request(c)) /\ policy # NoPolicy)
    BY <1>1 DEF Traces, Governed
  <2>3. /\ GatewayInv' /\ pc'[c] = "thrown" /\ trace'[c] = <<>>
        /\ \A d \in Callers \ {c} : pc'[d] = pc[d]
    <3>1. Moves(c, "thrown", <<>>, outcome[c])
      BY <1>1, <2>1, <2>2 DEF Moves
    <3> QED
      BY <3>1, CallStep
  <2> QED
    BY <1>2, <2>1, <2>2, <2>3
<1>4. CASE Started(c)
  <2> DEFINE s == <<"call_started">>
  <2>1. /\ pc[c] = "resolving" /\ Callable(c) /\ trace[c] = <<>>
        /\ UNCHANGED <<store, boot, changes, policy, call, record>>
        /\ trace' = [trace EXCEPT ![c] = Append(<<>>, "call_started")]
    BY <1>1, <1>4 DEF Started, Emit, Traced
  <2>2. s \in Traces /\ s = <<"call_started">> /\ trace' = [trace EXCEPT ![c] = s]
    BY <2>1 DEF Traces
  <2>5. ~Contains(s, "call_completed") /\ ~Contains(s, "call_failed")
    BY DEF Contains
  <2> HIDE DEF s
  <2>3. CASE /\ policy # NoPolicy
             /\ outcome' = [outcome EXCEPT ![c] = Evaluate(policy, Request(c))]
             /\ Goto(c, "checking")
    <3>1. Evaluate(policy, Request(c)) \in Outcomes
      BY <2>3, EvaluatePermits
    <3>2. /\ GatewayInv' /\ pc'[c] = "checking" /\ trace'[c] = s
          /\ \A d \in Callers \ {c} : pc'[d] = pc[d]
      <4>1. Moves(c, "checking", s, Evaluate(policy, Request(c)))
        BY <1>1, <2>1, <2>2, <2>3, <3>1 DEF Moves
      <4> QED
        BY <4>1, CallStep
    <3> QED
      BY <1>2, <2>1, <2>2, <3>2
  <2>4. CASE policy = NoPolicy /\ Route(c) /\ UNCHANGED outcome
    <3>1. PICK l \in {"calling", "thrown"} : Goto(c, l)
      BY <2>4 DEF Route
    <3>2. outcome[c] = "none" /\ outcome' = [outcome EXCEPT ![c] = outcome[c]]
      BY <1>1, <2>4 DEF Governed
    <3>3. /\ GatewayInv' /\ pc'[c] = l /\ trace'[c] = s
          /\ \A d \in Callers \ {c} : pc'[d] = pc[d]
      <4>1. Moves(c, l, s, outcome[c])
        BY <1>1, <2>1, <2>2, <2>4, <3>1, <3>2 DEF Moves
      <4> QED
        BY <4>1, CallStep
    <3> QED
      BY <2>1, <2>5, <3>1, <3>3 DEF TellsOutcome
  <2> QED
    BY <1>4, <2>3, <2>4 DEF Started
<1>5. CASE Checked(c)
  <2> DEFINE s == <<"call_started", "policy_checked">>
  <2>1. /\ pc[c] = "checking" /\ Callable(c) /\ trace[c] = <<"call_started">>
        /\ UNCHANGED <<store, boot, changes, policy, call, record>>
        /\ outcome' = [outcome EXCEPT ![c] = outcome[c]]
        /\ trace' = [trace EXCEPT ![c] = Append(<<"call_started">>, "policy_checked")]
    BY <1>1, <1>5 DEF Checked, Emit, Traced, Copied
  <2>2. /\ s \in Traces /\ s = <<"call_started", "policy_checked">>
        /\ trace' = [trace EXCEPT ![c] = s]
    <3>1. Append(<<"call_started">>, "policy_checked") = s
      BY AppendToOne
    <3>2. s \in Traces
      BY DEF Traces
    <3> QED
      BY <2>1, <3>1, <3>2
  <2>5. outcome[c] # "none" => outcome[c] = Evaluate(policy, Request(c)) /\ policy # NoPolicy
    BY <1>1 DEF Governed
  <2>3. PICK l \in {"calling", "thrown"} : Goto(c, l) /\ (l = "calling" => outcome[c] = "allow")
    BY <1>5 DEF Checked, Route
  <2> HIDE DEF s
  <2>4. /\ GatewayInv' /\ pc'[c] = l /\ trace'[c] = s
        /\ \A d \in Callers \ {c} : pc'[d] = pc[d]
    <3>1. Moves(c, l, s, outcome[c])
      BY <1>1, <2>1, <2>2, <2>3, <2>5 DEF Moves
    <3> QED
      BY <3>1, CallStep
  <2> QED
    BY <1>2, <2>1, <2>2, <2>3, <2>4
<1>6. ASSUME pc[c] = "calling", UNCHANGED <<store, boot, changes, policy, call, record, outcome>>,
             NEW l \in {"returned", "thrown"}, Goto(c, l),
             Emit(c, IF l = "returned" THEN "call_completed" ELSE "call_failed")
      PROVE  GatewayInv' /\ \A d \in Callers : TellsOutcome(d)
  <2> DEFINE e == IF l = "returned" THEN "call_completed" ELSE "call_failed"
             s == Append(trace[c], e)
  <2>1. /\ Callable(c) /\ trace' = [trace EXCEPT ![c] = s]
        /\ trace[c] \in {<<"call_started">>, <<"call_started", "policy_checked">>}
    BY <1>1, <1>6 DEF Emit, Copied, Traced
  <2>2. s \in Traces /\ Len(s) \in {2, 3} /\ s[Len(s)] = e
    <3>3. e \in {"call_completed", "call_failed"}
      OBVIOUS
    <3> HIDE DEF e
    <3>1. CASE trace[c] = <<"call_started">>
      <4>1. s = <<"call_started", e>>
        BY <3>1, AppendToOne
      <4> QED
        BY <3>3, <4>1 DEF Traces
    <3>2. CASE trace[c] = <<"call_started", "policy_checked">>
      <4>1. s = <<"call_started", "policy_checked", e>>
        BY <3>2, AppendToTwo
      <4> QED
        BY <3>3, <4>1 DEF Traces
    <3> QED
      BY <2>1, <3>1, <3>2
  <2>3. /\ policy # NoPolicy => outcome[c] = "allow"
        /\ outcome[c] # "none" => outcome[c] = Evaluate(policy, Request(c)) /\ policy # NoPolicy
        /\ outcome' = [outcome EXCEPT ![c] = outcome[c]]
    BY <1>1, <1>6 DEF Governed, Reached
  <2> HIDE DEF s, e
  <2>4. /\ GatewayInv' /\ pc'[c] = l /\ trace'[c] = s
        /\ \A d \in Callers \ {c} : pc'[d] = pc[d]
    <3>1. Moves(c, l, s, outcome[c])
      BY <1>1, <1>6, <2>1, <2>2, <2>3 DEF Moves
    <3> QED
      BY <3>1, CallStep
  <2> QED
    BY <1>2, <1>6, <2>2, <2>4 DEF e
<1>7. CASE AdapterOk(c)
  BY <1>6, <1>7 DEF AdapterOk
<1>8. CASE AdapterError(c)
  BY <1>6, <1>8 DEF AdapterError
<1> QED
  BY <1>3, <1>4, <1>5, <1>7, <1>8 DEF Execute, Answer

\* What every step keeps of the registries and tells of the calls.
Withdraws ==
  \A x \in Objects :
    /\ State(x) = "deprecated" => State(x)' \in {"deprecated", "retired"}
    /\ State(x) = "retired" =>
         /\ State(x)' = "retired"
         /\ x \in Agents => \A s \in Skills : ~CanUseSkill(x, s)'

LEMMA GatewayStep ==
  GatewayInv /\ [Next]_vars =>
    /\ GatewayInv'
    /\ Withdraws
    /\ \A c \in Callers : TellsOutcome(c)
<1> SUFFICES ASSUME GatewayInv, [Next]_vars
             PROVE  GatewayInv' /\ Withdraws /\ \A c \in Callers : TellsOutcome(c)
  OBVIOUS
<1>1. ASSUME \A x \in Objects : Evolves(x) PROVE Withdraws
  BY <1>1 DEF Withdraws, Evolves, State, CanUseSkill
<1>2. ASSUME UNCHANGED store PROVE Withdraws
  BY <1>2 DEF Withdraws, State, CanUseSkill
<1>3. ASSUME UNCHANGED pc PROVE \A c \in Callers : TellsOutcome(c)
  BY <1>3 DEF TellsOutcome
<1>4. CASE Bootstrap
  <2>1. UNCHANGED pc
    BY <1>4 DEF Bootstrap
  <2> QED
    BY <1>1, <1>3, <1>4, <2>1, BootstrapMove
<1>5. CASE Administer
  <2>1. UNCHANGED pc
    BY <1>5 DEF Administer
  <2> QED
    BY <1>1, <1>3, <1>5, <2>1, AdministerMove
<1>6. ASSUME NEW c \in Callers, NEW t \in Tools, NEW a \in Agents \cup {"unknown"},
             NEW i \in Inputs, Call(c, t, a, i)
      PROVE  GatewayInv' /\ Withdraws /\ \A d \in Callers : TellsOutcome(d)
  <2>1. GatewayInv'
    BY <1>6, CallMove
  <2>2. UNCHANGED store /\ \A d \in Callers : pc'[d] = pc[d] \/ pc'[d] = "resolving"
    BY <1>6 DEF Call, Goto, GatewayInv, CallsOK
  <2>3. \A d \in Callers : TellsOutcome(d)
    BY <2>2 DEF TellsOutcome
  <2> QED
    BY <1>2, <2>1, <2>2, <2>3
<1>7. ASSUME NEW c \in Callers, Execute(c)
      PROVE  GatewayInv' /\ Withdraws /\ \A d \in Callers : TellsOutcome(d)
  <2>1. UNCHANGED store
    BY <1>7 DEF Execute, NotCallable, Started, Checked, Answer, AdapterOk, AdapterError
  <2> QED
    BY <1>2, <1>7, <2>1, ExecuteMove
<1>8. CASE UNCHANGED vars
  <2>1. UNCHANGED <<store, boot, changes, policy, pc, call, record, outcome, trace>>
    BY <1>8 DEF vars, calls
  <2>2. GatewayInv'
    BY <2>1 DEF GatewayInv, StoreOK, Vetted, RecordOf, CallsOK, BootSteps, Copied, Callable,
                Governed, Reached, Request, Traced
  <2> QED
    BY <1>2, <1>3, <2>1, <2>2
<1> QED
  BY <1>4, <1>5, <1>6, <1>7, <1>8 DEF Next

\* The gateway keeps its invariant, however calls and registry changes interleave.
THEOREM GatewayCorrect == Spec => []GatewayInv
<1>1. Init => GatewayInv
  BY GatewayInit
<1>2. GatewayInv /\ [Next]_vars => GatewayInv'
  BY GatewayStep
<1> QED
  BY <1>1, <1>2, PTL DEF Spec

\* A tool that runs is one that somebody has approved.
THEOREM RunningToolIsApproved == Spec => []ApprovedToolsOnly
BY GatewayCorrect, GatewayImplies, PTL

\* A call reaches its adapter exactly when its policy permits the request.
THEOREM RunningCallIsGoverned == Spec => []GovernedCalls
BY GatewayCorrect, GatewayImplies, PTL

\* The gateway's variables keep their types.
THEOREM GatewayTypes == Spec => []TypeOK
BY GatewayCorrect, GatewayImplies, PTL

\* A deprecated object is never active again, and a retired one stays retired
\* and, if it is an agent, can use no skill.
THEOREM WithdrawnStays == Spec => WithdrawnForGood
<1>1. GatewayInv /\ [Next]_vars =>
        [\A x \in Objects :
           /\ State(x) = "deprecated" => State(x)' \in {"deprecated", "retired"}
           /\ State(x) = "retired" =>
                /\ State(x)' = "retired"
                /\ x \in Agents => \A s \in Skills : ~CanUseSkill(x, s)']_store
  BY GatewayStep DEF Withdraws
<1> QED
  BY <1>1, GatewayCorrect, PTL DEF Spec, WithdrawnForGood

\* The trace of a call that is over tells what became of it.
THEOREM TraceIsTrue == Spec => TraceTellsOutcome
<1>1. GatewayInv /\ [Next]_vars =>
        [\A c \in Callers :
           pc[c] # pc'[c] /\ pc'[c] \in {"returned", "thrown"} =>
             /\ pc'[c] = "returned" <=> Contains(trace'[c], "call_completed")
             /\ pc[c] = "calling" /\ pc'[c] = "thrown" <=> Contains(trace'[c], "call_failed")
             /\ Contains(trace'[c], "call_completed") \/ Contains(trace'[c], "call_failed")
                  => Head(trace'[c]) = "call_started"]_vars
  BY GatewayStep DEF TellsOutcome
<1> QED
  BY <1>1, GatewayCorrect, PTL DEF Spec, TraceTellsOutcome
==============================================================================
