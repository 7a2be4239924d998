------------------------------ MODULE AuditLog ------------------------------
(***************************************************************************)
(* The audit sink (audit/src/in-memory-audit-sink.js) and the trace        *)
(* emitters that write to it (observability/src/trace-emitter.js).  An     *)
(* event is an object with nested objects: write() copies and freezes the  *)
(* outer one only, so the attributes (and the actor) of a stored event are *)
(* the very objects the writer, the caller of emit() and every reader      *)
(* hold.  Nested objects are therefore references, and `heap` what they    *)
(* hold now.                                                               *)
(***************************************************************************)
EXTENDS Integers, Sequences

CONSTANTS
    Refs,       \* nested objects
    Traces,     \* trace ids
    Actors,     \* actors, as [type |-> ..., id |-> ...]
    Outcomes,
    Unset,      \* undefined
    MaxEvents,  \* bound: events stored
    MaxTime     \* bound: the clock

VARIABLES
    store,      \* #events
    heap,       \* nested object |-> its contents, or Unset while it does not exist
    emitters,   \* the trace ids of the emitters there are
    held,       \* nested objects code outside the sink holds a reference to
    now         \* the clock

vars == <<store, heap, emitters, held, now>>

\* What a nested object may hold: an attribute bag or an actor
Bags == [traceId : Traces \cup {Unset}]
Contents == Bags \cup Actors

Init ==
    /\ store = <<>>
    /\ heap = [r \in Refs |-> Unset]
    /\ emitters = {}
    /\ held = {}
    /\ now = 0

\* The event with its nested objects as they are now
Read(e, h) ==
    [e EXCEPT !.attributes = IF @ \in Refs THEN h[@] ELSE Unset,
              !.actor = IF @ \in Refs THEN h[@] ELSE Unset]

\* write(): a timestamp unless the event has one, then a copy, frozen, appended.
Stored(event) ==
    [event EXCEPT !.timestamp = IF @ = Unset THEN now ELSE @]

AppendEvent(event) == Len(store) < MaxEvents /\ store' = Append(store, Stored(event))

\* A writer makes an event of its own, with an actor and attributes, and writes it.
Write(trace, attributes, actor, bag, who, outcome, timestamp) ==
    /\ attributes # actor
    /\ heap[attributes] = Unset /\ heap[actor] = Unset
    /\ heap' = [heap EXCEPT ![attributes] = bag, ![actor] = who]
    /\ held' = held \cup {attributes, actor}
    /\ AppendEvent([traceId |-> trace, attributes |-> attributes, actor |-> actor,
                outcome |-> outcome, timestamp |-> timestamp])
    /\ UNCHANGED <<emitters, now>>

\* The constructor and child(): an emitter is its sink and its trace id.
CreateEmitter(trace) ==
    /\ trace \notin emitters
    /\ emitters' = emitters \cup {trace}
    /\ UNCHANGED <<store, heap, held, now>>

\* emit(): the attributes are copied into a new object, which goes into the store
\* and, with the event, back to the caller.
Emit(trace, attributes, bag) ==
    /\ trace \in emitters
    /\ heap[attributes] = Unset
    /\ heap' = [heap EXCEPT ![attributes] = bag]
    /\ held' = held \cup {attributes}
    /\ AppendEvent([traceId |-> trace, attributes |-> attributes, actor |-> Unset,
                outcome |-> Unset, timestamp |-> now])
    /\ UNCHANGED <<emitters, now>>

-----------------------------------------------------------------------------
(* The queries: the events that match, nested objects by reference            *)

FindByTraceId(trace, h) == SelectSeq(store, LAMBDA e :
    e.traceId = trace \/ (e.attributes \in Refs /\ h[e.attributes] = [traceId |-> trace]))

FindByActor(type, id, h) == SelectSeq(store, LAMBDA e :
    LET actor == Read(e, h).actor
    IN /\ type = Unset \/ (actor # Unset /\ actor.type = type)
       /\ id = Unset \/ (actor # Unset /\ actor.id = id))

FindByTimeRange(from, to) == SelectSeq(store, LAMBDA e :
    (from = Unset \/ e.timestamp >= from) /\ (to = Unset \/ e.timestamp <= to))

FindByOutcome(outcome) == SelectSeq(store, LAMBDA e : e.outcome = outcome)

ListAll == store

\* A reader keeps what it was given.
Query(found) ==
    /\ found # <<>>
    /\ held' = held \cup ({found[i].attributes : i \in DOMAIN found} \cap Refs)
                    \cup ({found[i].actor : i \in DOMAIN found} \cap Refs)
    /\ UNCHANGED <<store, heap, emitters, now>>

\* Code that holds a nested object may change it; the stored event itself is frozen.
Change(ref, contents) ==
    /\ ref \in held
    /\ (contents \in Bags) <=> (heap[ref] \in Bags)
    /\ heap' = [heap EXCEPT ![ref] = contents]
    /\ UNCHANGED <<store, emitters, held, now>>

Tick ==
    /\ now < MaxTime
    /\ now' = now + 1
    /\ UNCHANGED <<store, heap, emitters, held>>

Next ==
    \/ \E trace \in Traces \cup {Unset}, a, b \in Refs, bag \in Bags, who \in Actors,
          outcome \in Outcomes, timestamp \in {Unset} \cup 0..MaxTime :
          Write(trace, a, b, bag, who, outcome, timestamp)
    \/ \E trace \in Traces : CreateEmitter(trace)
    \/ \E trace \in Traces, a \in Refs, bag \in Bags : Emit(trace, a, bag)
    \/ \E trace \in Traces : Query(FindByTraceId(trace, heap))
    \/ \E actor \in Actors : Query(FindByActor(actor.type, Unset, heap))
    \/ \E from, to \in 0..MaxTime : Query(FindByTimeRange(from, to))
    \/ \E outcome \in Outcomes : Query(FindByOutcome(outcome))
    \/ Query(ListAll)
    \/ \E ref \in Refs, contents \in Contents : Change(ref, contents)
    \/ Tick

Spec == Init /\ [][Next]_vars

-----------------------------------------------------------------------------
(* Properties                                                              *)

\* The store is append-only (in-memory-audit-sink.js:10, "existing events cannot
\* be modified or deleted"): every event there reads the same ever after, nested
\* objects included, and no query loses an answer it gave.
EventsStand ==
    [][ /\ \A i \in DOMAIN store : Read(store'[i], heap') = Read(store[i], heap)
        /\ \A trace \in Traces :
              Len(FindByTraceId(trace, heap)') >= Len(FindByTraceId(trace, heap)) ]_vars
=============================================================================
